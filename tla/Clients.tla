------------------------------- MODULE Clients -------------------------------
(* Who a client is.  One kind registers: it is given an id, and its redirect *)
(* addresses are a row of the table clients until a sweep finds it unused.   *)
(* The other kind is its own id, the address of a document porchlight        *)
(* downloads and keeps for a day.  Both are limited: registrations by source *)
(* and in all within an hour, downloads within a minute.                     *)
(*                                                                           *)
(* A download is an await: handlers overlap in it, and it ends within the    *)
(* timeout.  The statements of one handler between two awaits interleave     *)
(* with those of others but take no time.  What a request goes through       *)
(* between its page and its grant is in Approval; here it is four steps.     *)
EXTENDS Integers, FiniteSets, Functions

CONSTANTS
    Ids,          \* what a registration may be given for an id, each once
    Documents,    \* ids that are https addresses of a document
    Redirects,    \* where a client may ask to be sent
    Sources,      \* where a registration comes from, as source_of has it
    Handlers,     \* the daemon's handlers of a request
    PerSource,    \* registrations of one source within an hour
    Global,       \* MAX_REGISTRATIONS_PER_HOUR
    Hour,
    MaxDownloads, \* MAX_DOWNLOADS_PER_MINUTE
    Minute,
    MaxCached,    \* MAX_CACHED_CLIENTS
    CacheFor,     \* CACHE_FOR_MS
    FetchTime,    \* FETCH_TIMEOUT
    StaleAge,     \* STALE_CLIENT_AGE
    RequestTTL,   \* PENDING_TTL
    CodeTTL,      \* AUTHORIZATION_CODE_TTL
    MaxTime,      \* bound: the clock of a run stops here
    MaxChanges,   \* bound: changes of documents
    MaxStarts     \* bound: downloads begun

VARIABLES
    now,
    clients,      \* table clients: id -> its redirects and when it was made
    hits,         \* table dcr_hits
    pending,      \* table pending: requests that wait, by client
    grants,       \* the client_id column of table grants
    codes,        \* Auth.codes: client -> when its code expires
    cache,        \* ClientMetadata.cache: document -> what it said and when that was put here
    downloads,    \* ClientMetadata.downloads
    handler,      \* what each handler is doing
    sweeping,     \* the sweep is between pending_prune and clients_prune
    (* the world *)
    published,    \* document -> the redirects it names
    last,         \* document -> redirect -> when it last named it
    (* history, read by no action *)
    allHits,      \* every row dcr_hits ever had
    starts,       \* every download that was begun
    gap,          \* clients swept while one of their requests was between two tables
    changes

world == <<published, last, changes>>
tables == <<clients, hits, pending, grants>>
memory == <<codes, cache, downloads>>
history == <<allHits, starts, gap>>
vars == <<now, tables, memory, handler, sweeping, world, history>>

Never == -(CacheFor + FetchTime)
Idle == [step |-> "idle"]

ASSUME IdsAssumption == Ids \cap Documents = {}
ASSUME LimitsAssumption ==
    {PerSource, Global, Hour, MaxDownloads, Minute, MaxCached, CacheFor, FetchTime,
     StaleAge, RequestTTL, CodeTTL, MaxTime, MaxChanges, MaxStarts} \subseteq Nat
ASSUME CacheAssumption == CacheFor > 0

-----------------------------------------------------------------------------
At(h, step) == handler[h].step = step
Becomes(h, state) == handler' = [handler EXCEPT ![h] = state]
Waiting == {p.client : p \in pending}

\* A table or map once value is under key.
With(table, key, value) == [k \in DOMAIN table \cup {key} |-> IF k = key THEN value ELSE table[k]]

\* Instants are passed only where everybody is at an await, in time.
Awaits(h) == At(h, "idle") \/ (At(h, "download") /\ now < handler[h].until)

Init ==
    /\ now = 0
    /\ clients = << >> /\ hits = {} /\ pending = {} /\ grants = {}
    /\ codes = << >> /\ cache = << >> /\ downloads = {}
    /\ handler = [h \in Handlers |-> Idle]
    /\ sweeping = FALSE
    /\ published \in [Documents -> SUBSET Redirects]
    /\ last = [d \in Documents |-> [r \in Redirects |-> IF r \in published[d] THEN 0 ELSE Never]]
    /\ allHits = {} /\ starts = {} /\ gap = {}
    /\ changes = 0

-----------------------------------------------------------------------------
(* POST /oauth/register *)

Recent(since) == {x \in hits : x.at >= since}

\* A mutated form: one more than the limit.
RoomOffByOne(recent, source) ==
    /\ Cardinality({x \in recent : x.source = source}) <= PerSource
    /\ Cardinality(recent) <= Global
Room(recent, source) ==
    /\ Cardinality({x \in recent : x.source = source}) < PerSource
    /\ Cardinality(recent) < Global

\* registration_try_record is one turn of the connection.
TryRecord(h, source, id) ==
    /\ At(h, "idle")
    /\ id \notin {x.id : x \in allHits}
    /\ LET recent == Recent(now - Hour)
           hit == [id |-> id, source |-> source, at |-> now]
       IN IF Room(recent, source)
            THEN /\ hits' = recent \cup {hit}
                 /\ allHits' = allHits \cup {hit}
                 /\ Becomes(h, [step |-> "register", client |-> id])
            ELSE hits' = recent /\ UNCHANGED <<allHits, handler>>
    /\ UNCHANGED <<now, clients, pending, grants, memory, sweeping, world, starts, gap>>

ClientRegister(h) ==
    /\ At(h, "register")
    /\ \E uris \in (SUBSET Redirects) \ {{}} :
          clients' = With(clients, handler[h].client, [uris |-> uris, at |-> now])
    /\ Becomes(h, Idle)
    /\ UNCHANGED <<now, hits, pending, grants, memory, sweeping, world, history>>

-----------------------------------------------------------------------------
(* GET /oauth/authorize, and the pages that show who asks. *)

CachedForever(d) == d \in DOMAIN cache
Cached(d) == d \in DOMAIN cache /\ now - cache[d].at < CacheFor

\* Where a handler goes once it knows the redirects of the client.
Knows(h, client, redirect, uris) ==
    Becomes(h, IF redirect \in uris
                 THEN [step |-> "begin", client |-> client, redirect |-> redirect]
                 ELSE Idle)

\* What redirect_matches lets through besides equal addresses, another port of
\* the loopback, is one address here.
IdentifyRegistered(h, client, redirect) ==
    /\ At(h, "idle")
    /\ client \in DOMAIN clients
    /\ Knows(h, client, redirect, clients[client].uris)
    /\ UNCHANGED <<now, tables, memory, sweeping, world, history>>

IdentifyCached(h, client, redirect) ==
    /\ At(h, "idle")
    /\ client \in Documents
    /\ Cached(client)
    /\ Knows(h, client, redirect, cache[client].uris)
    /\ UNCHANGED <<now, tables, memory, sweeping, world, history>>

\* take_download_slot, and the download begins; a page that only shows the
\* client of a waiting request has no redirect to compare.
StartDownload(h, client, redirect) ==
    /\ At(h, "idle")
    /\ client \in Documents
    /\ redirect = "none" => client \in Waiting
    /\ ~Cached(client)
    /\ Cardinality(starts) < MaxStarts
    /\ LET recent == {x \in downloads : x.at >= now - Minute}
           slot == [n |-> Cardinality(starts), at |-> now]
       IN IF Cardinality(recent) < MaxDownloads
            THEN /\ downloads' = recent \cup {slot}
                 /\ starts' = starts \cup {slot}
                 /\ Becomes(h, [step |-> "download", client |-> client, redirect |-> redirect,
                                until |-> now + FetchTime, found |-> {}, read |-> FALSE])
            ELSE downloads' = recent /\ UNCHANGED <<starts, handler>>
    /\ UNCHANGED <<now, tables, codes, cache, sweeping, world, allHits, gap>>

\* The document's server answers, with the document as it is then.
Answer(h) ==
    /\ At(h, "download")
    /\ ~handler[h].read
    /\ handler' = [handler EXCEPT ![h].found = published[handler[h].client], ![h].read = TRUE]
    /\ UNCHANGED <<now, tables, memory, sweeping, world, history>>

\* The answer is here: it is kept, with the time it got here.
Keep(h) ==
    /\ At(h, "download")
    /\ handler[h].read
    /\ LET kept == IF Cardinality(DOMAIN cache) >= MaxCached THEN << >> ELSE cache
       IN cache' = With(kept, handler[h].client, [uris |-> handler[h].found, at |-> now])
    /\ Knows(h, handler[h].client, handler[h].redirect, handler[h].found)
    /\ UNCHANGED <<now, tables, codes, downloads, sweeping, world, history>>

\* An address that is not public, no document, a timeout: nobody is known.
DownloadFails(h) ==
    /\ At(h, "download")
    /\ Becomes(h, Idle)
    /\ UNCHANGED <<now, tables, memory, sweeping, world, history>>

\* begin: the row of the request, unless too many wait (the limits are in
\* Approval).  One request of a client waits at a time (a bound).  age: how
\* long the address has not been published.
FileRequest(h) ==
    /\ At(h, "begin")
    /\ LET c == handler[h].client
           age == IF c \in Documents THEN now - last[c][handler[h].redirect] ELSE 0
           request == [client |-> c, age |-> age, expires |-> now + RequestTTL]
       IN \/ c \notin Waiting /\ pending' = pending \cup {request}
          \/ pending' = pending
    /\ Becomes(h, Idle)
    /\ UNCHANGED <<now, clients, hits, grants, memory, sweeping, world, history>>

-----------------------------------------------------------------------------
(* What becomes of a request. *)

Approve(p) ==
    /\ p \in pending
    /\ p.expires >= now
    /\ pending' = pending \ {p}
    /\ codes' = With(codes, p.client, now + CodeTTL)
    /\ UNCHANGED <<now, clients, hits, grants, cache, downloads, handler, sweeping, world, history>>

Deny(p) ==
    /\ p \in pending
    /\ pending' = pending \ {p}
    /\ UNCHANGED <<now, clients, hits, grants, memory, handler, sweeping, world, history>>

Exchange(c) ==
    /\ c \in DOMAIN codes
    /\ codes' = Restrict(codes, DOMAIN codes \ {c})
    /\ grants' = IF now <= codes[c] THEN grants \cup {c} ELSE grants
    /\ UNCHANGED <<now, clients, hits, pending, cache, downloads, handler, sweeping, world, history>>

RevokeGrant(c) ==
    /\ c \in grants
    /\ grants' = grants \ {c}
    /\ UNCHANGED <<now, clients, hits, pending, memory, handler, sweeping, world, history>>

-----------------------------------------------------------------------------
(* The sweep: pending_prune, then clients_prune. *)

SweepPending ==
    /\ ~sweeping
    /\ sweeping' = TRUE
    /\ pending' = {p \in pending : p.expires >= now}
    /\ UNCHANGED <<now, clients, hits, grants, memory, handler, world, history>>

\* A mutated form: a grant does not count as a use.
UnusedButGranted(c) == clients[c].at < now - StaleAge /\ c \notin Waiting
Unused(c) == clients[c].at < now - StaleAge /\ c \notin Waiting \cup grants

\* Between two tables: identified and not filed yet, or approved and not connected yet.
Between(c) == c \in DOMAIN codes \/ \E h \in Handlers : At(h, "begin") /\ handler[h].client = c

SweepClients ==
    /\ sweeping
    /\ sweeping' = FALSE
    /\ LET old == {c \in DOMAIN clients : Unused(c)}
       IN /\ clients' = Restrict(clients, DOMAIN clients \ old)
          /\ gap' = gap \cup {c \in old : Between(c)}
    /\ UNCHANGED <<now, hits, pending, grants, memory, handler, world, allHits, starts>>

-----------------------------------------------------------------------------
Tick ==
    /\ now < MaxTime
    /\ ~sweeping
    /\ \A h \in Handlers : Awaits(h)
    /\ now' = now + 1
    /\ last' = [d \in Documents |-> [r \in Redirects |->
                  IF r \in published[d] THEN now + 1 ELSE last[d][r]]]
    /\ UNCHANGED <<tables, memory, handler, sweeping, published, changes, history>>

ChangeDocument(d) ==
    /\ changes < MaxChanges
    /\ changes' = changes + 1
    /\ \E uris \in (SUBSET Redirects) \ {published[d]} :
        /\ published' = [published EXCEPT ![d] = uris]
        /\ last' = [last EXCEPT ![d] = [r \in Redirects |-> IF r \in uris THEN now ELSE @[r]]]
    /\ UNCHANGED <<now, tables, memory, handler, sweeping, history>>

\* The tables stay; the rest is gone.
Restart ==
    /\ codes' = << >> /\ cache' = << >> /\ downloads' = {}
    /\ starts' = {}
    /\ handler' = [h \in Handlers |-> Idle]
    /\ sweeping' = FALSE
    /\ UNCHANGED <<now, tables, world, allHits, gap>>

Register(h) == (\E s \in Sources, id \in Ids : TryRecord(h, s, id)) \/ ClientRegister(h)

Identify(h) ==
    \/ \E c \in Ids \cup Documents, r \in Redirects : IdentifyRegistered(h, c, r) \/ IdentifyCached(h, c, r)
    \/ \E c \in Documents, r \in Redirects \cup {"none"} : StartDownload(h, c, r)
    \/ Answer(h) \/ Keep(h) \/ DownloadFails(h) \/ FileRequest(h)

Next ==
    \/ \E h \in Handlers : Register(h) \/ Identify(h)
    \/ \E p \in pending : Approve(p) \/ Deny(p)
    \/ \E c \in Ids \cup Documents : Exchange(c) \/ RevokeGrant(c)
    \/ SweepPending \/ SweepClients
    \/ Tick \/ Restart
    \/ \E d \in Documents : ChangeDocument(d)

Spec == Init /\ [][Next]_vars

-----------------------------------------------------------------------------
Within(S, from, length) == {x \in S : x.at >= from /\ x.at <= from + length}

\* In no hour, wherever it begins, are there more registrations of one source,
\* or of all, than the limits; in no minute of one daemon more downloads
\* (store.rs registration_try_record, client_metadata.rs take_download_slot).
LimitsHoldInEveryWindow ==
    /\ \A x \in allHits :
        LET hour == Within(allHits, x.at, Hour)
        IN /\ Cardinality(hour) <= Global
           /\ \A s \in Sources : Cardinality({y \in hour : y.source = s}) <= PerSource
    /\ \A x \in starts : Cardinality(Within(starts, x.at, Minute)) <= MaxDownloads

\* A request is filed only for an address the client's document still named
\* when the cached copy, or the download it was compared with, was allowed to
\* begin, even if an old answer arrives after a newer one (gateway.rs
\* identify_client, client_metadata.rs fetch).
RedirectsAreRecent == \A p \in pending : p.age < CacheFor + FetchTime

\* Who registered and has a request waiting or a grant is still registered;
\* a sweep can miss only a client whose request is between two tables
\* (store.rs clients_prune, gateway.rs authorize, auth.rs approve).
ClientsInUseAreRegistered == (Waiting \cup grants) \cap Ids \subseteq DOMAIN clients \cup gap
=============================================================================
