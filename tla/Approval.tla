------------------------------ MODULE Approval ------------------------------
(***************************************************************************)
(* How a client comes to be allowed on a link: auth.rs (begin,             *)
(* approve_with_code, approve, exchange_code, revoke_server, revoke_all),  *)
(* the pending and grants tables of store.rs, the two handlers of          *)
(* gateway.rs that drive them, the denials of approval.rs and actions.rs   *)
(* and the sweep of serve.rs.                                              *)
(*                                                                         *)
(* A step is one SQL statement or one critical section of an in-memory     *)
(* mutex, because that is what another thread or process can come between. *)
(* Auth.code_lock, Auth.codes and Auth.approved live in the daemon; the    *)
(* command line and the terminal screen run in another process and share   *)
(* only the database.                                                      *)
(***************************************************************************)
EXTENDS Naturals, FiniteSets

CONSTANTS
    Requests,     \* request ids; each is generated at most once (random_token)
    NoRequest,    \* what a handler without a request points at
    Workers,      \* the daemon's request handlers
    Links,        \* names of links
    NoLink,
    Processes,    \* who may revoke: "daemon" and, in another process, "cli"
    MaxAttempts,  \* auth.rs MAX_CODE_ATTEMPTS
    MaxPending,   \* auth.rs MAX_PENDING_REQUESTS
    PendingTTL,   \* auth.rs PENDING_TTL
    CodeTTL,      \* auth.rs AUTHORIZATION_CODE_TTL
    MaxTime       \* bound: the clock of a run stops here

ASSUME ApprovalAssumption ==
    /\ NoRequest \notin Requests
    /\ {"reloader", "nobody"} \intersect Workers = {}
    /\ NoLink \notin Links
    /\ Processes \subseteq {"daemon", "cli"}
    /\ MaxAttempts \in Nat \ {0}
    /\ MaxPending \in Nat \ {0}
    /\ PendingTTL \in Nat \ {0}
    /\ CodeTTL \in Nat \ {0}
    /\ MaxTime \in Nat

VARIABLES
    now,        \* core.rs now_ms
    pending,    \* the rows of table pending
    row,        \* the columns of each row; they keep their last value once the row is deleted
    grants,     \* the requests whose exchange left a row in table grants that still exists
    codes,      \* Auth.codes
    approved,   \* Auth.approved
    lockedBy,   \* who holds the daemon's Auth.code_lock
    handler,    \* what each daemon handler is doing, and its locals
    cookies,    \* requests whose browser was answered with the connect page and its cookie
    denying,    \* requests a person's denial has looked up and is about to delete
    revoker,    \* the revoke_server of each process
    (* history, read by no action *)
    confirmed,  \* requests whose right code was typed in the browser that asked
    guesses,    \* times the typed code was compared for a request
    minted,     \* authorization codes made for a request
    granted,    \* grants made from a request
    gone        \* requests filed before a finished revoke_server of the daemon

db == <<pending, row, grants>>
memory == <<codes, approved>>
history == <<confirmed, guesses, minted, granted, gone>>
vars == <<now, db, memory, lockedBy, handler, cookies, denying, revoker, history>>

-----------------------------------------------------------------------------
(* Handlers                                                                *)

Steps ==
    { "idle",
      "create", "page",                            \* begin, then the connect page
      "entered", "record", "compare", "lockout",   \* approve_with_code
      "read", "remove", "publish",                 \* approve
      "grant" }                                    \* exchange_code

\* The steps during which the handler holds code_lock.
Critical == { "record", "compare", "lockout", "read", "remove", "publish", "grant" }

Doing(step, r) ==
    [step |-> step, req |-> r, own |-> FALSE, right |-> FALSE, attempts |-> 0, now |-> 0]

Idle == Doing("idle", NoRequest)

Reloader == "reloader"     \* the daemon task that calls revoke_server
Nobody == "nobody"

NoRevocation == [step |-> "idle", link |-> NoLink, targets |-> {}]

NewRow(l, t) == [link |-> l, attempts |-> 0, expires_at |-> t + PendingTTL]

At(w, step) == handler[w].step = step
Go(w, step) == handler' = [handler EXCEPT ![w].step = step]
Return(w) == handler' = [handler EXCEPT ![w] = Idle]

AcquireUnlocked(w) == lockedBy' = w       \* mutated form: nobody waits
Acquire(w) == lockedBy = Nobody /\ lockedBy' = w

KeepLock == UNCHANGED lockedBy             \* mutated form: not released
Release == lockedBy' = Nobody

\* gateway.rs `live`, and the filters of approve_with_code and approve.
Live(r) == r \in pending /\ row[r].expires_at >= now

\* store.rs pending_count_active
Active(t) == {r \in pending : row[r].expires_at > t}

On(l) == {r \in Requests : row[r].link = l}

Init ==
    /\ now = 0
    /\ pending = {}
    /\ row = [r \in Requests |-> [link |-> NoLink, attempts |-> 0, expires_at |-> 0]]
    /\ grants = {}
    /\ codes = {}
    /\ approved = {}
    /\ lockedBy = Nobody
    /\ handler = [w \in Workers |-> Idle]
    /\ cookies = {}
    /\ denying = {}
    /\ revoker = [p \in Processes |-> NoRevocation]
    /\ confirmed = {}
    /\ guesses = [r \in Requests |-> 0]
    /\ minted = [r \in Requests |-> 0]
    /\ granted = [r \in Requests |-> 0]
    /\ gone = {}

-----------------------------------------------------------------------------
(* A client asks: gateway.rs authorize, auth.rs begin. No lock is held, so *)
(* the count and the insertion are two steps.                              *)

Room == Cardinality(Active(now)) < MaxPending

BeginCount(w, r, l) ==
    /\ At(w, "idle")
    /\ row[r].link = NoLink
    /\ now + PendingTTL < MaxTime         \* bound: every request can still expire
    /\ Room
    /\ handler' = [handler EXCEPT ![w] = Doing("create", r)]
    /\ row' = [row EXCEPT ![r] = NewRow(l, now)]
    /\ UNCHANGED <<now, pending, grants, memory, lockedBy, cookies, denying, revoker, history>>

BeginCreate(w) ==
    /\ At(w, "create")
    /\ pending' = pending \union {handler[w].req}
    /\ Go(w, "page")
    /\ UNCHANGED <<now, row, grants, memory, lockedBy, cookies, denying, revoker, history>>

\* The connect page sets the cookie, unless the row is gone already.
BeginPage(w) ==
    /\ At(w, "page")
    /\ cookies' = cookies \union ({handler[w].req} \intersect pending)
    /\ Return(w)
    /\ UNCHANGED <<now, db, memory, lockedBy, denying, revoker, history>>

-----------------------------------------------------------------------------
(* The code is typed: gateway.rs complete_code, auth.rs approve_with_code. *)

OwnIgnored(r, own) == TRUE                                   \* mutated form
OwnBrowser(r, own) == own /\ r \in cookies

\* Up to the nonce check; what follows it has awaited the client's identity.
EnterCode(w, r, own, right) ==
    /\ At(w, "idle")
    /\ Live(r)
    /\ OwnBrowser(r, own)
    /\ handler' = [handler EXCEPT ![w] =
         [step |-> "entered", req |-> r, own |-> own, right |-> right, attempts |-> 0, now |-> 0]]
    /\ UNCHANGED <<now, db, memory, lockedBy, cookies, denying, revoker, history>>

\* Takes code_lock and reads the request; a refusal releases it at once.
CheckAttempts(w) ==
    LET r == handler[w].req IN
    /\ At(w, "entered")
    /\ IF Live(r)
       THEN /\ Acquire(w)
            /\ handler' = [handler EXCEPT
                 ![w].step = IF row[r].attempts >= MaxAttempts THEN "lockout" ELSE "record",
                 ![w].attempts = row[r].attempts]
       ELSE /\ lockedBy = Nobody
            /\ Return(w)
            /\ UNCHANGED lockedBy
    /\ UNCHANGED <<now, db, memory, cookies, denying, revoker, history>>

\* An UPDATE of a row that is gone changes nothing.
RecordAttempt(w) ==
    LET r == handler[w].req IN
    /\ At(w, "record")
    /\ row' = IF r \in pending THEN [row EXCEPT ![r].attempts = @ + 1] ELSE row
    /\ Go(w, "compare")
    /\ UNCHANGED <<now, pending, grants, memory, lockedBy, cookies, denying, revoker, history>>

CompareCode(w) ==
    LET r == handler[w].req IN
    /\ At(w, "compare")
    /\ guesses' = [guesses EXCEPT ![r] = @ + 1]
    /\ \/ /\ handler[w].right
          /\ confirmed' = IF handler[w].own THEN confirmed \union {r} ELSE confirmed
          /\ Go(w, "read")
          /\ UNCHANGED lockedBy
       \/ /\ ~handler[w].right
          /\ handler[w].attempts + 1 >= MaxAttempts
          /\ Go(w, "lockout")
          /\ UNCHANGED <<lockedBy, confirmed>>
       \/ /\ ~handler[w].right
          /\ handler[w].attempts + 1 < MaxAttempts
          /\ Return(w)
          /\ Release
          /\ UNCHANGED confirmed
    /\ UNCHANGED <<now, db, memory, cookies, denying, revoker,
                   minted, granted, gone>>

LockOut(w) ==
    /\ At(w, "lockout")
    /\ pending' = pending \ {handler[w].req}
    /\ Return(w)
    /\ Release
    /\ UNCHANGED <<now, row, grants, memory, cookies, denying, revoker, history>>

-----------------------------------------------------------------------------
(* auth.rs approve: read the request again, delete it, keep a code.        *)

StillThere(r) == r \in pending         \* mutated form: expiry not checked again
Approvable(r) == Live(r)

ApproveRead(w) ==
    /\ At(w, "read")
    /\ IF Approvable(handler[w].req) /\ handler[w].own
       THEN /\ handler' = [handler EXCEPT ![w].step = "remove", ![w].now = now]
            /\ UNCHANGED lockedBy
       ELSE Return(w) /\ Release
    /\ UNCHANGED <<now, db, memory, cookies, denying, revoker, history>>

KeepRow(r) == UNCHANGED pending        \* mutated form: the request stays
RemoveRow(r) == pending' = pending \ {r}

\* The number of rows the DELETE touched is not looked at.
ApproveRemove(w) ==
    /\ At(w, "remove")
    /\ RemoveRow(handler[w].req)
    /\ Go(w, "publish")
    /\ UNCHANGED <<now, row, grants, memory, lockedBy, cookies, denying, revoker, history>>

ApprovePublish(w) ==
    LET r == handler[w].req
        t == handler[w].now IN
    /\ At(w, "publish")
    /\ approved' = {a \in approved : a.at + PendingTTL >= t /\ a.request # r}
                     \union {[request |-> r, at |-> t]}
    /\ codes' = {c \in codes : c.expires_at >= t}
                  \union {[request |-> r, serial |-> minted[r], expires_at |-> t + CodeTTL]}
    /\ minted' = [minted EXCEPT ![r] = @ + 1]
    /\ Return(w)
    /\ Release
    /\ UNCHANGED <<now, db, cookies, denying, revoker,
                   confirmed, guesses, granted, gone>>

-----------------------------------------------------------------------------
(* auth.rs exchange_code. The code is spent whatever the checks that       *)
(* follow say; matches stands for client, redirect, PKCE and resource.     *)

CodeKept(c) == UNCHANGED codes         \* mutated form: the code stays valid
SpendCode(c) == codes' = codes \ {c}

TakeCode(w, c, matches) ==
    /\ At(w, "idle")
    /\ SpendCode(c)
    /\ IF c.expires_at >= now /\ matches
       THEN /\ Acquire(w)
            /\ handler' = [handler EXCEPT ![w] = Doing("grant", c.request)]
       ELSE /\ lockedBy = Nobody
            /\ UNCHANGED <<lockedBy, handler>>
    /\ UNCHANGED <<now, db, approved, cookies, denying, revoker, history>>

InsertGrant(w) ==
    LET r == handler[w].req IN
    /\ At(w, "grant")
    /\ grants' = grants \union {r}
    /\ granted' = [granted EXCEPT ![r] = @ + 1]
    /\ Return(w)
    /\ Release
    /\ UNCHANGED <<now, pending, row, memory, cookies, denying, revoker,
                   confirmed, guesses, minted, gone>>

\* A statement fails (StoreError): the handler answers with an error, which
\* drops its lock. What it did before stays done.
StoreFails(w) ==
    /\ handler[w].step \in {"create", "page", "record", "lockout", "read", "remove", "grant"}
    /\ Return(w)
    /\ lockedBy' = IF lockedBy = w THEN Nobody ELSE lockedBy
    /\ UNCHANGED <<now, db, memory, cookies, denying, revoker, history>>

-----------------------------------------------------------------------------
(* A person turns a request down, on the approval page or in another       *)
(* process. Neither takes code_lock.                                       *)

DenyLook(r) ==
    /\ r \in Active(now)
    /\ denying' = denying \union {r}
    /\ UNCHANGED <<now, db, memory, lockedBy, handler, cookies, revoker, history>>

DenyRemove(r) ==
    /\ r \in denying
    /\ pending' = pending \ {r}
    /\ denying' = denying \ {r}
    /\ UNCHANGED <<now, row, grants, memory, lockedBy, handler, cookies, revoker, history>>

-----------------------------------------------------------------------------
(* auth.rs revoke_server, revoke_grant and revoke_all.                     *)

\* Requests for l filed by now; one whose handler is about to insert it is not.
Filed(l) == On(l) \ {handler[w].req : w \in {v \in Workers : At(v, "create")}}

\* grants_remove_server. The daemon's reload holds its code_lock throughout;
\* the terminal screen holds the lock of an Auth nobody else uses.
RevokeGrants(p, l) ==
    /\ revoker[p].step = "idle"
    /\ IF p = "daemon" THEN Acquire(Reloader) ELSE UNCHANGED lockedBy
    /\ grants' = grants \ On(l)
    /\ revoker' = [revoker EXCEPT ![p] = [step |-> "pending", link |-> l, targets |-> Filed(l)]]
    /\ UNCHANGED <<now, pending, row, memory, handler, cookies, denying, history>>

RevokePending(p) ==
    /\ revoker[p].step = "pending"
    /\ pending' = pending \ On(revoker[p].link)
    /\ revoker' = [revoker EXCEPT ![p].step = "codes"]
    /\ UNCHANGED <<now, row, grants, memory, lockedBy, handler, cookies, denying, history>>

AnyCode(l) == {}                        \* mutated form: codes are forgotten
CodesOn(l) == {c \in codes : row[c.request].link = l}

\* codes.retain sees the codes of this process only: another process has none.
RevokeCodes(p) ==
    /\ revoker[p].step = "codes"
    /\ IF p = "daemon"
       THEN /\ codes' = codes \ CodesOn(revoker[p].link)
            /\ gone' = gone \union revoker[p].targets
            /\ Release
       ELSE UNCHANGED <<codes, gone, lockedBy>>
    /\ revoker' = [revoker EXCEPT ![p] = NoRevocation]
    /\ UNCHANGED <<now, db, approved, handler, cookies, denying,
                   confirmed, guesses, minted, granted>>

RevokeFails(p) ==
    /\ revoker[p].step = "pending"
    /\ revoker' = [revoker EXCEPT ![p] = NoRevocation]
    /\ lockedBy' = IF p = "daemon" THEN Nobody ELSE lockedBy
    /\ UNCHANGED <<now, db, memory, handler, cookies, denying, history>>

RevokeGrant(r) ==
    /\ r \in grants
    /\ grants' = grants \ {r}
    /\ UNCHANGED <<now, pending, row, memory, lockedBy, handler, cookies, denying, revoker, history>>

\* porchlight clients revoke --all: another process, so codes.clear() clears
\* the codes of an Auth that never had any.
RevokeAllByCli ==
    /\ "cli" \in Processes
    /\ grants' = {}
    /\ UNCHANGED <<now, pending, row, memory, lockedBy, handler, cookies, denying, revoker, history>>

-----------------------------------------------------------------------------
(* The sweep of serve.rs, the clock, and a daemon that stops and starts.   *)

OverdueIfUntried == {r \in pending : row[r].expires_at < now /\ row[r].attempts = 0}  \* mutated form
Overdue == {r \in pending : row[r].expires_at < now}

Sweep ==
    /\ Overdue # {}
    /\ pending' = pending \ Overdue
    /\ UNCHANGED <<now, row, grants, memory, lockedBy, handler, cookies, denying, revoker, history>>

Tick ==
    /\ now < MaxTime
    /\ now' = now + 1
    /\ UNCHANGED <<db, memory, lockedBy, handler, cookies, denying, revoker, history>>

\* Handlers, locks, codes and approvals are the daemon's memory; the database
\* and another process live on.
Restart ==
    /\ codes' = {}
    /\ approved' = {}
    /\ lockedBy' = Nobody
    /\ handler' = [w \in Workers |-> Idle]
    /\ revoker' = [p \in Processes |-> IF p = "daemon" THEN NoRevocation ELSE revoker[p]]
    /\ UNCHANGED <<now, db, cookies, denying, history>>

-----------------------------------------------------------------------------
Begin(w) ==
    \/ \E r \in Requests, l \in Links : BeginCount(w, r, l)
    \/ BeginCreate(w)
    \/ BeginPage(w)

CompleteCode(w) ==
    \/ \E r \in Requests, own, right \in BOOLEAN : EnterCode(w, r, own, right)
    \/ CheckAttempts(w)
    \/ RecordAttempt(w)
    \/ CompareCode(w)
    \/ LockOut(w)
    \/ ApproveRead(w)
    \/ ApproveRemove(w)
    \/ ApprovePublish(w)

Exchange(w) ==
    \/ \E c \in codes, matches \in BOOLEAN : TakeCode(w, c, matches)
    \/ InsertGrant(w)

Deny == \E r \in Requests : DenyLook(r) \/ DenyRemove(r)

Revoke ==
    \/ \E p \in Processes :
         \/ \E l \in Links : RevokeGrants(p, l)
         \/ RevokePending(p)
         \/ RevokeCodes(p)
         \/ RevokeFails(p)
    \/ \E r \in Requests : RevokeGrant(r)
    \/ RevokeAllByCli

Next ==
    \/ \E w \in Workers : Begin(w) \/ CompleteCode(w) \/ Exchange(w) \/ StoreFails(w)
    \/ Deny
    \/ Revoke
    \/ Sweep
    \/ Tick
    \/ Restart

Spec == Init /\ [][Next]_vars

\* The clock runs, and serve.rs upkeep sweeps every five minutes. A handler
\* that can go on does, and one waiting for code_lock is not passed over
\* forever. People, clients and restarts owe nothing.
HandlerGoesOn(w) ==
    \/ BeginCreate(w) \/ BeginPage(w)
    \/ RecordAttempt(w) \/ CompareCode(w) \/ LockOut(w)
    \/ ApproveRead(w) \/ ApproveRemove(w) \/ ApprovePublish(w)
    \/ InsertGrant(w)

Fairness ==
    /\ WF_vars(Tick)
    /\ WF_vars(Sweep)
    /\ \A p \in Processes : WF_vars(RevokePending(p) \/ RevokeCodes(p))
    /\ \A w \in Workers : WF_vars(HandlerGoesOn(w)) /\ SF_vars(CheckAttempts(w))

FairSpec == Spec /\ Fairness

-----------------------------------------------------------------------------
(* Properties                                                              *)

HandlerState ==
    [step : Steps, req : Requests \union {NoRequest}, own : BOOLEAN, right : BOOLEAN,
     attempts : 0..MaxAttempts, now : Nat]

RevokerState ==
    [step : {"idle", "pending", "codes"}, link : Links \union {NoLink},
     targets : SUBSET Requests]

Code == [request : Requests, serial : Nat, expires_at : Nat]

Row == [link : Links \union {NoLink}, attempts : 0..MaxAttempts, expires_at : Nat]

\* Every variable has its shape, and no row ever counts more than the
\* MaxAttempts tries that auth.rs approve_with_code allows.
TypeOK ==
    /\ now \in Nat
    /\ pending \in SUBSET Requests
    /\ row \in [Requests -> Row]
    /\ grants \in SUBSET Requests
    /\ codes \in SUBSET Code
    /\ approved \in SUBSET [request : Requests, at : Nat]
    /\ lockedBy \in Workers \union {Reloader, Nobody}
    /\ handler \in [Workers -> HandlerState]
    /\ cookies \in SUBSET Requests
    /\ denying \in SUBSET Requests
    /\ revoker \in [Processes -> RevokerState]
    /\ confirmed \in SUBSET Requests
    /\ guesses \in [Requests -> Nat]
    /\ minted \in [Requests -> Nat]
    /\ granted \in [Requests -> Nat]
    /\ gone \in SUBSET Requests

\* However many browsers type codes at once, and across restarts, a request's
\* code is compared with at most MaxAttempts tries: code_lock makes reading
\* the count and recording the try one step (auth.rs:252-268).
GuessesBounded == \A r \in Requests : guesses[r] <= MaxAttempts

\* Right codes typed at the same time, denials, sweeps and failing statements
\* notwithstanding, a request makes at most one authorization code, and that
\* code at most one grant (auth.rs:164-205, 278-315).
OneConnectionPerRequest ==
    \A r \in Requests : minted[r] <= 1 /\ granted[r] <= minted[r]

\* A request is approved no later than its own expiry, although its expiry is
\* looked at three times with other people's steps in between
\* (gateway.rs:369-372, auth.rs:255, auth.rs:166).
ApprovedInTime ==
    \A a \in approved : a.at <= row[a.request].expires_at

\* Once the daemon's revoke_server of a link has finished, no request filed
\* before it began is still waiting, approved with a code to exchange, about
\* to get either, or connected: code_lock keeps approvals and exchanges out
\* of it (auth.rs:423-455, tests/config.rs:203, 249).
RevocationIsComplete ==
    \A r \in gone :
        /\ r \notin pending \union grants
        /\ \A c \in codes : c.request # r
        /\ \A w \in Workers : handler[w].req = r =>
              handler[w].step \in {"page", "entered"}

\* Only the browser that asked spends a request's tries or gets its code
\* (tests/servers.rs:686): whoever is past the nonce check has its cookie.
OnlyAskerSpendsTries ==
    [][\A r \in Requests :
         (row'[r].attempts > row[r].attempts \/ minted'[r] > minted[r])
           => \E w \in Workers : handler[w].req = r /\ handler[w].own /\ r \in cookies]_vars

\* Every waiting request stops waiting: if nobody decides, it expires and the
\* sweep deletes it (serve.rs:311-313).
EveryRequestEnds == \A r \in Requests : r \in pending ~> r \notin pending

\* Nobody who types a code waits for code_lock forever.
EveryTryIsAnswered == \A w \in Workers : At(w, "entered") ~> At(w, "idle")

-----------------------------------------------------------------------------
(* What all this promises: Consent, with the state of a request read off   *)
(* the database, the codes and the handlers.                               *)

\* The handler has read the row and goes on whatever becomes of it.
Deciding(r) ==
    \/ \E c \in codes : c.request = r
    \/ \E w \in Workers : handler[w].req = r /\ handler[w].step \in {"remove", "publish", "grant"}

Status(r) ==
    IF r \in grants THEN "connected"
    ELSE IF r \in pending THEN "waiting"
    ELSE IF Deciding(r) THEN "approved"
    ELSE IF row[r].link = NoLink \/ \E w \in Workers : handler[w].req = r /\ At(w, "create")
         THEN "none"
    ELSE "ended"

Promise == INSTANCE Consent WITH
    status <- [r \in Requests |-> Status(r)],
    tries <- guesses,
    typed <- confirmed

\* The approval machine implements Consent.
ImplementsConsent == Promise!Spec

=============================================================================
