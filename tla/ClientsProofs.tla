---------------------------- MODULE ClientsProofs ----------------------------
(***************************************************************************)
(* Proofs about Clients, for every number of clients, handlers and         *)
(* sources, every limit and every length of time.  One inductive           *)
(* invariant, IInv.  The rest is about Settings, which shares nothing with *)
(* Clients, for any number of processes, any file and any actions: what    *)
(* the lock of porchlight.json is worth, by FileInv, and what the edits of *)
(* one action come to, whole or half done, by ActionInv.                   *)
(***************************************************************************)
EXTENDS Clients, Settings, FiniteSetTheorems, SequenceTheorems, TLAPS

HandlerState ==
    {Idle}
    \cup [step : {"register"}, client : Ids]
    \cup [step : {"begin"}, client : Ids \cup Documents, redirect : Redirects]
    \cup [step : {"download"}, client : Documents, redirect : Redirects \cup {"none"},
          until : Int, found : SUBSET Redirects, read : BOOLEAN]

TypeInv ==
    /\ now \in Nat
    /\ DOMAIN clients \subseteq Ids
    /\ \A p \in pending : p.client \in Ids \cup Documents /\ p.age \in Int
    /\ grants \subseteq Ids \cup Documents
    /\ DOMAIN codes \subseteq Ids \cup Documents
    /\ DOMAIN cache \subseteq Documents
    /\ \A d \in DOMAIN cache : cache[d].at \in Int /\ cache[d].uris \subseteq Redirects
    /\ handler \in [Handlers -> HandlerState]
    /\ published \in [Documents -> SUBSET Redirects]
    /\ last \in [Documents -> [Redirects -> Int]]

\* The sweep of the table dcr_hits leaves what the next registration counts.
HitsInv ==
    /\ IsFiniteSet(allHits)
    /\ hits \subseteq allHits
    /\ \A x \in allHits : x.at \in Int /\ (x.at >= now - Hour => x \in hits)

\* The limits hold in the hours that begin at any instant.
HitsOf(s) == {x \in allHits : x.source = s}
HourInv ==
    \A from \in Int :
        /\ Cardinality(Within(allHits, from, Hour)) <= Global
        /\ \A s \in Sources : Cardinality(Within(HitsOf(s), from, Hour)) <= PerSource

\* The same of the downloads.
StartsInv ==
    /\ IsFiniteSet(starts)
    /\ downloads \subseteq starts
    /\ \A x \in starts : x.at \in Int /\ (x.at >= now - Minute => x \in downloads)

MinuteInv == \A from \in Int : Cardinality(Within(starts, from, Minute)) <= MaxDownloads

\* What a handler or the cache has of a document was so when its download was
\* under way, which takes no longer than FetchTime; and a handler that has
\* compared an address with it files its request in the same instant.
LastInv ==
    \A d \in Documents, r \in Redirects :
        last[d][r] <= now /\ (r \in published[d] => last[d][r] = now)

DownloadInv ==
    \A h \in Handlers : At(h, "download") =>
        /\ handler[h].until - FetchTime <= now /\ now <= handler[h].until
        /\ handler[h].read => \A r \in handler[h].found :
               last[handler[h].client][r] >= handler[h].until - FetchTime

CacheInv ==
    \A d \in DOMAIN cache : \A r \in cache[d].uris : last[d][r] >= cache[d].at - FetchTime

BeginInv ==
    \A h \in Handlers : At(h, "begin") /\ handler[h].client \in Documents =>
        now - last[handler[h].client][handler[h].redirect] < CacheFor + FetchTime

\* A client stays registered through the four steps of its request.
InUse == {c \in Ids : c \in Waiting \cup grants \cup DOMAIN codes
                      \/ \E h \in Handlers : At(h, "begin") /\ handler[h].client = c}
UseInv == InUse \subseteq DOMAIN clients \cup gap

IInv ==
    /\ TypeInv
    /\ HitsInv /\ HourInv
    /\ StartsInv /\ MinuteInv
    /\ LastInv /\ DownloadInv /\ CacheInv /\ BeginInv /\ RedirectsAreRecent
    /\ UseInv

-----------------------------------------------------------------------------
(* What steps have in common. *)

LEMMA Numbers ==
    /\ PerSource \in Nat /\ Global \in Nat /\ Hour \in Nat
    /\ MaxDownloads \in Nat /\ Minute \in Nat
    /\ CacheFor \in Nat /\ CacheFor > 0 /\ FetchTime \in Nat
BY LimitsAssumption, CacheAssumption

\* A handler that becomes something leaves the others alone.
LEMMA OthersStay ==
  ASSUME TypeInv, NEW h \in Handlers, NEW state \in HandlerState, Becomes(h, state)
  PROVE  /\ handler' \in [Handlers -> HandlerState]
         /\ handler'[h] = state
         /\ \A g \in Handlers \ {h} : handler'[g] = handler[g]
BY DEF TypeInv, Becomes

LEMMA States ==
    /\ Idle \in HandlerState /\ Idle.step = "idle"
    /\ \A c \in Ids : [step |-> "register", client |-> c] \in HandlerState
    /\ \A c \in Ids \cup Documents, r \in Redirects :
          [step |-> "begin", client |-> c, redirect |-> r] \in HandlerState
BY DEF HandlerState, Idle

\* A handler that knows a client's redirects begins with one of them or is idle.
LEMMA KnowsWhich ==
  ASSUME TypeInv, NEW h \in Handlers, NEW c \in Ids \cup Documents, NEW r, NEW uris,
         r \in uris => r \in Redirects, Knows(h, c, r, uris)
  PROVE  /\ handler' \in [Handlers -> HandlerState]
         /\ \A g \in Handlers \ {h} : handler'[g] = handler[g]
         /\ \/ handler'[h].step = "idle"
            \/ /\ handler'[h].step = "begin" /\ r \in uris
               /\ handler'[h].client = c /\ handler'[h].redirect = r
<1>1. CASE r \in uris
  <2> DEFINE state == [step |-> "begin", client |-> c, redirect |-> r]
  <2>1. state \in HandlerState
    BY <1>1, States
  <2>2. Becomes(h, state)
    BY <1>1 DEF Knows
  <2>3. state.step = "begin" /\ state.client = c /\ state.redirect = r
    OBVIOUS
  <2> HIDE DEF state
  <2>4. QED BY <1>1, <2>1, <2>2, <2>3, OthersStay
<1>2. CASE r \notin uris
  <2>1. Becomes(h, Idle)
    BY <1>2 DEF Knows
  <2>2. QED BY <2>1, States, OthersStay
<1>3. QED BY <1>1, <1>2

LEMMA HitsKeep ==
  ASSUME HitsInv, HourInv, now \in Int, now' \in Int, now' >= now, UNCHANGED <<hits, allHits>>
  PROVE  HitsInv' /\ HourInv'
BY Numbers DEF HitsInv, HourInv, HitsOf

LEMMA StartsKeep ==
  ASSUME StartsInv, MinuteInv, now \in Int, now' \in Int, now' >= now, UNCHANGED <<downloads, starts>>
  PROVE  StartsInv' /\ MinuteInv'
BY Numbers DEF StartsInv, MinuteInv

\* Nothing about documents changes where no handler begins or downloads anew.
LEMMA RecentKeep ==
  ASSUME LastInv, DownloadInv, CacheInv, BeginInv, RedirectsAreRecent,
         UNCHANGED <<now, cache, published, last>>, pending' \subseteq pending,
         \A h \in Handlers : handler'[h].step \in {"begin", "download"} => handler'[h] = handler[h]
  PROVE  LastInv' /\ DownloadInv' /\ CacheInv' /\ BeginInv' /\ RedirectsAreRecent'
BY DEF LastInv, DownloadInv, CacheInv, BeginInv, RedirectsAreRecent, At

\* One more, at time t, where recent holds all since t - length and is below the limit:
\* a window that the new one is in lies within recent, but for the new one itself.
LEMMA OneMoreFits ==
  ASSUME NEW all, IsFiniteSet(all), NEW recent \in SUBSET all, NEW new, NEW t \in Int, new.at = t,
         NEW length \in Nat, NEW limit \in Nat, Cardinality(recent) < limit,
         \A x \in all : x.at \in Int /\ (x.at >= t - length => x \in recent),
         NEW from \in Int, Cardinality(Within(all, from, length)) <= limit
  PROVE  Cardinality(Within(all \cup {new}, from, length)) <= limit
<1>1. CASE t - length <= from
  <2>1. Within(all \cup {new}, from, length) \subseteq recent \cup {new}
    BY <1>1 DEF Within
  <2>2. IsFiniteSet(recent) /\ Cardinality(recent) \in Nat
    BY FS_Subset, FS_CardinalityType
  <2>3. /\ IsFiniteSet(recent \cup {new})
        /\ Cardinality(recent \cup {new}) \in Nat
        /\ Cardinality(recent \cup {new}) <= Cardinality(recent) + 1
    <3>1. /\ IsFiniteSet(recent \cup {new})
          /\ Cardinality(recent \cup {new}) \in {Cardinality(recent), Cardinality(recent) + 1}
      BY <2>2, FS_AddElement
    <3>2. QED BY <2>2, <3>1
  <2>4. /\ Cardinality(Within(all \cup {new}, from, length)) \in Nat
        /\ Cardinality(Within(all \cup {new}, from, length)) <= Cardinality(recent \cup {new})
    BY <2>1, <2>3, FS_Subset, FS_CardinalityType
  <2>5. QED BY <2>2, <2>3, <2>4
<1>2. CASE t - length > from
  <2>1. Within(all \cup {new}, from, length) = Within(all, from, length)
    BY <1>2 DEF Within
  <2>2. QED BY <2>1
<1>3. QED BY <1>1, <1>2

-----------------------------------------------------------------------------
(* One lemma for each action. *)

\* A registration is recorded, or refused.
LEMMA TryRecordStep ==
  ASSUME IInv, NEW h \in Handlers, NEW s \in Sources, NEW id \in Ids, TryRecord(h, s, id)
  PROVE  IInv'
<1>0. /\ TypeInv /\ HitsInv /\ HourInv /\ StartsInv /\ MinuteInv
      /\ LastInv /\ DownloadInv /\ CacheInv /\ BeginInv /\ RedirectsAreRecent /\ UseInv
  BY DEF IInv
<1> DEFINE recent == Recent(now - Hour)
           hit == [id |-> id, source |-> s, at |-> now]
           state == [step |-> "register", client |-> id]
<1>a. UNCHANGED <<now, clients, pending, grants, memory, sweeping, world, starts, gap>>
  BY DEF TryRecord
<1>b. \/ /\ Room(recent, s)
         /\ hits' = recent \cup {hit} /\ allHits' = allHits \cup {hit}
         /\ Becomes(h, state)
      \/ hits' = recent /\ UNCHANGED <<allHits, handler>>
  BY DEF TryRecord
<1>c. /\ handler' \in [Handlers -> HandlerState]
      /\ \A g \in Handlers : handler'[g].step \in {"begin", "download"} => handler'[g] = handler[g]
  <2>1. state \in HandlerState /\ state.step = "register"
    BY States
  <2> HIDE DEF state
  <2>2. CASE Becomes(h, state)
    BY <1>0, <2>1, <2>2, OthersStay
  <2>3. CASE UNCHANGED handler
    BY <1>0, <2>3 DEF TypeInv
  <2>4. QED BY <1>b, <2>2, <2>3
<1>1. TypeInv'
  BY <1>0, <1>a, <1>c DEF TypeInv, memory, world
<1>2. HitsInv' /\ HourInv' /\ StartsInv' /\ MinuteInv'
  <2>0. now \in Int /\ now - Hour \in Int /\ hit.at = now /\ hit.source = s
    BY <1>0, Numbers DEF TypeInv
  <2>r. /\ recent \subseteq hits /\ recent \subseteq allHits
        /\ \A x \in allHits : x.at \in Int /\ (x.at >= now - Hour => x \in recent)
    BY <1>0, <2>0 DEF HitsInv, Recent
  <2> HIDE DEF recent, hit
  <2>1. StartsInv' /\ MinuteInv'
    BY <1>0, <1>a, <2>0, StartsKeep DEF memory
  <2>2. CASE hits' = recent /\ UNCHANGED allHits
    <3>1. HitsInv'
      BY <1>0, <1>a, <2>r, <2>2 DEF HitsInv
    <3>2. HourInv'
      BY <1>0, <2>2 DEF HourInv, HitsOf
    <3>3. QED BY <2>1, <3>1, <3>2
  <2>3. CASE /\ Room(recent, s)
             /\ hits' = recent \cup {hit} /\ allHits' = allHits \cup {hit}
    <3>1. HitsInv'
      <4>1. IsFiniteSet(allHits \cup {hit})
        BY <1>0, FS_AddElement DEF HitsInv
      <4>2. QED BY <1>a, <2>0, <2>r, <2>3, <4>1 DEF HitsInv
    <3>2. ASSUME NEW from \in Int
          PROVE  Cardinality(Within(allHits', from, Hour)) <= Global
      BY <1>0, <2>0, <2>r, <2>3, OneMoreFits, Numbers DEF HitsInv, HourInv, Room
    <3>3. ASSUME NEW from \in Int
          PROVE  Cardinality(Within(HitsOf(s)', from, Hour)) <= PerSource
      <4> DEFINE mine == {x \in recent : x.source = s}
      <4>1. HitsOf(s)' = HitsOf(s) \cup {hit}
        BY <2>0, <2>3 DEF HitsOf
      <4>2. IsFiniteSet(HitsOf(s)) /\ mine \subseteq HitsOf(s)
        BY <1>0, <2>r, FS_Subset DEF HitsInv, HitsOf
      <4>3. \A x \in HitsOf(s) : x.at \in Int /\ (x.at >= now - Hour => x \in mine)
        BY <2>r DEF HitsOf
      <4>4. Cardinality(mine) < PerSource
        BY <2>3 DEF Room
      <4>5. Cardinality(Within(HitsOf(s), from, Hour)) <= PerSource
        BY <1>0 DEF HourInv
      <4> HIDE DEF mine
      <4>6. QED BY <2>0, <4>1, <4>2, <4>3, <4>4, <4>5, OneMoreFits, Numbers
    <3>4. ASSUME NEW t \in Sources, t # s PROVE HitsOf(t)' = HitsOf(t)
      BY <2>0, <2>3, <3>4 DEF HitsOf
    <3>5. HourInv'
      <4>1. ASSUME NEW from \in Int, NEW t \in Sources
            PROVE  Cardinality(Within(HitsOf(t)', from, Hour)) <= PerSource
        BY <1>0, <3>3, <3>4 DEF HourInv
      <4>2. QED BY <3>2, <4>1 DEF HourInv, HitsOf
    <3>6. QED BY <2>1, <3>1, <3>5
  <2>4. QED BY <1>b, <2>2, <2>3
<1>3. LastInv' /\ DownloadInv' /\ CacheInv' /\ BeginInv' /\ RedirectsAreRecent'
  BY <1>0, <1>a, <1>c, RecentKeep DEF memory, world
<1>4. UseInv'
  BY <1>0, <1>a, <1>c DEF UseInv, InUse, Waiting, At, memory
<1>9. QED BY <1>1, <1>2, <1>3, <1>4 DEF IInv

\* The client that registered is in the table.
LEMMA ClientRegisterStep ==
  ASSUME IInv, NEW h \in Handlers, ClientRegister(h)
  PROVE  IInv'
<1>0. /\ TypeInv /\ HitsInv /\ HourInv /\ StartsInv /\ MinuteInv
      /\ LastInv /\ DownloadInv /\ CacheInv /\ BeginInv /\ RedirectsAreRecent /\ UseInv
  BY DEF IInv
<1>a. /\ UNCHANGED <<now, hits, pending, grants, memory, sweeping, world, history>>
      /\ At(h, "register") /\ Becomes(h, Idle)
  BY DEF ClientRegister
<1>b. handler[h].client \in Ids
  BY <1>0, <1>a DEF TypeInv, HandlerState, At, Idle
<1>c. DOMAIN clients' = DOMAIN clients \cup {handler[h].client}
  BY DEF ClientRegister, With
<1>d. /\ handler' \in [Handlers -> HandlerState]
      /\ \A g \in Handlers : handler'[g].step \in {"begin", "download"} => handler'[g] = handler[g]
  BY <1>0, <1>a, OthersStay, States
<1>1. TypeInv'
  BY <1>0, <1>a, <1>b, <1>c, <1>d DEF TypeInv, memory, world
<1>2. HitsInv' /\ HourInv' /\ StartsInv' /\ MinuteInv'
  <2>1. now \in Int /\ now' = now /\ UNCHANGED <<hits, allHits, downloads, starts>>
    BY <1>0 DEF TypeInv, ClientRegister, memory, history
  <2>2. QED BY <1>0, <2>1, HitsKeep, StartsKeep
<1>3. LastInv' /\ DownloadInv' /\ CacheInv' /\ BeginInv' /\ RedirectsAreRecent'
  BY <1>0, <1>a, <1>d, RecentKeep DEF memory, world
<1>4. UseInv'
  BY <1>0, <1>a, <1>c, <1>d DEF UseInv, InUse, Waiting, At, memory, history
<1>9. QED BY <1>1, <1>2, <1>3, <1>4 DEF IInv

\* A client from the table asks.
LEMMA IdentifyRegisteredStep ==
  ASSUME IInv, NEW h \in Handlers, NEW c \in Ids \cup Documents, NEW r \in Redirects, IdentifyRegistered(h, c, r)
  PROVE  IInv'
<1>0. /\ TypeInv /\ HitsInv /\ HourInv /\ StartsInv /\ MinuteInv
      /\ LastInv /\ DownloadInv /\ CacheInv /\ BeginInv /\ RedirectsAreRecent /\ UseInv
  BY DEF IInv
<1>a. /\ UNCHANGED <<now, tables, memory, sweeping, world, history>>
      /\ c \in DOMAIN clients /\ Knows(h, c, r, clients[c].uris)
  BY DEF IdentifyRegistered
<1>b. c \in Ids /\ c \notin Documents
  BY <1>0, <1>a, IdsAssumption DEF TypeInv
<1>c. /\ handler' \in [Handlers -> HandlerState]
      /\ \A g \in Handlers \ {h} : handler'[g] = handler[g]
      /\ handler'[h].step = "idle" \/ (handler'[h].step = "begin" /\ handler'[h].client = c)
  BY <1>0, <1>a, KnowsWhich
<1>1. TypeInv'
  BY <1>0, <1>a, <1>c DEF TypeInv, tables, memory, world
<1>2. HitsInv' /\ HourInv' /\ StartsInv' /\ MinuteInv'
  <2>1. now \in Int /\ now' = now /\ UNCHANGED <<hits, allHits, downloads, starts>>
    BY <1>0 DEF TypeInv, IdentifyRegistered, tables, memory, history
  <2>2. QED BY <1>0, <2>1, HitsKeep, StartsKeep
<1>3. LastInv' /\ DownloadInv' /\ CacheInv' /\ BeginInv' /\ RedirectsAreRecent'
  <2>1. DownloadInv' /\ BeginInv'
    BY <1>0, <1>a, <1>b, <1>c DEF DownloadInv, BeginInv, At, world
  <2>2. LastInv' /\ CacheInv' /\ RedirectsAreRecent'
    BY <1>0, <1>a DEF LastInv, CacheInv, RedirectsAreRecent, tables, memory, world
  <2>3. QED BY <2>1, <2>2
<1>4. UseInv'
  BY <1>0, <1>a, <1>b, <1>c DEF UseInv, InUse, Waiting, At, tables, memory, history
<1>9. QED BY <1>1, <1>2, <1>3, <1>4 DEF IInv

\* A client whose document is in the cache asks.
LEMMA IdentifyCachedStep ==
  ASSUME IInv, NEW h \in Handlers, NEW c \in Ids \cup Documents, NEW r \in Redirects, IdentifyCached(h, c, r)
  PROVE  IInv'
<1>0. /\ TypeInv /\ HitsInv /\ HourInv /\ StartsInv /\ MinuteInv
      /\ LastInv /\ DownloadInv /\ CacheInv /\ BeginInv /\ RedirectsAreRecent /\ UseInv
  BY DEF IInv
<1>a. /\ UNCHANGED <<now, tables, memory, sweeping, world, history>>
      /\ c \in Documents /\ Cached(c) /\ Knows(h, c, r, cache[c].uris)
  BY DEF IdentifyCached
<1>b. c \notin Ids
  BY <1>a, IdsAssumption
<1>c. /\ handler' \in [Handlers -> HandlerState]
      /\ \A g \in Handlers \ {h} : handler'[g] = handler[g]
      /\ \/ handler'[h].step = "idle"
         \/ /\ handler'[h].step = "begin" /\ r \in cache[c].uris
            /\ handler'[h].client = c /\ handler'[h].redirect = r
  BY <1>0, <1>a, KnowsWhich
<1>1. TypeInv'
  BY <1>0, <1>a, <1>c DEF TypeInv, tables, memory, world
<1>2. HitsInv' /\ HourInv' /\ StartsInv' /\ MinuteInv'
  <2>1. now \in Int /\ now' = now /\ UNCHANGED <<hits, allHits, downloads, starts>>
    BY <1>0 DEF TypeInv, IdentifyCached, tables, memory, history
  <2>2. QED BY <1>0, <2>1, HitsKeep, StartsKeep
<1>3. LastInv' /\ DownloadInv' /\ CacheInv' /\ BeginInv' /\ RedirectsAreRecent'
  <2>1. r \in cache[c].uris => now - last[c][r] < CacheFor + FetchTime
    <3>1. now \in Int /\ cache[c].at \in Int /\ last[c][r] \in Int /\ now - cache[c].at < CacheFor
      BY <1>0, <1>a DEF TypeInv, Cached
    <3>2. r \in cache[c].uris => last[c][r] >= cache[c].at - FetchTime
      BY <1>0, <1>a DEF CacheInv, Cached
    <3>3. QED BY <3>1, <3>2, Numbers
  <2>2. DownloadInv' /\ BeginInv'
    BY <1>0, <1>a, <1>c, <2>1 DEF DownloadInv, BeginInv, At, world
  <2>3. LastInv' /\ CacheInv' /\ RedirectsAreRecent'
    BY <1>0, <1>a DEF LastInv, CacheInv, RedirectsAreRecent, tables, memory, world
  <2>4. QED BY <2>2, <2>3
<1>4. UseInv'
  BY <1>0, <1>a, <1>b, <1>c DEF UseInv, InUse, Waiting, At, tables, memory, history
<1>9. QED BY <1>1, <1>2, <1>3, <1>4 DEF IInv

\* A download begins, or there have been too many.
LEMMA StartDownloadStep ==
  ASSUME IInv, NEW h \in Handlers, NEW c \in Documents, NEW r \in Redirects \cup {"none"}, StartDownload(h, c, r)
  PROVE  IInv'
<1>0. /\ TypeInv /\ HitsInv /\ HourInv /\ StartsInv /\ MinuteInv
      /\ LastInv /\ DownloadInv /\ CacheInv /\ BeginInv /\ RedirectsAreRecent /\ UseInv
  BY DEF IInv
<1> DEFINE recent == {x \in downloads : x.at >= now - Minute}
           slot == [n |-> Cardinality(starts), at |-> now]
           state == [step |-> "download", client |-> c, redirect |-> r,
                     until |-> now + FetchTime, found |-> {}, read |-> FALSE]
<1>a. UNCHANGED <<now, tables, codes, cache, sweeping, world, allHits, gap>>
  BY DEF StartDownload
<1>b. \/ /\ Cardinality(recent) < MaxDownloads
         /\ downloads' = recent \cup {slot} /\ starts' = starts \cup {slot}
         /\ Becomes(h, state)
      \/ downloads' = recent /\ UNCHANGED <<starts, handler>>
  BY DEF StartDownload
<1>n. now \in Int
  BY <1>0 DEF TypeInv
<1>c. /\ handler' \in [Handlers -> HandlerState]
      /\ \A g \in Handlers \ {h} : handler'[g] = handler[g]
      /\ \/ handler'[h] = handler[h]
         \/ /\ handler'[h].step = "download" /\ handler'[h].until = now + FetchTime
            /\ ~handler'[h].read
  <2>1. state \in HandlerState /\ state.step = "download" /\ state.until = now + FetchTime /\ ~state.read
    BY <1>n, Numbers DEF HandlerState
  <2> HIDE DEF state
  <2>2. CASE Becomes(h, state)
    BY <1>0, <2>1, <2>2, OthersStay
  <2>3. CASE UNCHANGED handler
    BY <1>0, <2>3 DEF TypeInv
  <2>4. QED BY <1>b, <2>2, <2>3
<1>1. TypeInv'
  BY <1>0, <1>a, <1>c DEF TypeInv, tables, world
<1>2. HitsInv' /\ HourInv' /\ StartsInv' /\ MinuteInv'
  <2>0. now - Minute \in Int /\ slot.at = now
    BY <1>n, Numbers
  <2>r. /\ recent \subseteq starts
        /\ \A x \in starts : x.at \in Int /\ (x.at >= now - Minute => x \in recent)
    BY <1>0 DEF StartsInv
  <2> HIDE DEF recent, slot
  <2>1. HitsInv' /\ HourInv'
    BY <1>0, <1>a, <1>n, HitsKeep DEF tables
  <2>2. CASE downloads' = recent /\ UNCHANGED starts
    <3>1. StartsInv'
      BY <1>0, <1>a, <2>r, <2>2 DEF StartsInv
    <3>2. MinuteInv'
      BY <1>0, <2>2 DEF MinuteInv
    <3>3. QED BY <2>1, <3>1, <3>2
  <2>3. CASE /\ Cardinality(recent) < MaxDownloads
             /\ downloads' = recent \cup {slot} /\ starts' = starts \cup {slot}
    <3>1. StartsInv'
      <4>1. IsFiniteSet(starts \cup {slot})
        BY <1>0, FS_AddElement DEF StartsInv
      <4>2. QED BY <1>a, <1>n, <2>0, <2>r, <2>3, <4>1 DEF StartsInv
    <3>2. MinuteInv'
      BY <1>0, <1>n, <2>0, <2>r, <2>3, OneMoreFits, Numbers DEF StartsInv, MinuteInv
    <3>3. QED BY <2>1, <3>1, <3>2
  <2>4. QED BY <1>b, <2>2, <2>3
<1>3. LastInv' /\ DownloadInv' /\ CacheInv' /\ BeginInv' /\ RedirectsAreRecent'
  <2>1. DownloadInv'
    BY <1>0, <1>a, <1>n, <1>c, Numbers DEF DownloadInv, At, world
  <2>2. BeginInv'
    BY <1>0, <1>a, <1>c DEF BeginInv, At, world
  <2>3. LastInv' /\ CacheInv' /\ RedirectsAreRecent'
    BY <1>0, <1>a DEF LastInv, CacheInv, RedirectsAreRecent, tables, world
  <2>4. QED BY <2>1, <2>2, <2>3
<1>4. UseInv'
  BY <1>0, <1>a, <1>c DEF UseInv, InUse, Waiting, At, tables
<1>9. QED BY <1>1, <1>2, <1>3, <1>4 DEF IInv

\* The document is read.
LEMMA AnswerStep ==
  ASSUME IInv, NEW h \in Handlers, Answer(h)
  PROVE  IInv'
<1>0. /\ TypeInv /\ HitsInv /\ HourInv /\ StartsInv /\ MinuteInv
      /\ LastInv /\ DownloadInv /\ CacheInv /\ BeginInv /\ RedirectsAreRecent /\ UseInv
  BY DEF IInv
<1> DEFINE found == published[handler[h].client]
           state == [handler[h] EXCEPT !.found = found, !.read = TRUE]
<1>a. UNCHANGED <<now, tables, memory, sweeping, world, history>> /\ At(h, "download")
  BY DEF Answer
<1>b. handler[h] \in [step : {"download"}, client : Documents, redirect : Redirects \cup {"none"},
                      until : Int, found : SUBSET Redirects, read : BOOLEAN]
  BY <1>0, <1>a DEF TypeInv, HandlerState, At, Idle
<1>c. found \in SUBSET Redirects
  BY <1>0, <1>b DEF TypeInv
<1>d. /\ handler' \in [Handlers -> HandlerState]
      /\ \A g \in Handlers \ {h} : handler'[g] = handler[g]
      /\ handler'[h].step = "download" /\ handler'[h].until = handler[h].until
      /\ handler'[h].client = handler[h].client /\ handler'[h].found = found
  <2>1. Becomes(h, state)
    BY <1>0 DEF Answer, Becomes, TypeInv
  <2> HIDE DEF found
  <2>2. /\ state \in HandlerState /\ state.step = "download" /\ state.until = handler[h].until
        /\ state.client = handler[h].client /\ state.found = found
    BY <1>b, <1>c DEF HandlerState
  <2> HIDE DEF state
  <2>3. QED BY <1>0, <2>1, <2>2, OthersStay
<1>1. TypeInv'
  BY <1>0, <1>a, <1>d DEF TypeInv, tables, memory, world
<1>2. HitsInv' /\ HourInv' /\ StartsInv' /\ MinuteInv'
  <2>1. now \in Int /\ now' = now /\ UNCHANGED <<hits, allHits, downloads, starts>>
    BY <1>0 DEF TypeInv, Answer, tables, memory, history
  <2>2. QED BY <1>0, <2>1, HitsKeep, StartsKeep
<1>3. LastInv' /\ DownloadInv' /\ CacheInv' /\ BeginInv' /\ RedirectsAreRecent'
  <2>1. DownloadInv'
    <3>1. \A q \in found : last[handler[h].client][q] >= handler[h].until - FetchTime
      BY <1>0, <1>a, <1>b, <1>c, Numbers DEF LastInv, DownloadInv, TypeInv
    <3> HIDE DEF found
    <3>2. QED BY <1>0, <1>a, <1>d, <3>1 DEF DownloadInv, At, world
  <2>2. BeginInv'
    BY <1>0, <1>a, <1>d DEF BeginInv, At, world
  <2>3. LastInv' /\ CacheInv' /\ RedirectsAreRecent'
    BY <1>0, <1>a DEF LastInv, CacheInv, RedirectsAreRecent, tables, memory, world
  <2>4. QED BY <2>1, <2>2, <2>3
<1>4. UseInv'
  BY <1>0, <1>a, <1>d DEF UseInv, InUse, Waiting, At, tables, memory, history
<1>9. QED BY <1>1, <1>2, <1>3, <1>4 DEF IInv

\* What was read is kept, and compared.
LEMMA KeepStep ==
  ASSUME IInv, NEW h \in Handlers, Keep(h)
  PROVE  IInv'
<1>0. /\ TypeInv /\ HitsInv /\ HourInv /\ StartsInv /\ MinuteInv
      /\ LastInv /\ DownloadInv /\ CacheInv /\ BeginInv /\ RedirectsAreRecent /\ UseInv
  BY DEF IInv
<1> DEFINE c == handler[h].client
           r == handler[h].redirect
           found == handler[h].found
<1>a. /\ UNCHANGED <<now, tables, codes, downloads, sweeping, world, history>>
      /\ At(h, "download") /\ handler[h].read /\ Knows(h, c, r, found)
  BY DEF Keep
<1>b. c \in Documents /\ c \notin Ids /\ found \in SUBSET Redirects /\ now \in Int
  BY <1>0, <1>a, IdsAssumption DEF TypeInv, HandlerState, At, Idle
<1>c. /\ DOMAIN cache' \subseteq DOMAIN cache \cup {c} /\ c \in DOMAIN cache'
      /\ cache'[c].uris = found /\ cache'[c].at = now
      /\ \A d \in DOMAIN cache' \ {c} : d \in DOMAIN cache /\ cache'[d] = cache[d]
  <2> DEFINE kept == IF Cardinality(DOMAIN cache) >= MaxCached THEN << >> ELSE cache
  <2>1. cache' = With(kept, c, [uris |-> found, at |-> now])
    BY DEF Keep
  <2>2. DOMAIN kept \subseteq DOMAIN cache /\ \A d \in DOMAIN kept : kept[d] = cache[d]
    OBVIOUS
  <2> HIDE DEF kept
  <2>3. QED BY <2>1, <2>2 DEF With
<1>d. /\ handler' \in [Handlers -> HandlerState]
      /\ \A g \in Handlers \ {h} : handler'[g] = handler[g]
      /\ \/ handler'[h].step = "idle"
         \/ /\ handler'[h].step = "begin" /\ r \in found
            /\ handler'[h].client = c /\ handler'[h].redirect = r
  BY <1>0, <1>a, <1>b, KnowsWhich
<1>1. TypeInv'
  BY <1>0, <1>a, <1>b, <1>c, <1>d DEF TypeInv, tables, world
<1>2. HitsInv' /\ HourInv' /\ StartsInv' /\ MinuteInv'
  <2>1. now \in Int /\ now' = now /\ UNCHANGED <<hits, allHits, downloads, starts>>
    BY <1>0 DEF TypeInv, Keep, tables, history
  <2>2. QED BY <1>0, <2>1, HitsKeep, StartsKeep
<1>3. LastInv' /\ DownloadInv' /\ CacheInv' /\ BeginInv' /\ RedirectsAreRecent'
  <2>1. \A q \in found : last[c][q] \in Int /\ last[c][q] >= now - FetchTime
    BY <1>0, <1>a, <1>b, Numbers DEF DownloadInv, TypeInv, HandlerState, At, Idle
  <2>2. CacheInv'
    <3>1. ASSUME NEW d \in DOMAIN cache', NEW q \in cache'[d].uris
          PROVE  last[d][q] >= cache'[d].at - FetchTime
      BY <1>0, <1>c, <2>1, <3>1 DEF CacheInv
    <3>2. QED BY <1>a, <3>1 DEF CacheInv, world
  <2>3. BeginInv'
    <3>1. r \in found => now - last[c][r] < CacheFor + FetchTime
      BY <1>b, <2>1, Numbers
    <3>2. QED BY <1>0, <1>a, <1>d, <3>1 DEF BeginInv, At, world
  <2>4. DownloadInv'
    BY <1>0, <1>a, <1>d DEF DownloadInv, At, world
  <2>5. LastInv' /\ RedirectsAreRecent'
    BY <1>0, <1>a DEF LastInv, RedirectsAreRecent, tables, world
  <2>6. QED BY <2>2, <2>3, <2>4, <2>5
<1>4. UseInv'
  BY <1>0, <1>a, <1>b, <1>d DEF UseInv, InUse, Waiting, At, tables, history
<1>9. QED BY <1>1, <1>2, <1>3, <1>4 DEF IInv

\* A download ends with nothing.
LEMMA DownloadFailsStep ==
  ASSUME IInv, NEW h \in Handlers, DownloadFails(h)
  PROVE  IInv'
<1>0. /\ TypeInv /\ HitsInv /\ HourInv /\ StartsInv /\ MinuteInv
      /\ LastInv /\ DownloadInv /\ CacheInv /\ BeginInv /\ RedirectsAreRecent /\ UseInv
  BY DEF IInv
<1>a. UNCHANGED <<now, tables, memory, sweeping, world, history>> /\ Becomes(h, Idle)
  BY DEF DownloadFails
<1>d. /\ handler' \in [Handlers -> HandlerState]
      /\ \A g \in Handlers : handler'[g].step \in {"begin", "download"} => handler'[g] = handler[g]
  BY <1>0, <1>a, OthersStay, States
<1>1. TypeInv'
  BY <1>0, <1>a, <1>d DEF TypeInv, tables, memory, world
<1>2. HitsInv' /\ HourInv' /\ StartsInv' /\ MinuteInv'
  <2>1. now \in Int /\ now' = now /\ UNCHANGED <<hits, allHits, downloads, starts>>
    BY <1>0 DEF TypeInv, DownloadFails, tables, memory, history
  <2>2. QED BY <1>0, <2>1, HitsKeep, StartsKeep
<1>3. LastInv' /\ DownloadInv' /\ CacheInv' /\ BeginInv' /\ RedirectsAreRecent'
  BY <1>0, <1>a, <1>d, RecentKeep DEF tables, memory, world
<1>4. UseInv'
  BY <1>0, <1>a, <1>d DEF UseInv, InUse, Waiting, At, tables, memory, history
<1>9. QED BY <1>1, <1>2, <1>3, <1>4 DEF IInv

\* A request is filed.
LEMMA FileRequestStep ==
  ASSUME IInv, NEW h \in Handlers, FileRequest(h)
  PROVE  IInv'
<1>0. /\ TypeInv /\ HitsInv /\ HourInv /\ StartsInv /\ MinuteInv
      /\ LastInv /\ DownloadInv /\ CacheInv /\ BeginInv /\ RedirectsAreRecent /\ UseInv
  BY DEF IInv
<1> DEFINE c == handler[h].client
           age == IF c \in Documents THEN now - last[c][handler[h].redirect] ELSE 0
           request == [client |-> c, age |-> age, expires |-> now + RequestTTL]
<1>a. /\ UNCHANGED <<now, clients, hits, grants, memory, sweeping, world, history>>
      /\ At(h, "begin") /\ Becomes(h, Idle)
      /\ pending' = pending \cup {request} \/ pending' = pending
  BY DEF FileRequest
<1>b. c \in Ids \cup Documents /\ handler[h].redirect \in Redirects
  BY <1>0, <1>a DEF TypeInv, HandlerState, At, Idle
<1>c. age \in Int /\ age < CacheFor + FetchTime
  BY <1>0, <1>a, <1>b, Numbers DEF TypeInv, BeginInv
<1>d. /\ handler' \in [Handlers -> HandlerState]
      /\ \A g \in Handlers : handler'[g].step \in {"begin", "download"} => handler'[g] = handler[g]
  BY <1>0, <1>a, OthersStay, States
<1>e. request.client = c /\ request.age = age
  OBVIOUS
<1> HIDE DEF age, request
<1>1. TypeInv'
  BY <1>0, <1>a, <1>b, <1>c, <1>d, <1>e DEF TypeInv, memory, world
<1>2. HitsInv' /\ HourInv' /\ StartsInv' /\ MinuteInv'
  <2>1. now \in Int /\ now' = now /\ UNCHANGED <<hits, allHits, downloads, starts>>
    BY <1>0 DEF TypeInv, FileRequest, memory, history
  <2>2. QED BY <1>0, <2>1, HitsKeep, StartsKeep
<1>3. LastInv' /\ DownloadInv' /\ CacheInv' /\ BeginInv' /\ RedirectsAreRecent'
  <2>1. RedirectsAreRecent'
    BY <1>0, <1>a, <1>c, <1>e DEF RedirectsAreRecent
  <2>2. LastInv' /\ DownloadInv' /\ CacheInv' /\ BeginInv'
    BY <1>0, <1>a, <1>d DEF LastInv, DownloadInv, CacheInv, BeginInv, At, memory, world
  <2>3. QED BY <2>1, <2>2
<1>4. UseInv'
  <2>1. Waiting' \subseteq Waiting \cup {c}
    BY <1>a, <1>e DEF Waiting
  <2>2. c \in Ids => c \in InUse
    BY <1>a DEF InUse
  <2>3. InUse' \subseteq InUse
    BY <1>a, <1>d, <2>1, <2>2 DEF InUse, At, memory
  <2>4. QED BY <1>0, <1>a, <2>3 DEF UseInv, history
<1>9. QED BY <1>1, <1>2, <1>3, <1>4 DEF IInv

\* A person lets a client in.
LEMMA ApproveStep ==
  ASSUME IInv, NEW p \in pending, Approve(p)
  PROVE  IInv'
<1>0. /\ TypeInv /\ HitsInv /\ HourInv /\ StartsInv /\ MinuteInv
      /\ LastInv /\ DownloadInv /\ CacheInv /\ BeginInv /\ RedirectsAreRecent /\ UseInv
  BY DEF IInv
<1>a. /\ UNCHANGED <<now, clients, hits, grants, cache, downloads, handler, sweeping, world, history>>
      /\ pending' = pending \ {p} /\ DOMAIN codes' = DOMAIN codes \cup {p.client}
  BY DEF Approve, With
<1>1. TypeInv'
  BY <1>0, <1>a DEF TypeInv, world
<1>2. HitsInv' /\ HourInv' /\ StartsInv' /\ MinuteInv'
  <2>1. now \in Int /\ now' = now /\ UNCHANGED <<hits, allHits, downloads, starts>>
    BY <1>0 DEF TypeInv, Approve, history
  <2>2. QED BY <1>0, <2>1, HitsKeep, StartsKeep
<1>3. LastInv' /\ DownloadInv' /\ CacheInv' /\ BeginInv' /\ RedirectsAreRecent'
  BY <1>0, <1>a, RecentKeep DEF world
<1>4. UseInv'
  <2>1. InUse' \subseteq InUse
    BY <1>a DEF InUse, Waiting, At
  <2>2. QED BY <1>0, <1>a, <2>1 DEF UseInv, history
<1>9. QED BY <1>1, <1>2, <1>3, <1>4 DEF IInv

\* Or does not.
LEMMA DenyStep ==
  ASSUME IInv, NEW p \in pending, Deny(p)
  PROVE  IInv'
<1>0. /\ TypeInv /\ HitsInv /\ HourInv /\ StartsInv /\ MinuteInv
      /\ LastInv /\ DownloadInv /\ CacheInv /\ BeginInv /\ RedirectsAreRecent /\ UseInv
  BY DEF IInv
<1>a. /\ UNCHANGED <<now, clients, hits, grants, memory, handler, sweeping, world, history>>
      /\ pending' = pending \ {p}
  BY DEF Deny
<1>1. TypeInv'
  BY <1>0, <1>a DEF TypeInv, memory, world
<1>2. HitsInv' /\ HourInv' /\ StartsInv' /\ MinuteInv'
  <2>1. now \in Int /\ now' = now /\ UNCHANGED <<hits, allHits, downloads, starts>>
    BY <1>0 DEF TypeInv, Deny, memory, history
  <2>2. QED BY <1>0, <2>1, HitsKeep, StartsKeep
<1>3. LastInv' /\ DownloadInv' /\ CacheInv' /\ BeginInv' /\ RedirectsAreRecent'
  BY <1>0, <1>a, RecentKeep DEF memory, world
<1>4. UseInv'
  BY <1>0, <1>a DEF UseInv, InUse, Waiting, At, memory, history
<1>9. QED BY <1>1, <1>2, <1>3, <1>4 DEF IInv

\* A code becomes a grant, or has expired.
LEMMA ExchangeStep ==
  ASSUME IInv, NEW c \in Ids \cup Documents, Exchange(c)
  PROVE  IInv'
<1>0. /\ TypeInv /\ HitsInv /\ HourInv /\ StartsInv /\ MinuteInv
      /\ LastInv /\ DownloadInv /\ CacheInv /\ BeginInv /\ RedirectsAreRecent /\ UseInv
  BY DEF IInv
<1>a. /\ UNCHANGED <<now, clients, hits, pending, cache, downloads, handler, sweeping, world, history>>
      /\ c \in DOMAIN codes /\ DOMAIN codes' \subseteq DOMAIN codes
      /\ grants' \subseteq grants \cup {c}
  BY DEF Exchange, Restrict
<1>1. TypeInv'
  BY <1>0, <1>a DEF TypeInv, world
<1>2. HitsInv' /\ HourInv' /\ StartsInv' /\ MinuteInv'
  <2>1. now \in Int /\ now' = now /\ UNCHANGED <<hits, allHits, downloads, starts>>
    BY <1>0 DEF TypeInv, Exchange, history
  <2>2. QED BY <1>0, <2>1, HitsKeep, StartsKeep
<1>3. LastInv' /\ DownloadInv' /\ CacheInv' /\ BeginInv' /\ RedirectsAreRecent'
  BY <1>0, <1>a, RecentKeep DEF world
<1>4. UseInv'
  BY <1>0, <1>a DEF UseInv, InUse, Waiting, At, history
<1>9. QED BY <1>1, <1>2, <1>3, <1>4 DEF IInv

\* A grant is taken back.
LEMMA RevokeGrantStep ==
  ASSUME IInv, NEW c \in Ids \cup Documents, RevokeGrant(c)
  PROVE  IInv'
<1>0. /\ TypeInv /\ HitsInv /\ HourInv /\ StartsInv /\ MinuteInv
      /\ LastInv /\ DownloadInv /\ CacheInv /\ BeginInv /\ RedirectsAreRecent /\ UseInv
  BY DEF IInv
<1>a. /\ UNCHANGED <<now, clients, hits, pending, memory, handler, sweeping, world, history>>
      /\ grants' \subseteq grants
  BY DEF RevokeGrant
<1>1. TypeInv'
  BY <1>0, <1>a DEF TypeInv, memory, world
<1>2. HitsInv' /\ HourInv' /\ StartsInv' /\ MinuteInv'
  <2>1. now \in Int /\ now' = now /\ UNCHANGED <<hits, allHits, downloads, starts>>
    BY <1>0 DEF TypeInv, RevokeGrant, memory, history
  <2>2. QED BY <1>0, <2>1, HitsKeep, StartsKeep
<1>3. LastInv' /\ DownloadInv' /\ CacheInv' /\ BeginInv' /\ RedirectsAreRecent'
  BY <1>0, <1>a, RecentKeep DEF memory, world
<1>4. UseInv'
  BY <1>0, <1>a DEF UseInv, InUse, Waiting, At, memory, history
<1>9. QED BY <1>1, <1>2, <1>3, <1>4 DEF IInv

\* Requests that expired are swept.
LEMMA SweepPendingStep ==
  ASSUME IInv, SweepPending
  PROVE  IInv'
<1>0. /\ TypeInv /\ HitsInv /\ HourInv /\ StartsInv /\ MinuteInv
      /\ LastInv /\ DownloadInv /\ CacheInv /\ BeginInv /\ RedirectsAreRecent /\ UseInv
  BY DEF IInv
<1>a. /\ UNCHANGED <<now, clients, hits, grants, memory, handler, world, history>>
      /\ pending' \subseteq pending
  BY DEF SweepPending
<1>1. TypeInv'
  BY <1>0, <1>a DEF TypeInv, memory, world
<1>2. HitsInv' /\ HourInv' /\ StartsInv' /\ MinuteInv'
  <2>1. now \in Int /\ now' = now /\ UNCHANGED <<hits, allHits, downloads, starts>>
    BY <1>0 DEF TypeInv, SweepPending, memory, history
  <2>2. QED BY <1>0, <2>1, HitsKeep, StartsKeep
<1>3. LastInv' /\ DownloadInv' /\ CacheInv' /\ BeginInv' /\ RedirectsAreRecent'
  BY <1>0, <1>a, RecentKeep DEF memory, world
<1>4. UseInv'
  BY <1>0, <1>a DEF UseInv, InUse, Waiting, At, memory, history
<1>9. QED BY <1>1, <1>2, <1>3, <1>4 DEF IInv

\* Clients that nobody uses are swept; one that is between two tables is in gap.
LEMMA SweepClientsStep ==
  ASSUME IInv, SweepClients
  PROVE  IInv'
<1>0. /\ TypeInv /\ HitsInv /\ HourInv /\ StartsInv /\ MinuteInv
      /\ LastInv /\ DownloadInv /\ CacheInv /\ BeginInv /\ RedirectsAreRecent /\ UseInv
  BY DEF IInv
<1> DEFINE old == {c \in DOMAIN clients : Unused(c)}
<1>a. /\ UNCHANGED <<now, hits, pending, grants, memory, handler, world, allHits, starts>>
      /\ DOMAIN clients' = DOMAIN clients \ old
      /\ gap' = gap \cup {c \in old : Between(c)}
  BY DEF SweepClients, Restrict
<1>1. TypeInv'
  BY <1>0, <1>a DEF TypeInv, memory, world
<1>2. HitsInv' /\ HourInv' /\ StartsInv' /\ MinuteInv'
  <2>1. now \in Int /\ now' = now /\ UNCHANGED <<hits, allHits, downloads, starts>>
    BY <1>0 DEF TypeInv, SweepClients, memory
  <2>2. QED BY <1>0, <2>1, HitsKeep, StartsKeep
<1>3. LastInv' /\ DownloadInv' /\ CacheInv' /\ BeginInv' /\ RedirectsAreRecent'
  BY <1>0, <1>a, RecentKeep DEF memory, world
<1>4. UseInv'
  <2>1. InUse' = InUse
    BY <1>a DEF InUse, Waiting, At, memory
  <2>2. \A c \in old \cap InUse : Between(c)
    BY DEF Unused, InUse, Between
  <2>3. QED BY <1>0, <1>a, <2>1, <2>2 DEF UseInv
<1>9. QED BY <1>1, <1>2, <1>3, <1>4 DEF IInv

\* An instant passes, while no handler is about to file a request and no download is late.
LEMMA TickStep ==
  ASSUME IInv, Tick
  PROVE  IInv'
<1>0. /\ TypeInv /\ HitsInv /\ HourInv /\ StartsInv /\ MinuteInv
      /\ LastInv /\ DownloadInv /\ CacheInv /\ BeginInv /\ RedirectsAreRecent /\ UseInv
  BY DEF IInv
<1>a. /\ UNCHANGED <<tables, memory, handler, sweeping, published, changes, history>>
      /\ \A h \in Handlers : Awaits(h)
      /\ now' = now + 1 /\ now \in Nat
      /\ last' = [d \in Documents |-> [r \in Redirects |->
                    IF r \in published[d] THEN now + 1 ELSE last[d][r]]]
  BY <1>0 DEF Tick, TypeInv
<1>b. /\ last \in [Documents -> [Redirects -> Int]] /\ last' \in [Documents -> [Redirects -> Int]]
      /\ \A d \in Documents, r \in Redirects :
            last'[d][r] = IF r \in published[d] THEN now + 1 ELSE last[d][r]
  BY <1>0, <1>a DEF TypeInv
<1>c. \A d \in Documents, r \in Redirects : last'[d][r] >= last[d][r] /\ last'[d][r] <= now'
  BY <1>0, <1>a, <1>b DEF LastInv
<1>1. TypeInv'
  BY <1>0, <1>a, <1>b DEF TypeInv, tables, memory
<1>2. HitsInv' /\ HourInv' /\ StartsInv' /\ MinuteInv'
  <2>1. now \in Int /\ now' \in Int /\ now' >= now /\ UNCHANGED <<hits, allHits, downloads, starts>>
    BY <1>a DEF tables, memory, history
  <2>2. QED BY <1>0, <2>1, HitsKeep, StartsKeep
<1>3. LastInv' /\ DownloadInv' /\ CacheInv' /\ BeginInv' /\ RedirectsAreRecent'
  <2>1. LastInv'
    BY <1>a, <1>b, <1>c DEF LastInv
  <2>2. DownloadInv'
    <3>1. ASSUME NEW h \in Handlers, At(h, "download")
          PROVE  /\ handler[h].until \in Int /\ handler[h].client \in Documents
                 /\ handler[h].found \subseteq Redirects /\ now < handler[h].until
      BY <1>0, <1>a, <3>1 DEF TypeInv, HandlerState, At, Idle, Awaits
    <3>2. QED BY <1>0, <1>a, <1>b, <1>c, <3>1, Numbers DEF DownloadInv, At
  <2>3. CacheInv'
    BY <1>0, <1>a, <1>b, <1>c, Numbers DEF CacheInv, TypeInv, memory
  <2>4. BeginInv'
    BY <1>a DEF BeginInv, At, Awaits
  <2>5. RedirectsAreRecent'
    BY <1>0, <1>a DEF RedirectsAreRecent, tables
  <2>6. QED BY <2>1, <2>2, <2>3, <2>4, <2>5
<1>4. UseInv'
  BY <1>0, <1>a DEF UseInv, InUse, Waiting, At, tables, memory, history
<1>9. QED BY <1>1, <1>2, <1>3, <1>4 DEF IInv

\* A document changes: what it no longer names it named until now.
LEMMA ChangeDocumentStep ==
  ASSUME IInv, NEW d \in Documents, ChangeDocument(d)
  PROVE  IInv'
<1>0. /\ TypeInv /\ HitsInv /\ HourInv /\ StartsInv /\ MinuteInv
      /\ LastInv /\ DownloadInv /\ CacheInv /\ BeginInv /\ RedirectsAreRecent /\ UseInv
  BY DEF IInv
<1>a. /\ UNCHANGED <<now, tables, memory, handler, sweeping, history>>
      /\ \E uris \in SUBSET Redirects :
            /\ published' = [published EXCEPT ![d] = uris]
            /\ last' = [last EXCEPT ![d] = [r \in Redirects |-> IF r \in uris THEN now ELSE @[r]]]
  BY DEF ChangeDocument
<1>b. /\ now \in Int /\ last \in [Documents -> [Redirects -> Int]]
      /\ published' \in [Documents -> SUBSET Redirects]
      /\ last' \in [Documents -> [Redirects -> Int]]
      /\ \A e \in Documents, r \in Redirects :
            /\ last'[e][r] \in {last[e][r], now}
            /\ r \in published'[e] => last'[e][r] = now
  <2>0. PICK uris \in SUBSET Redirects :
            /\ published' = [published EXCEPT ![d] = uris]
            /\ last' = [last EXCEPT ![d] = [r \in Redirects |-> IF r \in uris THEN now ELSE @[r]]]
    BY <1>a
  <2> DEFINE changed == [r \in Redirects |-> IF r \in uris THEN now ELSE last[d][r]]
  <2>1. /\ now \in Int /\ last \in [Documents -> [Redirects -> Int]]
        /\ published \in [Documents -> SUBSET Redirects]
    BY <1>0 DEF TypeInv
  <2>2. /\ changed \in [Redirects -> Int]
        /\ \A r \in Redirects : changed[r] = IF r \in uris THEN now ELSE last[d][r]
    BY <2>1
  <2>3. last' = [last EXCEPT ![d] = changed]
    BY <2>0, <2>1
  <2> HIDE DEF changed
  <2>4. /\ last' \in [Documents -> [Redirects -> Int]]
        /\ \A e \in Documents : last'[e] = IF e = d THEN changed ELSE last[e]
    BY <2>1, <2>2, <2>3
  <2>5. /\ published' \in [Documents -> SUBSET Redirects]
        /\ \A e \in Documents : published'[e] = IF e = d THEN uris ELSE published[e]
    BY <2>0, <2>1
  <2>6. \A e \in Documents, r \in Redirects : r \in published[e] => last[e][r] = now
    BY <1>0 DEF LastInv
  <2>7. QED BY <2>1, <2>2, <2>4, <2>5, <2>6
<1>c. \A e \in Documents, r \in Redirects : last'[e][r] >= last[e][r] /\ last'[e][r] <= now
  BY <1>0, <1>b DEF LastInv
<1>1. TypeInv'
  BY <1>0, <1>a, <1>b DEF TypeInv, tables, memory
<1>2. HitsInv' /\ HourInv' /\ StartsInv' /\ MinuteInv'
  <2>1. now \in Int /\ now' = now /\ UNCHANGED <<hits, allHits, downloads, starts>>
    BY <1>0 DEF TypeInv, ChangeDocument, tables, memory, history
  <2>2. QED BY <1>0, <2>1, HitsKeep, StartsKeep
<1>3. LastInv' /\ DownloadInv' /\ CacheInv' /\ BeginInv' /\ RedirectsAreRecent'
  <2>1. LastInv'
    BY <1>a, <1>b, <1>c DEF LastInv
  <2>2. DownloadInv'
    <3>1. ASSUME NEW h \in Handlers, At(h, "download")
          PROVE  /\ handler[h].until \in Int /\ handler[h].client \in Documents
                 /\ handler[h].found \subseteq Redirects
      BY <1>0, <3>1 DEF TypeInv, HandlerState, At, Idle
    <3>2. QED BY <1>0, <1>a, <1>b, <1>c, <3>1, Numbers DEF DownloadInv, At
  <2>3. CacheInv'
    BY <1>0, <1>a, <1>b, <1>c, Numbers DEF CacheInv, TypeInv, memory
  <2>4. BeginInv'
    <3>1. ASSUME NEW h \in Handlers, At(h, "begin")
          PROVE  handler[h].redirect \in Redirects
      BY <1>0, <3>1 DEF TypeInv, HandlerState, At, Idle
    <3>2. QED BY <1>0, <1>a, <1>b, <1>c, <3>1, Numbers DEF BeginInv, At
  <2>5. RedirectsAreRecent'
    BY <1>0, <1>a DEF RedirectsAreRecent, tables
  <2>6. QED BY <2>1, <2>2, <2>3, <2>4, <2>5
<1>4. UseInv'
  BY <1>0, <1>a DEF UseInv, InUse, Waiting, At, tables, memory, history
<1>9. QED BY <1>1, <1>2, <1>3, <1>4 DEF IInv

\* The daemon starts anew: its memory is gone, the tables stay.
LEMMA RestartStep ==
  ASSUME IInv, Restart
  PROVE  IInv'
<1>0. /\ TypeInv /\ HitsInv /\ HourInv /\ StartsInv /\ MinuteInv
      /\ LastInv /\ DownloadInv /\ CacheInv /\ BeginInv /\ RedirectsAreRecent /\ UseInv
  BY DEF IInv
<1>a. /\ UNCHANGED <<now, tables, world, allHits, gap>>
      /\ DOMAIN codes' = {} /\ DOMAIN cache' = {} /\ downloads' = {} /\ starts' = {}
      /\ handler' \in [Handlers -> HandlerState] /\ \A h \in Handlers : handler'[h].step = "idle"
  BY States DEF Restart
<1>1. TypeInv'
  BY <1>0, <1>a DEF TypeInv, tables, world
<1>2. HitsInv' /\ HourInv' /\ StartsInv' /\ MinuteInv'
  <2>1. HitsInv' /\ HourInv'
    BY <1>0, <1>a, HitsKeep DEF tables, TypeInv
  <2>2. StartsInv'
    BY <1>a, FS_EmptySet DEF StartsInv
  <2>3. MinuteInv'
    <3>1. \A from \in Int : Within({}, from, Minute) = {}
      BY DEF Within
    <3>2. QED BY <1>a, <3>1, FS_EmptySet, Numbers DEF MinuteInv
  <2>4. QED BY <2>1, <2>2, <2>3
<1>3. LastInv' /\ DownloadInv' /\ CacheInv' /\ BeginInv' /\ RedirectsAreRecent'
  BY <1>0, <1>a DEF LastInv, DownloadInv, CacheInv, BeginInv, RedirectsAreRecent, At, tables, world
<1>4. UseInv'
  BY <1>0, <1>a DEF UseInv, InUse, Waiting, At, tables
<1>9. QED BY <1>1, <1>2, <1>3, <1>4 DEF IInv

-----------------------------------------------------------------------------
LEMMA InitInv == Init => IInv
<1> SUFFICES ASSUME Init PROVE IInv
  OBVIOUS
<1>1. TypeInv
  <2>1. Never \in Int
    BY Numbers DEF Never
  <2>2. last \in [Documents -> [Redirects -> Int]]
    BY <2>1 DEF Init
  <2>3. QED BY <2>2, States DEF Init, TypeInv
<1>2. HitsInv /\ HourInv /\ StartsInv /\ MinuteInv
  <2>1. \A from \in Int : Within({}, from, Hour) = {} /\ Within({}, from, Minute) = {}
    BY DEF Within
  <2>2. allHits = {} /\ hits = {} /\ starts = {} /\ downloads = {} /\ \A s \in Sources : HitsOf(s) = {}
    BY DEF Init, HitsOf
  <2>3. IsFiniteSet({}) /\ Cardinality({}) = 0
    BY FS_EmptySet
  <2>4. HourInv /\ MinuteInv
    BY <2>1, <2>2, <2>3, Numbers DEF HourInv, MinuteInv
  <2>5. HitsInv /\ StartsInv
    BY <2>2, <2>3 DEF HitsInv, StartsInv
  <2>6. QED BY <2>4, <2>5
<1>3. LastInv /\ DownloadInv /\ CacheInv /\ BeginInv /\ RedirectsAreRecent
  <2>1. Never <= 0
    BY Numbers DEF Never
  <2>2. LastInv
    BY <2>1 DEF Init, LastInv
  <2>3. DOMAIN cache = {} /\ pending = {} /\ \A h \in Handlers : handler[h].step = "idle"
    BY States DEF Init
  <2>4. QED BY <2>2, <2>3 DEF DownloadInv, CacheInv, BeginInv, RedirectsAreRecent, At
<1>4. UseInv
  BY States DEF Init, UseInv, InUse, Waiting, At
<1>5. QED BY <1>1, <1>2, <1>3, <1>4 DEF IInv

LEMMA NextInv == IInv /\ [Next]_vars => IInv'
<1> SUFFICES ASSUME IInv, [Next]_vars PROVE IInv'
  OBVIOUS
<1>1. ASSUME NEW h \in Handlers, Register(h) \/ Identify(h) PROVE IInv'
  BY <1>1, TryRecordStep, ClientRegisterStep, IdentifyRegisteredStep, IdentifyCachedStep,
     StartDownloadStep, AnswerStep, KeepStep, DownloadFailsStep, FileRequestStep DEF Register, Identify
<1>2. ASSUME NEW p \in pending, Approve(p) \/ Deny(p) PROVE IInv'
  BY <1>2, ApproveStep, DenyStep
<1>3. ASSUME NEW c \in Ids \cup Documents, Exchange(c) \/ RevokeGrant(c) PROVE IInv'
  BY <1>3, ExchangeStep, RevokeGrantStep
<1>4. ASSUME NEW d \in Documents, ChangeDocument(d) PROVE IInv'
  BY <1>4, ChangeDocumentStep
<1>5. CASE SweepPending \/ SweepClients \/ Tick \/ Restart
  BY <1>5, SweepPendingStep, SweepClientsStep, TickStep, RestartStep
<1>6. CASE UNCHANGED vars
  <2>1. /\ UNCHANGED <<now, clients, hits, pending, grants, codes, cache, downloads>>
        /\ UNCHANGED <<handler, published, last, allHits, starts, gap>>
    BY <1>6 DEF vars, tables, memory, world, history
  <2>2. QED BY <2>1 DEF IInv, TypeInv, HitsInv, HourInv, HitsOf, StartsInv, MinuteInv, LastInv, DownloadInv,
                        CacheInv, BeginInv, RedirectsAreRecent, UseInv, InUse, Waiting, At
<1>7. QED BY <1>1, <1>2, <1>3, <1>4, <1>5, <1>6 DEF Next

\* The inductive invariant holds in every reachable state.
THEOREM Invariance == Spec => []IInv
<1>1. QED BY InitInv, NextInv, PTL DEF Spec

\* No window of an hour or a minute has more than the limits allow.
THEOREM LimitsHold == Spec => []LimitsHoldInEveryWindow
<1>1. IInv => LimitsHoldInEveryWindow
  <2> SUFFICES ASSUME IInv PROVE LimitsHoldInEveryWindow
    OBVIOUS
  <2>1. /\ \A x \in allHits : x.at \in Int
        /\ \A x \in starts : x.at \in Int
        /\ HourInv /\ MinuteInv
    BY DEF IInv, HitsInv, StartsInv
  <2>2. ASSUME NEW x \in allHits, NEW s \in Sources
        PROVE  {y \in Within(allHits, x.at, Hour) : y.source = s} = Within(HitsOf(s), x.at, Hour)
    BY DEF Within, HitsOf
  <2>3. QED BY <2>1, <2>2 DEF LimitsHoldInEveryWindow, HourInv, MinuteInv
<1>2. QED BY Invariance, <1>1, PTL

\* A request is filed only for an address that was in the document lately.
THEOREM RedirectsStayRecent == Spec => []RedirectsAreRecent
<1>1. QED BY Invariance, PTL DEF IInv

\* A client in use stays registered, or was swept between two tables.
THEOREM ClientsStayRegistered == Spec => []ClientsInUseAreRegistered
<1>1. IInv => ClientsInUseAreRegistered
  BY DEF IInv, UseInv, InUse, ClientsInUseAreRegistered
<1>2. QED BY Invariance, <1>1, PTL

-----------------------------------------------------------------------------
(* The lock of porchlight.json. *)

\* A process that has written a new file holds the lock, and carries out an
\* action whose next edit that file is, of the file as it is on disk.
EditInv ==
    \A p \in Procs : text[p] # NoFile =>
        /\ lock = p
        /\ todo[p] # << >>
        /\ text[p] = Edited(file, Head(todo[p]))

\* Only a process that was given an action has edits to make.
JobInv == \A p \in Procs : job[p] = NoJob => todo[p] = << >>

\* Each process has its own of everything.
OwnInv ==
    DOMAIN job = Procs /\ DOMAIN todo = Procs /\ DOMAIN text = Procs

FileInv == OwnInv /\ JobInv /\ EditInv

LEMMA ProcessIsOver ==
  ASSUME OwnInv, NEW p \in Procs, Over(p)
  PROVE  /\ OwnInv'
         /\ text'[p] = NoFile /\ todo'[p] = << >> /\ job'[p] = NoJob
         /\ \A q \in Procs \ {p} : text'[q] = text[q] /\ todo'[q] = todo[q] /\ job'[q] = job[q]
BY DEF OwnInv, Over

LEMMA FileInitInv == FileInit => FileInv
BY DEF FileInit, FileInv, OwnInv, JobInv, EditInv

LEMMA FileNextInv == FileInv /\ [FileNext]_fileVars => FileInv'
<1> SUFFICES ASSUME FileInv, [FileNext]_fileVars PROVE FileInv'
  OBVIOUS
<1>0. OwnInv /\ JobInv /\ EditInv
  BY DEF FileInv
<1>1. ASSUME NEW p \in Procs, Load(p) PROVE FileInv'
  BY <1>0, <1>1 DEF Load, FileInv, OwnInv, JobInv, EditInv
<1>2. ASSUME NEW p \in Procs, Choose(p) PROVE FileInv'
  <2>1. text[p] = NoFile
    BY <1>0, <1>2 DEF Choose, JobInv, EditInv
  <2>2. PICK j \in Jobs : job' = [job EXCEPT ![p] = j] /\ todo' = [todo EXCEPT ![p] = FirstEdits(snap[p], j)]
    BY <1>2 DEF Choose
  <2>3. UNCHANGED <<file, lock, text>>
    BY <1>2 DEF Choose
  <2>4. OwnInv'
    BY <1>0, <2>2, <2>3 DEF OwnInv
  <2>5. JobInv'
    BY <1>0, <2>2, JobsAssumption DEF OwnInv, JobInv
  <2>6. EditInv'
    BY <1>0, <2>1, <2>2, <2>3 DEF OwnInv, EditInv
  <2>7. QED BY <2>4, <2>5, <2>6 DEF FileInv
<1>3. ASSUME NEW p \in Procs, Prepare(p) PROVE FileInv'
  <2>1. \A q \in Procs : text[q] = NoFile
    BY <1>0, <1>3, ProcsAssumption DEF Prepare, LockFree, EditInv
  <2>2. /\ UNCHANGED <<file, job, todo>> /\ lock' = p /\ todo[p] # << >>
        /\ text' = [text EXCEPT ![p] = Edited(file, Head(todo[p]))]
    BY <1>3 DEF Prepare
  <2>3. QED BY <1>0, <2>1, <2>2 DEF FileInv, OwnInv, JobInv, EditInv
<1>4. ASSUME NEW p \in Procs, Rename(p) PROVE FileInv'
  <2>1. /\ UNCHANGED job /\ lock = p
        /\ text' = [text EXCEPT ![p] = NoFile] /\ todo' = [todo EXCEPT ![p] = Tail(@)]
    BY <1>0, <1>4 DEF Rename, EditInv
  <2>2. \A q \in Procs : text'[q] = NoFile
    BY <1>0, <2>1 DEF OwnInv, EditInv
  <2>3. job[p] # NoJob
    BY <1>0, <1>4 DEF Rename, EditInv, JobInv
  <2>4. QED BY <1>0, <2>1, <2>2, <2>3 DEF FileInv, OwnInv, JobInv, EditInv
<1>5. ASSUME NEW p \in Procs, More(p) PROVE FileInv'
  <2>1. /\ UNCHANGED <<file, lock, job, text>> /\ job[p] # NoJob /\ text[p] = NoFile
        /\ todo' = [todo EXCEPT ![p] = MoreEdits(snap[p], file, job[p])]
    BY <1>0, <1>5 DEF More, EditInv
  <2>2. QED BY <1>0, <2>1 DEF FileInv, OwnInv, JobInv, EditInv
<1>6. ASSUME NEW p \in Procs, Over(p), UNCHANGED file,
             lock' = lock \/ (lock = p /\ lock' = Nobody)
      PROVE  FileInv'
  BY <1>0, <1>6, ProcessIsOver DEF FileInv, JobInv, EditInv
<1>7. ASSUME NEW p \in Procs, Finish(p) \/ Refuse(p) \/ Crash(p) PROVE FileInv'
  BY <1>6, <1>7 DEF Finish, Refuse, Crash
<1>8. CASE UNCHANGED fileVars
  BY <1>0, <1>8 DEF fileVars, FileInv, OwnInv, JobInv, EditInv
<1>9. QED BY <1>1, <1>2, <1>3, <1>4, <1>5, <1>7, <1>8 DEF FileNext

\* The inductive invariant holds in every reachable state.
THEOREM FileInvariance == FileSpec => []FileInv
<1>1. QED BY FileInitInv, FileNextInv, PTL DEF FileSpec

\* What is renamed into place is the file on disk with one place changed.
THEOREM EditsAreKept == FileSpec => []NoEditIsLost
<1>1. FileInv => NoEditIsLost
  BY DEF FileInv, EditInv, NoEditIsLost
<1>2. QED BY FileInvariance, <1>1, PTL

-----------------------------------------------------------------------------
(* Actions of several edits.  Section by section and key by key: what the    *)
(* edits an action has left will make of the file, and what it already is.   *)

\* Two settings say the same of one key of a section.
Agree(f, g, s, k) ==
    /\ k \in DOMAIN f[s] <=> k \in DOMAIN g[s]
    /\ k \in DOMAIN f[s] => f[s][k] = g[s][k]

\* An edit of one of the four sections, which makes of a file, where it
\* changes it, what the action means, even if that was done before.
EditOk(e) == e.at[1] \in Sections /\ Len(e.at) \in {2, 3}
Reaches(e, f, m) == Agree(Edited(f, e), m, e.at[1], e.at[2])
Leads(e, f, m) == EditOk(e) /\ Reaches(e, f, m) /\ Reaches(e, m, m)

Touches(edits, s, k) == \E i \in 1..Len(edits) : edits[i].at[1] = s /\ edits[i].at[2] = k

\* The section that the second part of an action edits.
Second(j) == IF j.act = "share" THEN "tools" ELSE "links"

\* What an undisturbed action has made of the settings f it was given, when
\* these edits are left, and perhaps more that are computed later.
InBetween(disk, f, m) == \A s \in Sections : \A k : Agree(disk, f, s, k) \/ Agree(disk, m, s, k)
LeadTo(edits, f, m) == \A i \in 1..Len(edits) : Leads(edits[i], f, m)
Rest(disk, m, edits, s) == \A k : Touches(edits, s, k) \/ Agree(disk, m, s, k)
Untouched(disk, f, edits, s) ==
    /\ \A k : Agree(disk, f, s, k)
    /\ \A i \in 1..Len(edits) : edits[i].at[1] # s
Standing(disk, f, j, m, edits) ==
    j.act = "split" /\ ~Single(f.commands[j.app]) =>
        \/ Agree(disk, m, "commands", SplitName(f, j.tool))
        \/ edits = SplitEdits(f, j.app, j.tool) /\ Agree(disk, f, "commands", j.app)

Underway(disk, f, j, m, edits, more) ==
    /\ InBetween(disk, f, m)
    /\ LeadTo(edits, f, m)
    /\ \A s \in Sections : (more /\ s = Second(j)) \/ Rest(disk, m, edits, s)
    /\ more => HasMore(f, j) /\ Untouched(disk, f, edits, Second(j))
    /\ Standing(disk, f, j, m, edits)

\* Every process has its own of everything.
EachInv == DOMAIN snap = Procs /\ DOMAIN later = Procs /\ DOMAIN mixed = Procs

\* The edits of an action are edits of the four sections.
IsSequence(edits) == \E S : edits \in Seq(S)
EditsInv == \A p \in Procs : job[p] # NoJob =>
    IsSequence(todo[p]) /\ \A i \in 1..Len(todo[p]) : EditOk(todo[p][i])

ShapeInv == IsSettings(file) /\ \A p \in Procs : snap[p] # NoFile => IsSettings(snap[p])

\* An action was accepted of the settings that were loaded for it.
ChosenInv == \A p \in Procs : job[p] # NoJob =>
    /\ job[p] \in Jobs /\ snap[p] # NoFile /\ Accepted(snap[p], job[p])
    /\ later[p] => HasMore(snap[p], job[p])

\* Undisturbed, the file is what it was or what the action has made of it.
LoneInv == \A p \in Procs : ~mixed[p] /\ snap[p] # NoFile =>
    IF job[p] = NoJob THEN file = snap[p]
    ELSE Underway(file, snap[p], job[p], Meaning(snap[p], job[p]), todo[p], later[p])

ActionInv == EachInv /\ EditsInv /\ ShapeInv /\ ChosenInv /\ LoneInv

-----------------------------------------------------------------------------
(* Sets as sequences, the least of them, sections and edits. *)

LEMMA ListedOnce ==
  ASSUME NEW S, IsFiniteSet(S)
  PROVE  /\ SetToSeq(S) \in Seq(S)
         /\ \A i \in 1..Len(SetToSeq(S)) : SetToSeq(S)[i] \in S
         /\ \A x \in S : \E i \in 1..Len(SetToSeq(S)) : SetToSeq(S)[i] = x
<1> DEFINE n == Cardinality(S)
           f == SetToSeq(S)
<1>1. n \in Nat /\ ExistsBijection(1..n, S)
  BY FS_CardinalityType
<1>2. \E g \in [1..n -> S] : IsInjective(g)
  BY <1>1 DEF ExistsBijection, Bijection, Injection
<1>3. f \in [1..n -> S] /\ IsInjective(f)
  BY <1>2 DEF SetToSeq
<1>4. f \in Injection(1..n, S)
  BY <1>3 DEF Injection
<1>5. IsFiniteSet(1..n) /\ Cardinality(1..n) = n
  BY <1>1, FS_Interval
<1>6. f \in Surjection(1..n, S)
  BY <1>4, <1>5, FS_Injection
<1>7. Len(f) = n /\ f \in Seq(S)
  BY <1>1, <1>3
<1> HIDE DEF n, f
<1>8. QED BY <1>1, <1>3, <1>6, <1>7 DEF Surjection, f

LEMMA LeastIsIn ==
  ASSUME NEW T, T \subseteq Nat, T # {}
  PROVE  Min(T) \in T
<1> DEFINE Less == {ss \in Nat \X Nat : ss[1] < ss[2]}
<1>0. IsWellFoundedOn(Less, Nat)
  BY NatLessThanWellFounded, Zenon DEF OpToRel
<1>1. \E x \in T : \A y \in T : ~(<<y, x>> \in Less)
  <2> HIDE DEF Less
  <2>1. QED BY <1>0, WFMin
<1>2. PICK x \in T : \A y \in T : ~(<<y, x>> \in Less)
  BY <1>1
<1>3. \A y \in T : ~(y < x)
  BY <1>2
<1>4. \A y \in T : x =< y
  BY <1>3
<1>5. QED BY <1>4 DEF Min

\* A split name is nobody's.
LEMMA SplitNameIsFree ==
  ASSUME NEW f, NEW tool, SplitNames[tool] \in Seq(STRING), FreeNames(f, tool) # {}
  PROVE  ~NameProblem(f, SplitName(f, tool))
<1>1. FreeNames(f, tool) \subseteq Nat
  BY DEF FreeNames
<1>2. Min(FreeNames(f, tool)) \in FreeNames(f, tool)
  BY <1>1, LeastIsIn
<1>3. QED BY <1>2 DEF FreeNames, SplitName

LEMMA PutIs ==
  ASSUME NEW at, NEW value
  PROVE  Put(at, value).at = at /\ Put(at, value).put = TRUE /\ Put(at, value).value = value
BY DEF Put

LEMMA DropIs ==
  ASSUME NEW at
  PROVE  Drop(at).at = at /\ Drop(at).put = FALSE
BY DEF Drop

LEMMA ChangedIs ==
  ASSUME NEW object, NEW key, NEW e
  PROVE  /\ IsFiniteSet(DOMAIN object) => IsFiniteSet(DOMAIN Changed(object, key, e))
         /\ Changed(object, key, e) = [k \in DOMAIN Changed(object, key, e) |-> Changed(object, key, e)[k]]
         /\ \A k : k # key => /\ k \in DOMAIN Changed(object, key, e) <=> k \in DOMAIN object
                              /\ k \in DOMAIN object => Changed(object, key, e)[k] = object[k]
         /\ key \in DOMAIN Changed(object, key, e) <=> e.put
         /\ e.put => Changed(object, key, e)[key] = e.value
<1>1. CASE e.put
  <2>1. Changed(object, key, e) = [k \in DOMAIN object \cup {key} |-> IF k = key THEN e.value ELSE object[k]]
    BY <1>1 DEF Changed, Having
  <2>2. IsFiniteSet(DOMAIN object) => IsFiniteSet(DOMAIN object \cup {key})
    BY FS_AddElement
  <2>3. QED BY <1>1, <2>1, <2>2
<1>2. CASE ~e.put
  <2>1. Changed(object, key, e) = [k \in DOMAIN object \ {key} |-> object[k]]
    BY <1>2 DEF Changed, Without
  <2>2. IsFiniteSet(DOMAIN object) => IsFiniteSet(DOMAIN object \ {key})
    BY FS_RemoveElement
  <2>3. QED BY <1>2, <2>1, <2>2
<1>3. QED BY <1>1, <1>2

LEMMA ChangedTwice ==
  ASSUME NEW object, NEW key, NEW e
  PROVE  Changed(Changed(object, key, e), key, e) = Changed(object, key, e)
<1>1. CASE e.put
  BY <1>1 DEF Changed, Having
<1>2. CASE ~e.put
  BY <1>2 DEF Changed, Without
<1>3. QED BY <1>1, <1>2

LEMMA HavingIs ==
  ASSUME NEW object, NEW key, NEW value
  PROVE  /\ Having(object, key, value) = [k \in DOMAIN Having(object, key, value) |-> Having(object, key, value)[k]]
         /\ IsFiniteSet(DOMAIN object) => IsFiniteSet(DOMAIN Having(object, key, value))
         /\ key \in DOMAIN Having(object, key, value) /\ Having(object, key, value)[key] = value
         /\ \A k : k # key => /\ k \in DOMAIN Having(object, key, value) <=> k \in DOMAIN object
                              /\ k \in DOMAIN object => Having(object, key, value)[k] = object[k]
BY FS_AddElement DEF Having

LEMMA WithoutIs ==
  ASSUME NEW object, NEW key
  PROVE  /\ Without(object, key) = [k \in DOMAIN Without(object, key) |-> Without(object, key)[k]]
         /\ IsFiniteSet(DOMAIN object) => IsFiniteSet(DOMAIN Without(object, key))
         /\ key \notin DOMAIN Without(object, key)
         /\ \A k : k # key => /\ k \in DOMAIN Without(object, key) <=> k \in DOMAIN object
                              /\ k \in DOMAIN object => Without(object, key)[k] = object[k]
BY FS_RemoveElement DEF Without

\* The one section an edit changes, and how.
NewSection(f, e) ==
    IF Len(e.at) = 2 THEN Changed(f[e.at[1]], e.at[2], e)
    ELSE Having(f[e.at[1]], e.at[2], Changed(EntryAt(f, e), e.at[3], e))

LEMMA EditedIs ==
  ASSUME NEW f, IsSettings(f), NEW e, EditOk(e)
  PROVE  /\ DOMAIN Edited(f, e) = Sections
         /\ Edited(f, e) = [s \in Sections |-> Edited(f, e)[s]]
         /\ Edited(f, e)[e.at[1]] = NewSection(f, e)
         /\ \A s \in Sections : s # e.at[1] => Edited(f, e)[s] = f[s]
<1>1. DOMAIN f = Sections /\ e.at[1] \in Sections
  BY DEF IsSettings, EditOk
<1>2. Edited(f, e) = [f EXCEPT ![e.at[1]] = NewSection(f, e)]
  <2>1. CASE Len(e.at) = 2
    BY <1>1, <2>1 DEF Edited, NewSection
  <2>2. CASE Len(e.at) # 2
    BY <1>1, <2>2 DEF Edited, NewSection
  <2>3. QED BY <2>1, <2>2
<1>3. QED BY <1>1, <1>2

LEMMA NewSectionIs ==
  ASSUME NEW f, IsSettings(f), NEW e, EditOk(e)
  PROVE  /\ IsFiniteSet(DOMAIN NewSection(f, e))
         /\ NewSection(f, e) = [k \in DOMAIN NewSection(f, e) |-> NewSection(f, e)[k]]
         /\ \A k : k # e.at[2] => /\ k \in DOMAIN NewSection(f, e) <=> k \in DOMAIN f[e.at[1]]
                                  /\ k \in DOMAIN f[e.at[1]] => NewSection(f, e)[k] = f[e.at[1]][k]
<1>1. IsFiniteSet(DOMAIN f[e.at[1]])
  BY DEF IsSettings, EditOk
<1>2. CASE Len(e.at) = 2
  <2>1. NewSection(f, e) = Changed(f[e.at[1]], e.at[2], e)
    BY <1>2 DEF NewSection
  <2>2. QED BY <1>1, <2>1, ChangedIs
<1>3. CASE Len(e.at) # 2
  <2> DEFINE v == Changed(EntryAt(f, e), e.at[3], e)
  <2>1. NewSection(f, e) = Having(f[e.at[1]], e.at[2], v)
    BY <1>3 DEF NewSection
  <2> HIDE DEF v
  <2>2. QED BY <1>1, <2>1, HavingIs
<1>4. QED BY <1>2, <1>3

LEMMA EditedIsSettings ==
  ASSUME NEW f, IsSettings(f), NEW e, EditOk(e)
  PROVE  IsSettings(Edited(f, e))
<1> DEFINE g == Edited(f, e)
<1>1. /\ g = [s \in Sections |-> g[s]]
      /\ g[e.at[1]] = NewSection(f, e)
      /\ \A s \in Sections : s # e.at[1] => g[s] = f[s]
  BY EditedIs
<1>2. IsFiniteSet(DOMAIN NewSection(f, e)) /\ NewSection(f, e) = [k \in DOMAIN NewSection(f, e) |-> NewSection(f, e)[k]]
  BY NewSectionIs
<1> HIDE DEF g
<1>3. ASSUME NEW s \in Sections PROVE g[s] = [k \in DOMAIN g[s] |-> g[s][k]] /\ IsFiniteSet(DOMAIN g[s])
  <2>1. CASE s = e.at[1]
    BY <1>1, <1>2, <2>1
  <2>2. CASE s # e.at[1]
    <3>1. g[s] = f[s]
      BY <1>1, <2>2
    <3>2. f[s] = [k \in DOMAIN f[s] |-> f[s][k]] /\ IsFiniteSet(DOMAIN f[s])
      BY DEF IsSettings
    <3>3. QED BY <3>1, <3>2
  <2>3. QED BY <2>1, <2>2
<1>4. QED BY <1>1, <1>3 DEF IsSettings, g

\* An edit changes nothing elsewhere.
LEMMA EditedElsewhere ==
  ASSUME NEW f, IsSettings(f), NEW e, EditOk(e), NEW s \in Sections, NEW k,
         s # e.at[1] \/ k # e.at[2]
  PROVE  Agree(Edited(f, e), f, s, k)
BY EditedIs, NewSectionIs DEF Agree

\* What it does there depends on nothing elsewhere.
LEMMA EditedAlike ==
  ASSUME NEW f, IsSettings(f), NEW g, IsSettings(g), NEW e, EditOk(e),
         Agree(f, g, e.at[1], e.at[2])
  PROVE  Agree(Edited(f, e), Edited(g, e), e.at[1], e.at[2])
<1>1. Edited(f, e)[e.at[1]] = NewSection(f, e) /\ Edited(g, e)[e.at[1]] = NewSection(g, e)
  BY EditedIs
<1>2. CASE Len(e.at) = 2
  <2>1. /\ NewSection(f, e) = Changed(f[e.at[1]], e.at[2], e)
        /\ NewSection(g, e) = Changed(g[e.at[1]], e.at[2], e)
    BY <1>2 DEF NewSection
  <2>2. QED BY <1>1, <2>1, ChangedIs DEF Agree
<1>3. CASE Len(e.at) # 2
  <2>1. EntryAt(f, e) = EntryAt(g, e)
    BY DEF EntryAt, Agree
  <2> DEFINE v == Changed(EntryAt(f, e), e.at[3], e)
  <2>2. /\ NewSection(f, e) = Having(f[e.at[1]], e.at[2], v)
        /\ NewSection(g, e) = Having(g[e.at[1]], e.at[2], v)
    BY <1>3, <2>1 DEF NewSection
  <2> HIDE DEF v
  <2>3. QED BY <1>1, <2>2, HavingIs DEF Agree
<1>4. QED BY <1>2, <1>3

LEMMA AgreeIsEqual ==
  ASSUME NEW f, NEW g, NEW h, NEW s, NEW k
  PROVE  /\ Agree(f, f, s, k)
         /\ Agree(f, g, s, k) => Agree(g, f, s, k)
         /\ Agree(f, g, s, k) /\ Agree(g, h, s, k) => Agree(f, h, s, k)
BY DEF Agree

LEMMA ReachesAlike ==
  ASSUME NEW f, IsSettings(f), NEW g, IsSettings(g), NEW m, NEW e, EditOk(e),
         Agree(f, g, e.at[1], e.at[2]), Reaches(e, g, m)
  PROVE  Reaches(e, f, m)
BY EditedAlike, AgreeIsEqual DEF Reaches

\* The same edit again changes nothing.
LEMMA OnlyEditLeads ==
  ASSUME NEW f, IsSettings(f), NEW e, EditOk(e)
  PROVE  Leads(e, f, Edited(f, e))
<1> DEFINE m == Edited(f, e)
<1>0. IsSettings(m)
  BY EditedIsSettings
<1>1. m[e.at[1]] = NewSection(f, e) /\ Edited(m, e)[e.at[1]] = NewSection(m, e)
  BY <1>0, EditedIs
<1>2. CASE Len(e.at) = 2
  <2>1. NewSection(f, e) = Changed(f[e.at[1]], e.at[2], e) /\ NewSection(m, e) = Changed(m[e.at[1]], e.at[2], e)
    BY <1>2 DEF NewSection
  <2>2. NewSection(m, e) = NewSection(f, e)
    BY <1>1, <2>1, ChangedTwice
  <2>3. Agree(Edited(m, e), m, e.at[1], e.at[2])
    BY <1>1, <2>2 DEF Agree
  <2>4. QED BY <2>3, AgreeIsEqual DEF Leads, Reaches
<1>3. CASE Len(e.at) # 2
  <2> DEFINE v == Changed(EntryAt(f, e), e.at[3], e)
             w == Changed(EntryAt(m, e), e.at[3], e)
  <2>1. NewSection(f, e) = Having(f[e.at[1]], e.at[2], v) /\ NewSection(m, e) = Having(m[e.at[1]], e.at[2], w)
    BY <1>3 DEF NewSection
  <2>2. EntryAt(m, e) = v
    <3> HIDE DEF v, w
    <3>1. e.at[2] \in DOMAIN m[e.at[1]] /\ m[e.at[1]][e.at[2]] = v
      BY <1>1, <2>1, HavingIs
    <3>2. QED BY <3>1 DEF EntryAt
  <2>3. w = v
    BY <2>2, ChangedTwice
  <2> HIDE DEF v, w
  <2>4. Agree(Edited(m, e), m, e.at[1], e.at[2])
    BY <1>1, <2>1, <2>3, HavingIs DEF Agree
  <2>5. QED BY <2>4, AgreeIsEqual DEF Leads, Reaches
<1>4. QED BY <1>2, <1>3

\* Edits of a whole entry lead to what has that entry, or has it not.
LEMMA PutLeads ==
  ASSUME NEW f, IsSettings(f), NEW m, IsSettings(m), NEW s \in Sections, NEW k, NEW v,
         k \in DOMAIN m[s], m[s][k] = v
  PROVE  Leads(Put(<<s, k>>, v), f, m)
<1> DEFINE e == Put(<<s, k>>, v)
<1>1. e.at = <<s, k>> /\ e.put = TRUE /\ e.value = v
  BY PutIs
<1> HIDE DEF e
<1>2. EditOk(e) /\ e.at[1] = s /\ e.at[2] = k /\ Len(e.at) = 2
  BY <1>1 DEF EditOk
<1>3. ASSUME NEW g, IsSettings(g) PROVE Agree(Edited(g, e), m, s, k)
  <2>1. Edited(g, e)[s] = Changed(g[s], k, e)
    BY <1>2, <1>3, EditedIs DEF NewSection
  <2>2. QED BY <1>1, <2>1, ChangedIs DEF Agree
<1>4. QED BY <1>2, <1>3 DEF Leads, Reaches, e

LEMMA DropLeads ==
  ASSUME NEW f, IsSettings(f), NEW m, IsSettings(m), NEW s \in Sections, NEW k,
         k \notin DOMAIN m[s]
  PROVE  Leads(Drop(<<s, k>>), f, m)
<1> DEFINE e == Drop(<<s, k>>)
<1>1. e.at = <<s, k>> /\ e.put = FALSE
  BY DropIs
<1> HIDE DEF e
<1>2. EditOk(e) /\ e.at[1] = s /\ e.at[2] = k /\ Len(e.at) = 2
  BY <1>1 DEF EditOk
<1>3. ASSUME NEW g, IsSettings(g) PROVE Agree(Edited(g, e), m, s, k)
  <2>1. Edited(g, e)[s] = Changed(g[s], k, e)
    BY <1>2, <1>3, EditedIs DEF NewSection
  <2>2. QED BY <1>1, <2>1, ChangedIs DEF Agree
<1>4. QED BY <1>2, <1>3 DEF Leads, Reaches, e

\* A tool taken out of its group.
LEMMA DropToolLeads ==
  ASSUME NEW f, IsSettings(f), NEW m, IsSettings(m), NEW app, NEW tool,
         app \in DOMAIN f.commands, app \in DOMAIN m.commands,
         m.commands[app] = Without(f.commands[app], tool)
  PROVE  Leads(Drop(<<"commands", app, tool>>), f, m)
<1> DEFINE e == Drop(<<"commands", app, tool>>)
<1>1. e.at = <<"commands", app, tool>> /\ e.put = FALSE
  BY DropIs
<1> HIDE DEF e
<1>2. EditOk(e) /\ e.at[1] = "commands" /\ e.at[2] = app /\ e.at[3] = tool /\ Len(e.at) = 3
  BY <1>1 DEF EditOk, Sections
<1>3. ASSUME NEW g, IsSettings(g), app \in DOMAIN g.commands, Without(g.commands[app], tool) = m.commands[app]
      PROVE  Agree(Edited(g, e), m, "commands", app)
  <2>1. EntryAt(g, e) = g.commands[app]
    BY <1>2, <1>3 DEF EntryAt
  <2>2. Changed(EntryAt(g, e), tool, e) = m.commands[app]
    BY <1>1, <1>3, <2>1 DEF Changed
  <2>3. Edited(g, e)["commands"] = Having(g.commands, app, m.commands[app])
    BY <1>2, <1>3, <2>2, EditedIs DEF NewSection
  <2>4. QED BY <2>3, HavingIs DEF Agree
<1>4. Without(Without(f.commands[app], tool), tool) = Without(f.commands[app], tool)
  BY DEF Without
<1>5. QED BY <1>2, <1>3, <1>4 DEF Leads, Reaches, e

-----------------------------------------------------------------------------
(* The edits of a sequence, and what the edits of links come to. *)

Among(e, edits) == \E i \in 1..Len(edits) : edits[i] = e
IsObject(object) == IsFiniteSet(DOMAIN object) /\ object = [k \in DOMAIN object |-> object[k]]

LEMMA ByEdits ==
  ASSUME NEW edits, NEW f, NEW m
  PROVE  LeadTo(edits, f, m) <=> \A e : Among(e, edits) => Leads(e, f, m)
BY DEF LeadTo, Among

LEMMA TouchedBy ==
  ASSUME NEW edits, NEW s, NEW k
  PROVE  Touches(edits, s, k) <=> \E e : Among(e, edits) /\ e.at[1] = s /\ e.at[2] = k
BY DEF Touches, Among

LEMMA PutTouches ==
  ASSUME NEW edits, NEW s, NEW k, NEW v, Among(Put(<<s, k>>, v), edits)
  PROVE  Touches(edits, s, k)
<1> DEFINE e == Put(<<s, k>>, v)
<1>1. e.at = <<s, k>>
  BY PutIs
<1> HIDE DEF e
<1>2. e.at[1] = s /\ e.at[2] = k
  BY <1>1
<1>3. QED BY <1>2, TouchedBy DEF e

LEMMA DropTouches ==
  ASSUME NEW edits, NEW s, NEW k, Among(Drop(<<s, k>>), edits)
  PROVE  Touches(edits, s, k)
<1> DEFINE e == Drop(<<s, k>>)
<1>1. e.at = <<s, k>>
  BY DropIs
<1> HIDE DEF e
<1>2. e.at[1] = s /\ e.at[2] = k
  BY <1>1
<1>3. QED BY <1>2, TouchedBy DEF e

LEMMA AmongNone ==
  /\ IsSequence(<< >>)
  /\ \A e : ~Among(e, << >>)
<1>1. << >> \in Seq({})
  OBVIOUS
<1>2. QED BY <1>1 DEF IsSequence, Among

LEMMA AmongOne ==
  ASSUME NEW d
  PROVE  IsSequence(<<d>>) /\ \A e : Among(e, <<d>>) <=> e = d
<1>1. <<d>> \in Seq({d}) /\ Len(<<d>>) = 1 /\ <<d>>[1] = d
  OBVIOUS
<1>2. 1..1 = {1}
  OBVIOUS
<1>3. QED BY <1>1, <1>2 DEF IsSequence, Among

LEMMA AmongTwo ==
  ASSUME NEW c, NEW d
  PROVE  IsSequence(<<c, d>>) /\ \A e : Among(e, <<c, d>>) <=> e = c \/ e = d
<1>1. <<c, d>> \in Seq({c, d}) /\ Len(<<c, d>>) = 2 /\ <<c, d>>[1] = c /\ <<c, d>>[2] = d
  OBVIOUS
<1>2. 1..2 = {1, 2}
  OBVIOUS
<1>3. QED BY <1>1, <1>2 DEF IsSequence, Among

LEMMA AmongSet ==
  ASSUME NEW S, IsFiniteSet(S)
  PROVE  IsSequence(SetToSeq(S)) /\ \A e : Among(e, SetToSeq(S)) <=> e \in S
BY ListedOnce DEF IsSequence, Among

LEMMA AmongBoth ==
  ASSUME NEW t, NEW u, IsSequence(t), IsSequence(u)
  PROVE  IsSequence(t \o u) /\ \A e : Among(e, t \o u) <=> Among(e, t) \/ Among(e, u)
<1>1. PICK S : t \in Seq(S)
  BY DEF IsSequence
<1>2. PICK R : u \in Seq(R)
  BY DEF IsSequence
<1>3. t \in Seq(S \cup R) /\ u \in Seq(S \cup R)
  BY <1>1, <1>2, SeqMonotonic
<1>4. /\ t \o u \in Seq(S \cup R) /\ Len(t \o u) = Len(t) + Len(u)
      /\ \A i \in 1..Len(t) + Len(u) : (t \o u)[i] = IF i <= Len(t) THEN t[i] ELSE u[i - Len(t)]
  BY <1>3
<1>5. Len(t) \in Nat /\ Len(u) \in Nat
  BY <1>1, <1>2
<1>6. ASSUME NEW e, Among(e, t \o u) PROVE Among(e, t) \/ Among(e, u)
  <2>1. PICK i \in 1..Len(t) + Len(u) : (t \o u)[i] = e
    BY <1>4, <1>6 DEF Among
  <2>2. CASE i <= Len(t)
    BY <1>4, <1>5, <2>1, <2>2 DEF Among
  <2>3. CASE ~(i <= Len(t))
    <3>1. i - Len(t) \in 1..Len(u) /\ u[i - Len(t)] = e
      BY <1>4, <1>5, <2>1, <2>3
    <3>2. QED BY <3>1 DEF Among
  <2>4. QED BY <2>2, <2>3
<1>7. ASSUME NEW e, Among(e, t) PROVE Among(e, t \o u)
  <2>1. PICK i \in 1..Len(t) : t[i] = e
    BY <1>7 DEF Among
  <2>2. i \in 1..Len(t \o u) /\ (t \o u)[i] = e
    BY <1>4, <1>5, <2>1
  <2>3. QED BY <2>2 DEF Among
<1>8. ASSUME NEW e, Among(e, u) PROVE Among(e, t \o u)
  <2>1. PICK i \in 1..Len(u) : u[i] = e
    BY <1>8 DEF Among
  <2>2. i + Len(t) \in 1..Len(t \o u) /\ (t \o u)[i + Len(t)] = e
    BY <1>4, <1>5, <2>1
  <2>3. QED BY <2>2 DEF Among
<1>9. QED BY <1>4, <1>6, <1>7, <1>8 DEF IsSequence

LEMMA ImageIsFinite ==
  ASSUME NEW S, IsFiniteSet(S), NEW g
  PROVE  IsFiniteSet({g[x] : x \in S})
<1> DEFINE T == {g[x] : x \in S}
           h == [x \in S |-> g[x]]
<1>1. h \in Surjection(S, T)
  BY DEF Surjection
<1>2. QED BY <1>1, FS_Surjection

\* A link's list with the app put in or taken out.
Corrected(links, app, wanted, l) == (links[l] \ {app}) \cup (IF l \in wanted THEN {app} ELSE {})

EditsOfLinks(links, app, wanted, edits) ==
    \A e : Among(e, edits) <=>
        \/ \E l \in DOMAIN links : /\ links[l] # All
                                  /\ ~(app \in links[l] <=> l \in wanted)
                                  /\ e = Put(<<"links", l>>, Corrected(links, app, wanted, l))
        \/ \E l \in wanted \ DOMAIN links : e = Put(<<"links", l>>, {app})

LEMMA LinkEditsAre ==
  ASSUME NEW f, IsSettings(f), NEW app, NEW wanted, IsFiniteSet(wanted)
  PROVE  /\ IsSequence(LinkEdits(f, app, wanted))
         /\ EditsOfLinks(f.links, app, wanted, LinkEdits(f, app, wanted))
<1> DEFINE Wrong == {l \in Explicit(f) : ~(app \in f.links[l] <=> l \in wanted)}
           g == [l \in Wrong |-> Put(<<"links", l>>, Corrected(f.links, app, wanted, l))]
           h == [l \in wanted \ DOMAIN f.links |-> Put(<<"links", l>>, {app})]
           A == {g[l] : l \in Wrong}
           B == {h[l] : l \in wanted \ DOMAIN f.links}
<1>1. IsFiniteSet(DOMAIN f.links)
  BY DEF IsSettings, Sections
<1>2. IsFiniteSet(Wrong) /\ IsFiniteSet(wanted \ DOMAIN f.links)
  <2>1. Wrong \subseteq DOMAIN f.links /\ wanted \ DOMAIN f.links \subseteq wanted
    BY DEF Explicit
  <2>2. QED BY <1>1, <2>1, FS_Subset
<1>3. IsFiniteSet(A) /\ IsFiniteSet(B)
  <2> HIDE DEF g, h, Wrong
  <2>1. QED BY <1>2, ImageIsFinite
<1>4. LinkEdits(f, app, wanted) = SetToSeq(A) \o SetToSeq(B)
  <2>1. A = {Put(<<"links", l>>, Corrected(f.links, app, wanted, l)) : l \in Wrong}
    OBVIOUS
  <2>2. B = {Put(<<"links", l>>, {app}) : l \in wanted \ DOMAIN f.links}
    OBVIOUS
  <2> HIDE DEF A, B
  <2>3. QED BY <2>1, <2>2, Zenon DEF LinkEdits, Corrected
<1>5. /\ IsSequence(LinkEdits(f, app, wanted))
      /\ \A e : Among(e, LinkEdits(f, app, wanted)) <=> e \in A \/ e \in B
  <2> HIDE DEF A, B
  <2>1. QED BY <1>3, <1>4, AmongSet, AmongBoth
<1>6. ASSUME NEW e
      PROVE  /\ e \in A <=> \E l \in DOMAIN f.links :
                    /\ f.links[l] # All
                    /\ ~(app \in f.links[l] <=> l \in wanted)
                    /\ e = Put(<<"links", l>>, Corrected(f.links, app, wanted, l))
             /\ e \in B <=> \E l \in wanted \ DOMAIN f.links : e = Put(<<"links", l>>, {app})
  BY DEF Explicit
<1> HIDE DEF A, B
<1>7. QED BY <1>5, <1>6 DEF EditsOfLinks

PlacedAs(links, app, wanted, disk) ==
    /\ DOMAIN disk = DOMAIN links \cup wanted
    /\ \A l \in DOMAIN links :
        /\ links[l] = All => disk[l] = All
        /\ links[l] # All => disk[l] = Corrected(links, app, wanted, l)
    /\ \A l \in wanted \ DOMAIN links : disk[l] = {app}

LEMMA PlacedIs ==
  ASSUME NEW links, IsObject(links), NEW app, NEW wanted, IsFiniteSet(wanted)
  PROVE  /\ IsObject(Placed(links, app, wanted))
         /\ PlacedAs(links, app, wanted, Placed(links, app, wanted))
<1>1. IsFiniteSet(DOMAIN links \cup wanted)
  BY FS_Union DEF IsObject
<1> DEFINE disk == Placed(links, app, wanted)
<1>2. IsObject(disk)
  BY <1>1 DEF Placed, IsObject
<1>3. /\ DOMAIN disk = DOMAIN links \cup wanted
      /\ \A l \in wanted \ DOMAIN links : disk[l] = {app}
  BY DEF Placed
<1>4. ASSUME NEW l \in DOMAIN links
      PROVE  /\ links[l] = All => disk[l] = All
             /\ links[l] # All => disk[l] = Corrected(links, app, wanted, l)
  BY DEF Placed, Corrected
<1>5. QED BY <1>2, <1>3, <1>4 DEF PlacedAs

\* The edits of the links of one app, from links as they were.
LEMMA LinksLead ==
  ASSUME NEW f, IsSettings(f), NEW m, IsSettings(m), NEW new, IsSettings(new), new.links = f.links,
         NEW app, NEW wanted, IsFiniteSet(wanted), m.links = Placed(f.links, app, wanted)
  PROVE  /\ IsSequence(LinkEdits(new, app, wanted))
         /\ LeadTo(LinkEdits(new, app, wanted), f, m)
         /\ Rest(f, m, LinkEdits(new, app, wanted), "links")
<1> DEFINE T == LinkEdits(new, app, wanted)
<1>1. IsObject(f.links) /\ "links" \in Sections
  BY DEF IsObject, IsSettings, Sections
<1>2. PlacedAs(f.links, app, wanted, m.links)
  BY <1>1, PlacedIs
<1>3. IsSequence(T) /\ EditsOfLinks(f.links, app, wanted, T)
  BY LinkEditsAre
<1> HIDE DEF T
<1>4. ASSUME NEW e, Among(e, T) PROVE Leads(e, f, m)
  <2>1. ASSUME NEW l \in DOMAIN f.links, f.links[l] # All,
               e = Put(<<"links", l>>, Corrected(f.links, app, wanted, l))
        PROVE  Leads(e, f, m)
    <3>1. l \in DOMAIN m.links /\ m.links[l] = Corrected(f.links, app, wanted, l)
      BY <1>2, <2>1 DEF PlacedAs
    <3>2. QED BY <1>1, <2>1, <3>1, PutLeads
  <2>2. ASSUME NEW l \in wanted \ DOMAIN f.links, e = Put(<<"links", l>>, {app})
        PROVE  Leads(e, f, m)
    <3>1. l \in DOMAIN m.links /\ m.links[l] = {app}
      BY <1>2 DEF PlacedAs
    <3>2. QED BY <1>1, <2>2, <3>1, PutLeads
  <2>3. QED BY <1>3, <1>4, <2>1, <2>2 DEF EditsOfLinks
<1>5. ASSUME NEW l PROVE Touches(T, "links", l) \/ Agree(f, m, "links", l)
  <2>1. CASE l \in DOMAIN f.links /\ f.links[l] # All /\ ~(app \in f.links[l] <=> l \in wanted)
    <3>1. Among(Put(<<"links", l>>, Corrected(f.links, app, wanted, l)), T)
      BY <1>3, <2>1 DEF EditsOfLinks
    <3>2. QED BY <3>1, PutTouches
  <2>2. CASE l \in DOMAIN f.links /\ f.links[l] # All /\ (app \in f.links[l] <=> l \in wanted)
    <3>1. Corrected(f.links, app, wanted, l) = f.links[l]
      BY <2>2 DEF Corrected
    <3>2. QED BY <1>2, <2>2, <3>1 DEF PlacedAs, Agree
  <2>3. CASE l \in DOMAIN f.links /\ f.links[l] = All
    BY <1>2, <2>3 DEF PlacedAs, Agree
  <2>4. CASE l \in wanted \ DOMAIN f.links
    <3>1. Among(Put(<<"links", l>>, {app}), T)
      BY <1>3, <2>4 DEF EditsOfLinks
    <3>2. QED BY <3>1, PutTouches
  <2>5. CASE l \notin wanted \cup DOMAIN f.links
    BY <1>2, <2>5 DEF PlacedAs, Agree
  <2>6. QED BY <2>1, <2>2, <2>3, <2>4, <2>5
<1>6. QED BY <1>3, <1>4, <1>5, ByEdits DEF T, Rest

-----------------------------------------------------------------------------
(* What the two parts of an action come to, action by action. *)

FirstPart(f, j, m, edits) ==
    /\ IsSettings(m)
    /\ IsSequence(edits)
    /\ LeadTo(edits, f, m)
    /\ \A s \in Sections : (HasMore(f, j) /\ s = Second(j)) \/ Rest(f, m, edits, s)
    /\ HasMore(f, j) => \A e : Among(e, edits) => e.at[1] # Second(j)

SecondPart(f, j, m, edits) ==
    /\ IsSequence(edits)
    /\ LeadTo(edits, f, m)
    /\ Rest(f, m, edits, Second(j))

LEMMA ObjectsMakeSettings ==
  ASSUME NEW m, DOMAIN m = Sections, m = [s \in Sections |-> m[s]],
         IsObject(m.mcp), IsObject(m.commands), IsObject(m.tools), IsObject(m.links)
  PROVE  IsSettings(m)
BY DEF IsObject, IsSettings, Sections

LEMMA SettingsAreObjects ==
  ASSUME NEW f, IsSettings(f)
  PROVE  /\ DOMAIN f = Sections /\ f = [s \in Sections |-> f[s]]
         /\ IsObject(f.mcp) /\ IsObject(f.commands) /\ IsObject(f.tools) /\ IsObject(f.links)
BY DEF IsObject, IsSettings, Sections

LEMMA ObjectsChange ==
  ASSUME NEW object, IsObject(object), NEW key, NEW value
  PROVE  IsObject(Having(object, key, value)) /\ IsObject(Without(object, key))
BY HavingIs, WithoutIs DEF IsObject

LEMMA SectionStays ==
  ASSUME NEW f, NEW m, NEW s, m[s] = f[s], NEW edits
  PROVE  Rest(f, m, edits, s)
BY DEF Rest, Agree

LEMMA EditsAreOk ==
  ASSUME NEW s \in Sections, NEW k, NEW t, NEW v
  PROVE  /\ EditOk(Put(<<s, k>>, v)) /\ EditOk(Put(<<s, k, t>>, v))
         /\ EditOk(Drop(<<s, k>>)) /\ EditOk(Drop(<<s, k, t>>))
<1>1. /\ Put(<<s, k>>, v).at = <<s, k>> /\ Put(<<s, k, t>>, v).at = <<s, k, t>>
      /\ Drop(<<s, k>>).at = <<s, k>> /\ Drop(<<s, k, t>>).at = <<s, k, t>>
  BY DEF Put, Drop
<1>2. QED BY <1>1 DEF EditOk

\* An action of one edit.
LEMMA OneEdit ==
  ASSUME NEW f, IsSettings(f), NEW j, ~HasMore(f, j), NEW e, EditOk(e)
  PROVE  FirstPart(f, j, Edited(f, e), <<e>>)
<1>1. IsSettings(Edited(f, e))
  BY EditedIsSettings
<1>2. LeadTo(<<e>>, f, Edited(f, e)) /\ IsSequence(<<e>>)
  BY AmongOne, ByEdits, OnlyEditLeads
<1>3. ASSUME NEW s \in Sections PROVE Rest(f, Edited(f, e), <<e>>, s)
  <2>1. ASSUME NEW k, ~Touches(<<e>>, s, k) PROVE Agree(f, Edited(f, e), s, k)
    <3>1. s # e.at[1] \/ k # e.at[2]
      BY <2>1, AmongOne, TouchedBy
    <3>2. QED BY <3>1, EditedElsewhere, AgreeIsEqual
  <2>2. QED BY <2>1 DEF Rest
<1>4. QED BY <1>1, <1>2, <1>3 DEF FirstPart

\* An action of none.
LEMMA NoEdit ==
  ASSUME NEW f, IsSettings(f), NEW j, ~HasMore(f, j)
  PROVE  FirstPart(f, j, f, << >>)
<1>1. IsSequence(<< >>) /\ LeadTo(<< >>, f, f)
  BY AmongNone, ByEdits
<1>2. QED BY <1>1, SectionStays DEF FirstPart

AddedTo(f, app, run, wanted) ==
    [f EXCEPT !.commands = Having(@, app, run), !.links = Placed(@, app, wanted)]

LEMMA AddIsSettings ==
  ASSUME NEW f, IsSettings(f), NEW app, NEW run, NEW wanted, IsFiniteSet(wanted)
  PROVE  LET m == AddedTo(f, app, run, wanted)
         IN /\ IsSettings(m)
            /\ m.commands = Having(f.commands, app, run)
            /\ m.links = Placed(f.links, app, wanted)
            /\ m.mcp = f.mcp /\ m.tools = f.tools
<1> DEFINE m == AddedTo(f, app, run, wanted)
<1>1. DOMAIN f = Sections /\ f = [s \in Sections |-> f[s]]
      /\ IsObject(f.mcp) /\ IsObject(f.commands) /\ IsObject(f.tools) /\ IsObject(f.links)
  BY SettingsAreObjects
<1>2. /\ m.commands = Having(f.commands, app, run)
      /\ m.links = Placed(f.links, app, wanted)
      /\ m.mcp = f.mcp /\ m.tools = f.tools
      /\ DOMAIN m = Sections /\ m = [s \in Sections |-> m[s]]
  BY <1>1 DEF AddedTo, Sections
<1>3. IsObject(m.commands) /\ IsObject(m.links)
  BY <1>1, <1>2, ObjectsChange, PlacedIs
<1> HIDE DEF m
<1>4. IsSettings(m)
  BY <1>1, <1>2, <1>3, ObjectsMakeSettings
<1>5. QED BY <1>2, <1>4 DEF m

LEMMA AddParts ==
  ASSUME NEW f, IsSettings(f), NEW j \in Jobs, j.act = "add"
  PROVE  /\ FirstPart(f, j, Meaning(f, j), FirstEdits(f, j))
         /\ \A new : IsSettings(new) /\ new.links = f.links =>
                SecondPart(f, j, Meaning(f, j), MoreEdits(f, new, j))
<1> DEFINE m == Meaning(f, j)
           e == CommandEdit(j.app, j.run)
<1>1. IsFiniteSet(j.wanted)
  BY ActsAssumption
<1>2. FirstEdits(f, j) = <<e>> /\ HasMore(f, j) /\ Second(j) = "links"
  BY DEF FirstEdits, HasMore, Second
<1>3. m = AddedTo(f, j.app, Text(j.run), j.wanted)
  BY DEF Meaning, AddedTo
<1>4. /\ IsSettings(m)
      /\ m.commands = Having(f.commands, j.app, Text(j.run))
      /\ m.links = Placed(f.links, j.app, j.wanted)
      /\ m.mcp = f.mcp /\ m.tools = f.tools
  BY <1>1, <1>3, AddIsSettings
<1>5. e = Put(<<"commands", j.app>>, Text(j.run))
  BY DEF CommandEdit
<1>6. ASSUME NEW new, IsSettings(new), new.links = f.links PROVE SecondPart(f, j, m, MoreEdits(f, new, j))
  <2>1. MoreEdits(f, new, j) = LinkEdits(new, j.app, j.wanted)
    BY DEF MoreEdits
  <2> HIDE DEF m
  <2>2. QED BY <1>1, <1>2, <1>4, <1>6, <2>1, LinksLead DEF SecondPart
<1> HIDE DEF m
<1>7. Leads(e, f, m)
  <2>1. j.app \in DOMAIN m.commands /\ m.commands[j.app] = Text(j.run)
    BY <1>4, HavingIs
  <2>2. QED BY <1>4, <1>5, <2>1, PutLeads DEF Sections
<1>8. Touches(<<e>>, "commands", j.app)
  BY <1>5, AmongOne, PutTouches
<1>9. ASSUME NEW s \in Sections, s # "links" PROVE Rest(f, m, <<e>>, s)
  <2>1. CASE s = "commands"
    BY <1>4, <1>8, <2>1, HavingIs DEF Rest, Agree
  <2>2. CASE s # "commands"
    BY <1>4, <1>9, <2>2, SectionStays DEF Sections
  <2>3. QED BY <2>1, <2>2
<1>10. e.at[1] # "links"
  BY <1>5 DEF Put
<1> HIDE DEF e
<1>11. QED BY <1>2, <1>4, <1>6, <1>7, <1>9, <1>10, AmongOne, ByEdits DEF FirstPart, m

LEMMA ShareParts ==
  ASSUME NEW f, IsSettings(f), NEW j \in Jobs, j.act = "share"
  PROVE  /\ FirstPart(f, j, Meaning(f, j), FirstEdits(f, j))
         /\ \A new : SecondPart(f, j, Meaning(f, j), MoreEdits(f, new, j))
<1> DEFINE m == Meaning(f, j)
           e == ServerEdit(j.app, j.run)
           g == [rule \in j.off |-> Put(<<"tools", rule>>, "no")]
           A == {g[rule] : rule \in j.off}
           off == [rule \in DOMAIN f.tools \cup j.off |-> IF rule \in j.off THEN "no" ELSE f.tools[rule]]
<1>1. IsFiniteSet(j.off)
  BY ActsAssumption
<1>2. FirstEdits(f, j) = <<e>> /\ HasMore(f, j) /\ Second(j) = "tools"
  BY DEF FirstEdits, HasMore, Second
<1>3. m = [f EXCEPT !.mcp = Having(@, j.app, [command |-> j.run]), !.tools = off]
  BY DEF Meaning
<1>4. DOMAIN f = Sections /\ f = [s \in Sections |-> f[s]]
      /\ IsObject(f.mcp) /\ IsObject(f.commands) /\ IsObject(f.tools) /\ IsObject(f.links)
  BY SettingsAreObjects
<1>5. IsObject(off)
  <2>1. IsFiniteSet(DOMAIN f.tools \cup j.off)
    BY <1>1, <1>4, FS_Union DEF IsObject
  <2>2. QED BY <2>1 DEF IsObject
<1>6. /\ m.mcp = Having(f.mcp, j.app, [command |-> j.run])
      /\ m.tools = off
      /\ m.commands = f.commands /\ m.links = f.links
      /\ DOMAIN m = Sections /\ m = [s \in Sections |-> m[s]]
  <2> HIDE DEF off
  <2>1. QED BY <1>3, <1>4 DEF Sections
<1>7. IsSettings(m)
  <2>1. IsObject(m.mcp)
    BY <1>4, <1>6, ObjectsChange
  <2> HIDE DEF m, off
  <2>2. QED BY <1>4, <1>5, <1>6, <2>1, ObjectsMakeSettings
<1>8. e = Put(<<"mcp", j.app>>, [command |-> j.run])
  BY DEF ServerEdit
<1>9. ASSUME NEW new PROVE SecondPart(f, j, m, MoreEdits(f, new, j))
  <2> DEFINE T == MoreEdits(f, new, j)
  <2>1. T = SetToSeq(A)
    <3>1. A = {RuleEdit(rule, FALSE) : rule \in j.off}
      BY DEF RuleEdit
    <3> HIDE DEF A
    <3>2. T = ToolsOff(j.off)
      BY DEF MoreEdits
    <3>3. QED BY <3>1, <3>2, Zenon DEF ToolsOff
  <2>2. IsSequence(T) /\ \A d : Among(d, T) <=> d \in A
    <3>1. IsFiniteSet(A)
      <4> HIDE DEF g
      <4>1. QED BY <1>1, ImageIsFinite
    <3> HIDE DEF A, T
    <3>2. QED BY <2>1, <3>1, AmongSet
  <2> HIDE DEF T, m
  <2>3. ASSUME NEW d, Among(d, T) PROVE Leads(d, f, m)
    <3>1. PICK rule \in j.off : d = Put(<<"tools", rule>>, "no")
      BY <2>2, <2>3
    <3>2. rule \in DOMAIN m.tools /\ m.tools[rule] = "no"
      BY <1>6
    <3>3. QED BY <1>7, <3>1, <3>2, PutLeads DEF Sections
  <2>4. ASSUME NEW k PROVE Touches(T, "tools", k) \/ Agree(f, m, "tools", k)
    <3>1. CASE k \in j.off
      <4>1. Among(Put(<<"tools", k>>, "no"), T)
        BY <2>2, <3>1
      <4>2. QED BY <4>1, PutTouches
    <3>2. CASE k \notin j.off
      BY <1>6, <3>2 DEF Agree
    <3>3. QED BY <3>1, <3>2
  <2>5. QED BY <1>2, <2>2, <2>3, <2>4, ByEdits DEF SecondPart, Rest, T
<1> HIDE DEF m
<1>10. Leads(e, f, m)
  <2> DEFINE server == [command |-> j.run]
  <2> HIDE DEF server
  <2>1. j.app \in DOMAIN m.mcp /\ m.mcp[j.app] = server
    BY <1>6, HavingIs DEF server
  <2>2. e = Put(<<"mcp", j.app>>, server)
    BY <1>8 DEF server
  <2>3. QED BY <1>7, <2>1, <2>2, PutLeads DEF Sections
<1>11. Touches(<<e>>, "mcp", j.app)
  BY <1>8, AmongOne, PutTouches
<1>12. ASSUME NEW s \in Sections, s # "tools" PROVE Rest(f, m, <<e>>, s)
  <2>1. CASE s = "mcp"
    <3>1. ASSUME NEW k, k # j.app PROVE Agree(f, m, "mcp", k)
      BY <1>6, <3>1, HavingIs DEF Agree
    <3>2. QED BY <1>11, <2>1, <3>1 DEF Rest
  <2>2. CASE s # "mcp"
    BY <1>6, <1>12, <2>2, SectionStays DEF Sections
  <2>3. QED BY <2>1, <2>2
<1>13. e.at[1] # "tools"
  BY <1>8 DEF Put
<1> HIDE DEF e
<1>14. QED BY <1>2, <1>7, <1>9, <1>10, <1>12, <1>13, AmongOne, ByEdits DEF FirstPart, m

LEMMA LinksPart ==
  ASSUME NEW f, IsSettings(f), NEW j \in Jobs, j.act = "links"
  PROVE  ~HasMore(f, j) /\ FirstPart(f, j, Meaning(f, j), FirstEdits(f, j))
<1> DEFINE m == Meaning(f, j)
<1>1. IsFiniteSet(j.wanted)
  BY ActsAssumption
<1>2. FirstEdits(f, j) = LinkEdits(f, j.app, j.wanted) /\ ~HasMore(f, j)
  BY DEF FirstEdits, HasMore
<1>3. m = [f EXCEPT !.links = Placed(@, j.app, j.wanted)]
  BY DEF Meaning
<1>4. DOMAIN f = Sections /\ f = [s \in Sections |-> f[s]]
      /\ IsObject(f.mcp) /\ IsObject(f.commands) /\ IsObject(f.tools) /\ IsObject(f.links)
  BY SettingsAreObjects
<1>5. /\ m.links = Placed(f.links, j.app, j.wanted)
      /\ m.mcp = f.mcp /\ m.tools = f.tools /\ m.commands = f.commands
      /\ DOMAIN m = Sections /\ m = [s \in Sections |-> m[s]]
  BY <1>3, <1>4 DEF Sections
<1>6. IsSettings(m)
  <2>1. IsObject(m.links)
    BY <1>1, <1>4, <1>5, PlacedIs
  <2> HIDE DEF m
  <2>2. QED BY <1>4, <1>5, <2>1, ObjectsMakeSettings
<1> HIDE DEF m
<1>7. /\ IsSequence(FirstEdits(f, j)) /\ LeadTo(FirstEdits(f, j), f, m)
      /\ Rest(f, m, FirstEdits(f, j), "links")
  BY <1>1, <1>2, <1>5, <1>6, LinksLead
<1>8. ASSUME NEW s \in Sections PROVE Rest(f, m, FirstEdits(f, j), s)
  BY <1>5, <1>7, SectionStays DEF Sections
<1>9. QED BY <1>2, <1>6, <1>7, <1>8 DEF FirstPart, m

LEMMA RemoveParts ==
  ASSUME NEW f, IsSettings(f), NEW j, ~HasMore(f, j), NEW app, app # "*"
  PROVE  FirstPart(f, j, Removed(f, app), RemoveEdits(f, app))
<1> DEFINE m == Removed(f, app)
           at == IF app \in DOMAIN f.commands THEN "commands" ELSE "mcp"
           e == Drop(<<at, app>>)
           On == {l \in Explicit(f) : app \in f.links[l]}
           g == [l \in On |-> Put(<<"links", l>>, f.links[l] \ {app})]
           A == {g[l] : l \in On}
           T == RemoveEdits(f, app)
           links == [l \in DOMAIN f.links |-> f.links[l] \ {app}]
<1>1. DOMAIN f = Sections /\ f = [s \in Sections |-> f[s]]
      /\ IsObject(f.mcp) /\ IsObject(f.commands) /\ IsObject(f.tools) /\ IsObject(f.links)
  BY SettingsAreObjects
<1>2. T = <<e>> \o SetToSeq(A)
  <2>1. A = {Put(<<"links", l>>, f.links[l] \ {app}) : l \in On}
    OBVIOUS
  <2> HIDE DEF A
  <2>2. QED BY <2>1, Zenon DEF RemoveEdits
<1>3. IsSequence(T) /\ \A d : Among(d, T) <=> d = e \/ d \in A
  <2>1. IsFiniteSet(On)
    BY <1>1, FS_Subset DEF IsObject, Explicit
  <2>2. IsFiniteSet(A)
    <3> HIDE DEF g, On
    <3>1. QED BY <2>1, ImageIsFinite
  <2> HIDE DEF A, T, e
  <2>3. QED BY <1>2, <2>2, AmongOne, AmongSet, AmongBoth
<1>4. /\ m.commands = Without(f.commands, app)
      /\ m.mcp = IF app \in DOMAIN f.commands THEN f.mcp ELSE Without(f.mcp, app)
      /\ m.links = links
      /\ m.tools = f.tools
      /\ DOMAIN m = Sections /\ m = [s \in Sections |-> m[s]]
  BY <1>1 DEF Removed, Sections
<1>5. IsSettings(m)
  <2>1. IsObject(m.commands) /\ IsObject(m.mcp)
    BY <1>1, <1>4, ObjectsChange
  <2>2. IsObject(links)
    BY <1>1 DEF IsObject
  <2> HIDE DEF m, links
  <2>3. QED BY <1>1, <1>4, <2>1, <2>2, ObjectsMakeSettings
<1> HIDE DEF m, T
<1>6. Leads(e, f, m)
  <2>1. at \in Sections
    BY DEF Sections
  <2>2. app \notin DOMAIN m[at]
    BY <1>4, WithoutIs
  <2> HIDE DEF at
  <2>3. QED BY <1>5, <2>1, <2>2, DropLeads
<1>7. Touches(T, at, app)
  <2> HIDE DEF at
  <2>1. QED BY <1>3, DropTouches
<1>8. ASSUME NEW d \in A PROVE Leads(d, f, m)
  <2>1. PICK l \in On : d = Put(<<"links", l>>, f.links[l] \ {app})
    OBVIOUS
  <2>2. l \in DOMAIN m.links /\ m.links[l] = f.links[l] \ {app}
    BY <1>4, <2>1 DEF Explicit
  <2>3. QED BY <1>5, <2>1, <2>2, PutLeads DEF Sections
<1>9. ASSUME NEW l PROVE Touches(T, "links", l) \/ Agree(f, m, "links", l)
  <2>1. CASE l \in On
    <3>1. Put(<<"links", l>>, f.links[l] \ {app}) \in A
      BY <2>1
    <3>2. QED BY <1>3, <3>1, PutTouches
  <2>2. CASE l \in DOMAIN f.links /\ app \notin f.links[l]
    <3>1. f.links[l] \ {app} = f.links[l]
      BY <2>2
    <3>2. QED BY <1>4, <2>2, <3>1 DEF Agree
  <2>3. CASE l \in DOMAIN f.links /\ f.links[l] = All
    <3>1. f.links[l] \ {app} = f.links[l]
      BY <2>3 DEF All
    <3>2. QED BY <1>4, <2>3, <3>1 DEF Agree
  <2>4. CASE l \notin DOMAIN f.links
    BY <1>4, <2>4 DEF Agree
  <2>5. QED BY <2>1, <2>2, <2>3, <2>4 DEF Explicit
<1>10. ASSUME NEW s \in Sections PROVE Rest(f, m, T, s)
  <2>1. CASE s = "links"
    BY <1>9, <2>1 DEF Rest
  <2>2. CASE s = "tools"
    BY <1>4, <2>2, SectionStays
  <2>3. CASE s = "commands"
    <3>1. ASSUME NEW k, k # app \/ app \notin DOMAIN f.commands PROVE Agree(f, m, "commands", k)
      BY <1>4, <3>1, WithoutIs DEF Agree
    <3>2. QED BY <1>7, <2>3, <3>1 DEF Rest
  <2>4. CASE s = "mcp"
    <3>1. ASSUME NEW k, k # app \/ app \in DOMAIN f.commands PROVE Agree(f, m, "mcp", k)
      BY <1>4, <3>1, WithoutIs DEF Agree
    <3>2. QED BY <1>7, <2>4, <3>1 DEF Rest
  <2>5. QED BY <2>1, <2>2, <2>3, <2>4 DEF Sections
<1> HIDE DEF A, e
<1>11. QED BY <1>3, <1>5, <1>6, <1>8, <1>10, ByEdits DEF FirstPart, m, T

\* A split finds a name that no app has, so that it moves one tool.
LEMMA SplitIs ==
  ASSUME NEW f, IsSettings(f), NEW j \in Jobs, j.act = "split", ~Single(f.commands[j.app]), Accepted(f, j),
         NEW name, name = SplitName(f, j.tool), NEW m, m = Meaning(f, j)
  PROVE  /\ IsSettings(m)
         /\ j.app \in DOMAIN f.commands /\ name \notin DOMAIN f.commands
         /\ DOMAIN m.commands = DOMAIN f.commands \cup {name}
         /\ m.commands[name] = Standalone(f, j.app, j.tool)
         /\ m.commands[j.app] = Without(f.commands[j.app], j.tool)
         /\ \A n \in DOMAIN f.commands : n # j.app => m.commands[n] = f.commands[n]
         /\ IsFiniteSet(SplitLinks(f, j.app))
         /\ m.links = Placed(f.links, name, SplitLinks(f, j.app))
         /\ m.mcp = f.mcp /\ m.tools = f.tools
<1> DEFINE commands == [n \in DOMAIN f.commands \cup {name} |->
                            IF n = name THEN Standalone(f, j.app, j.tool)
                            ELSE IF n = j.app THEN Without(f.commands[n], j.tool) ELSE f.commands[n]]
<1>1. DOMAIN f = Sections /\ f = [s \in Sections |-> f[s]]
      /\ IsObject(f.mcp) /\ IsObject(f.commands) /\ IsObject(f.tools) /\ IsObject(f.links)
  BY SettingsAreObjects
<1>2. ToolAllowed(f, j) /\ FreeNames(f, j.tool) # {}
  BY DEF Accepted
<1>3. j.app \in DOMAIN f.commands /\ name \notin DOMAIN f.commands
  <2>1. SplitNames[j.tool] \in Seq(STRING)
    BY ActsAssumption
  <2>2. ~NameProblem(f, name)
    BY <1>2, <2>1, SplitNameIsFree
  <2>3. QED BY <1>2, <2>2 DEF ToolAllowed, NameProblem
<1>4. m = SplitUp(f, j.app, j.tool)
  BY DEF Meaning
<1>5. m = [f EXCEPT !.commands = commands, !.links = Placed(@, name, SplitLinks(f, j.app))]
  BY <1>4 DEF SplitUp
<1>6. IsFiniteSet(SplitLinks(f, j.app))
  <2>1. SplitLinks(f, j.app) \subseteq DOMAIN f.links
    BY DEF SplitLinks, Explicit
  <2>2. QED BY <1>1, <2>1, FS_Subset DEF IsObject
<1>7. IsObject(commands)
  <2>1. IsFiniteSet(DOMAIN f.commands \cup {name})
    BY <1>1, FS_AddElement DEF IsObject
  <2>2. QED BY <2>1 DEF IsObject
<1>8. /\ m.commands = commands
      /\ m.links = Placed(f.links, name, SplitLinks(f, j.app))
      /\ m.mcp = f.mcp /\ m.tools = f.tools
      /\ DOMAIN m = Sections /\ m = [s \in Sections |-> m[s]]
  <2> HIDE DEF commands
  <2>1. QED BY <1>1, <1>5 DEF Sections
<1>9. IsSettings(m)
  <2>1. IsObject(m.links)
    BY <1>1, <1>6, <1>8, PlacedIs
  <2> HIDE DEF commands
  <2>2. QED BY <1>1, <1>7, <1>8, <2>1, ObjectsMakeSettings
<1>10. QED BY <1>3, <1>6, <1>8, <1>9

LEMMA SplitParts ==
  ASSUME NEW f, IsSettings(f), NEW j \in Jobs, j.act = "split", ~Single(f.commands[j.app]), Accepted(f, j)
  PROVE  /\ FirstPart(f, j, Meaning(f, j), FirstEdits(f, j))
         /\ \A new : IsSettings(new) /\ new.links = f.links =>
                SecondPart(f, j, Meaning(f, j), MoreEdits(f, new, j))
<1> DEFINE m == Meaning(f, j)
           name == SplitName(f, j.tool)
           c == Put(<<"commands", name>>, Standalone(f, j.app, j.tool))
           d == Drop(<<"commands", j.app, j.tool>>)
           T == FirstEdits(f, j)
<1>1. /\ IsSettings(m)
      /\ j.app \in DOMAIN f.commands /\ name \notin DOMAIN f.commands
      /\ DOMAIN m.commands = DOMAIN f.commands \cup {name}
      /\ m.commands[name] = Standalone(f, j.app, j.tool)
      /\ m.commands[j.app] = Without(f.commands[j.app], j.tool)
      /\ \A n \in DOMAIN f.commands : n # j.app => m.commands[n] = f.commands[n]
      /\ IsFiniteSet(SplitLinks(f, j.app))
      /\ m.links = Placed(f.links, name, SplitLinks(f, j.app))
      /\ m.mcp = f.mcp /\ m.tools = f.tools
  BY SplitIs
<1>2. T = <<c, d>> /\ HasMore(f, j) /\ Second(j) = "links"
  BY DEF FirstEdits, SplitEdits, HasMore, Second
<1>3. ASSUME NEW new, IsSettings(new), new.links = f.links PROVE SecondPart(f, j, m, MoreEdits(f, new, j))
  <2>1. MoreEdits(f, new, j) = LinkEdits(new, name, SplitLinks(f, j.app))
    BY DEF MoreEdits
  <2> HIDE DEF m, name
  <2>2. QED BY <1>1, <1>2, <1>3, <2>1, LinksLead DEF SecondPart
<1>4. c.at = <<"commands", name>> /\ d.at = <<"commands", j.app, j.tool>>
  BY DEF Put, Drop
<1> HIDE DEF m, name, T
<1>5. Leads(c, f, m)
  BY <1>1, PutLeads DEF Sections
<1>6. Leads(d, f, m)
  BY <1>1, DropToolLeads
<1> HIDE DEF c, d
<1>7. IsSequence(T) /\ \A e : Among(e, T) <=> e = c \/ e = d
  BY <1>2, AmongTwo
<1>8. Touches(T, "commands", name) /\ Touches(T, "commands", j.app)
  BY <1>4, <1>7, TouchedBy
<1>9. ASSUME NEW s \in Sections, s # "links" PROVE Rest(f, m, T, s)
  <2>1. CASE s = "commands"
    <3>1. ASSUME NEW k, k # name, k # j.app PROVE Agree(f, m, "commands", k)
      BY <1>1, <3>1 DEF Agree
    <3>2. QED BY <1>8, <2>1, <3>1 DEF Rest
  <2>2. CASE s # "commands"
    BY <1>1, <1>9, <2>2, SectionStays DEF Sections
  <2>3. QED BY <2>1, <2>2
<1>10. \A e : Among(e, T) => e.at[1] # "links"
  BY <1>4, <1>7
<1>11. QED BY <1>1, <1>2, <1>3, <1>5, <1>6, <1>7, <1>9, <1>10, ByEdits DEF FirstPart, m, T

OneEditActs == {"split", "editTool", "removeTool", "allow", "enable", "rule", "members", "unlink"}

\* The first edit of such an action is all of it.
LEMMA SingleIsOneEdit ==
  ASSUME NEW f, IsSettings(f), NEW j \in Jobs, j.act \in OneEditActs,
         j.act = "split" => Single(f.commands[j.app]),
         j.act = "removeTool" => ~OneTool(f, j.app)
  PROVE  \/ FirstEdits(f, j) = << >> /\ Meaning(f, j) = f
         \/ \E e : EditOk(e) /\ FirstEdits(f, j) = <<e>> /\ Meaning(f, j) = Edited(f, e)
<1>1. Meaning(f, j) = IF FirstEdits(f, j) = << >> THEN f ELSE Edited(f, FirstEdits(f, j)[1])
  BY DEF Meaning, OneEditActs
<1>2. ASSUME NEW e, EditOk(e), FirstEdits(f, j) = <<e>>
      PROVE  \E d : EditOk(d) /\ FirstEdits(f, j) = <<d>> /\ Meaning(f, j) = Edited(f, d)
  <2>1. <<e>> # << >> /\ <<e>>[1] = e
    OBVIOUS
  <2>2. QED BY <1>1, <1>2, <2>1
<1>3. CASE j.act = "split"
  <2>1. FirstEdits(f, j) = << >>
    BY <1>3 DEF FirstEdits
  <2>2. QED BY <1>1, <2>1
<1>4. CASE j.act = "editTool"
  <2>1. FirstEdits(f, j) = <<EditToolEdit(f, j.app, j.tool, j.run)>>
    BY <1>4 DEF FirstEdits
  <2>2. EditOk(EditToolEdit(f, j.app, j.tool, j.run))
    BY EditsAreOk DEF EditToolEdit, Sections
  <2>3. QED BY <1>2, <2>1, <2>2
<1>5. CASE j.act = "removeTool"
  <2>1. FirstEdits(f, j) = <<Drop(<<"commands", j.app, j.tool>>)>>
    BY <1>5 DEF FirstEdits, RemoveToolEdits
  <2>2. EditOk(Drop(<<"commands", j.app, j.tool>>))
    BY EditsAreOk DEF Sections
  <2>3. QED BY <1>2, <2>1, <2>2
<1>6. CASE j.act = "allow"
  <2>1. FirstEdits(f, j) = <<AllowEdit(f, j.app)>>
    BY <1>6 DEF FirstEdits
  <2>2. EditOk(AllowEdit(f, j.app))
    BY EditsAreOk DEF AllowEdit, Sections
  <2>3. QED BY <1>2, <2>1, <2>2
<1>7. CASE j.act = "enable"
  <2>1. PICK e : FirstEdits(f, j) = <<e>> /\ e = EnableEdit(j.app, j.on)
    BY <1>7 DEF FirstEdits
  <2>2. EditOk(e)
    BY <2>1, EditsAreOk DEF EnableEdit, Sections
  <2>3. QED BY <1>2, <2>1, <2>2
<1>8. CASE j.act = "rule"
  <2>1. PICK e : FirstEdits(f, j) = <<e>> /\ e = RuleEdit(j.rule, j.on)
    BY <1>8 DEF FirstEdits
  <2>2. EditOk(e)
    BY <2>1, EditsAreOk DEF RuleEdit, Sections
  <2>3. QED BY <1>2, <2>1, <2>2
<1>9. CASE j.act = "members"
  <2>1. FirstEdits(f, j) = <<MembersEdit(j.link, j.apps)>>
    BY <1>9 DEF FirstEdits
  <2>2. EditOk(MembersEdit(j.link, j.apps))
    BY EditsAreOk DEF MembersEdit, Sections
  <2>3. QED BY <1>2, <2>1, <2>2
<1>10. CASE j.act = "unlink"
  <2>1. FirstEdits(f, j) = <<Drop(<<"links", j.link>>)>>
    BY <1>10 DEF FirstEdits
  <2>2. EditOk(Drop(<<"links", j.link>>))
    BY EditsAreOk DEF Sections
  <2>3. QED BY <1>2, <2>1, <2>2
<1>11. QED BY <1>3, <1>4, <1>5, <1>6, <1>7, <1>8, <1>9, <1>10 DEF OneEditActs

LEMMA SingleParts ==
  ASSUME NEW f, IsSettings(f), NEW j \in Jobs, j.act \in OneEditActs,
         j.act = "split" => Single(f.commands[j.app]),
         j.act = "removeTool" => ~OneTool(f, j.app)
  PROVE  ~HasMore(f, j) /\ FirstPart(f, j, Meaning(f, j), FirstEdits(f, j))
<1>1. ~HasMore(f, j)
  BY DEF HasMore, OneEditActs
<1>2. QED BY <1>1, SingleIsOneEdit, NoEdit, OneEdit

LEMMA RemovalParts ==
  ASSUME NEW f, IsSettings(f), NEW j \in Jobs,
         j.act = "remove" \/ (j.act = "removeTool" /\ OneTool(f, j.app))
  PROVE  ~HasMore(f, j) /\ FirstPart(f, j, Meaning(f, j), FirstEdits(f, j))
<1>1. ~HasMore(f, j) /\ j.app # "*"
  BY ActsAssumption DEF HasMore
<1>2. CASE j.act = "remove"
  <2>1. FirstEdits(f, j) = RemoveEdits(f, j.app) /\ Meaning(f, j) = Removed(f, j.app)
    BY <1>2 DEF FirstEdits, Meaning
  <2>2. QED BY <1>1, <2>1, RemoveParts
<1>3. CASE j.act = "removeTool" /\ OneTool(f, j.app)
  <2>1. FirstEdits(f, j) = RemoveEdits(f, j.app) /\ Meaning(f, j) = Removed(f, j.app)
    BY <1>3 DEF FirstEdits, RemoveToolEdits, Meaning
  <2>2. QED BY <1>1, <2>1, RemoveParts
<1>4. QED BY <1>2, <1>3

\* Every action the program accepts.
LEMMA FirstPartOfAll ==
  ASSUME NEW f, IsSettings(f), NEW j \in Jobs, Accepted(f, j)
  PROVE  FirstPart(f, j, Meaning(f, j), FirstEdits(f, j))
<1>1. j.act \in {"add", "share", "remove", "links"} \cup OneEditActs
  BY ActsAssumption DEF OneEditActs
<1>2. QED BY <1>1, AddParts, ShareParts, LinksPart, RemovalParts, SplitParts, SingleParts DEF OneEditActs

LEMMA SecondPartOfAll ==
  ASSUME NEW f, IsSettings(f), NEW j \in Jobs, Accepted(f, j), HasMore(f, j),
         NEW new, IsSettings(new), \A k : Agree(new, f, Second(j), k)
  PROVE  SecondPart(f, j, Meaning(f, j), MoreEdits(f, new, j))
<1>1. j.act = "add" \/ j.act = "share" \/ (j.act = "split" /\ ~Single(f.commands[j.app]))
  BY DEF HasMore
<1>2. j.act # "share" => new.links = f.links
  <2>1. IsObject(new.links) /\ IsObject(f.links)
    BY SettingsAreObjects
  <2>2. j.act # "share" => \A k : Agree(new, f, "links", k)
    BY DEF Second
  <2>3. QED BY <2>1, <2>2 DEF IsObject, Agree
<1>3. QED BY <1>1, <1>2, AddParts, ShareParts, SplitParts

\* Whatever others wrote meanwhile, the second part edits whole entries.
LEMMA MoreEditsAreOk ==
  ASSUME NEW f, IsSettings(f), NEW j \in Jobs, HasMore(f, j), NEW new, IsSettings(new)
  PROVE  /\ IsSequence(MoreEdits(f, new, j))
         /\ \A e : Among(e, MoreEdits(f, new, j)) => EditOk(e)
<1>1. ASSUME NEW app, NEW wanted, IsFiniteSet(wanted)
      PROVE  /\ IsSequence(LinkEdits(new, app, wanted))
             /\ \A e : Among(e, LinkEdits(new, app, wanted)) => EditOk(e)
  <2> DEFINE T == LinkEdits(new, app, wanted)
  <2>1. IsSequence(T) /\ EditsOfLinks(new.links, app, wanted, T)
    BY <1>1, LinkEditsAre
  <2> HIDE DEF T
  <2>2. \A l, v : EditOk(Put(<<"links", l>>, v))
    BY EditsAreOk DEF Sections
  <2>3. ASSUME NEW e, Among(e, T) PROVE EditOk(e)
    <3>1. PICK l, v : e = Put(<<"links", l>>, v)
      BY <2>1, <2>3 DEF EditsOfLinks
    <3>2. QED BY <2>2, <3>1
  <2>4. QED BY <2>1, <2>3 DEF T
<1>2. CASE j.act = "add"
  <2>1. MoreEdits(f, new, j) = LinkEdits(new, j.app, j.wanted) /\ IsFiniteSet(j.wanted)
    BY <1>2, ActsAssumption DEF MoreEdits
  <2>2. QED BY <1>1, <2>1
<1>3. CASE j.act = "share"
  <2>1. LeadTo(MoreEdits(f, new, j), f, Meaning(f, j)) /\ IsSequence(MoreEdits(f, new, j))
    BY <1>3, ShareParts DEF SecondPart
  <2>2. QED BY <2>1, ByEdits DEF Leads
<1>4. CASE j.act = "split"
  <2>1. MoreEdits(f, new, j) = LinkEdits(new, SplitName(f, j.tool), SplitLinks(f, j.app))
    BY <1>4 DEF MoreEdits
  <2>2. IsFiniteSet(SplitLinks(f, j.app))
    <3>1. SplitLinks(f, j.app) \subseteq DOMAIN f.links
      BY DEF SplitLinks, Explicit
    <3>2. IsObject(f.links)
      BY SettingsAreObjects
    <3>3. QED BY <3>1, <3>2, FS_Subset DEF IsObject
  <2>3. QED BY <1>1, <2>1, <2>2
<1>5. QED BY <1>2, <1>3, <1>4 DEF HasMore

-----------------------------------------------------------------------------
(* One step of an action that nobody disturbs. *)

LEMMA AmongTail ==
  ASSUME NEW t, IsSequence(t), t # << >>
  PROVE  /\ IsSequence(Tail(t))
         /\ \A e : Among(e, t) <=> e = Head(t) \/ Among(e, Tail(t))
<1>1. PICK S : t \in Seq(S)
  BY DEF IsSequence
<1>2. /\ Tail(t) \in Seq(S) /\ Len(Tail(t)) = Len(t) - 1 /\ Len(t) \in Nat \ {0}
      /\ Head(t) = t[1] /\ \A i \in 1..Len(t) - 1 : Tail(t)[i] = t[i + 1]
  BY <1>1
<1>3. ASSUME NEW e, Among(e, t) PROVE e = Head(t) \/ Among(e, Tail(t))
  <2>1. PICK i \in 1..Len(t) : t[i] = e
    BY <1>3 DEF Among
  <2>2. CASE i = 1
    BY <1>2, <2>1, <2>2
  <2>3. CASE i # 1
    <3>1. i - 1 \in 1..Len(Tail(t)) /\ Tail(t)[i - 1] = e
      BY <1>2, <2>1, <2>3
    <3>2. QED BY <3>1 DEF Among
  <2>4. QED BY <2>2, <2>3
<1>4. Among(Head(t), t)
  BY <1>2 DEF Among
<1>5. ASSUME NEW e, Among(e, Tail(t)) PROVE Among(e, t)
  <2>1. PICK i \in 1..Len(Tail(t)) : Tail(t)[i] = e
    BY <1>5 DEF Among
  <2>2. i + 1 \in 1..Len(t) /\ t[i + 1] = e
    BY <1>2, <2>1
  <2>3. QED BY <2>2 DEF Among
<1>6. QED BY <1>2, <1>3, <1>4, <1>5 DEF IsSequence

LEMMA UntouchedBy ==
  ASSUME NEW disk, NEW f, NEW edits, NEW s
  PROVE  Untouched(disk, f, edits, s) <=>
            (\A k : Agree(disk, f, s, k)) /\ (\A e : Among(e, edits) => e.at[1] # s)
BY DEF Untouched, Among

LEMMA AfterEdit ==
  ASSUME NEW disk, IsSettings(disk), NEW f, IsSettings(f), NEW j, NEW m, IsSettings(m),
         NEW edits, IsSequence(edits), edits # << >>, NEW more,
         Underway(disk, f, j, m, edits, more)
  PROVE  Underway(Edited(disk, Head(edits)), f, j, m, Tail(edits), more)
<1> DEFINE e == Head(edits)
           g == Edited(disk, e)
           t == Tail(edits)
<1>1. /\ InBetween(disk, f, m) /\ LeadTo(edits, f, m)
      /\ \A s \in Sections : (more /\ s = Second(j)) \/ Rest(disk, m, edits, s)
      /\ more => HasMore(f, j) /\ Untouched(disk, f, edits, Second(j))
      /\ Standing(disk, f, j, m, edits)
  BY DEF Underway
<1>2. \A d : Among(d, edits) <=> d = e \/ Among(d, t)
  BY AmongTail
<1>3. Leads(e, f, m)
  BY <1>1, <1>2, ByEdits
<1> HIDE DEF e, t
<1>4. EditOk(e) /\ e.at[1] \in Sections
  BY <1>3 DEF Leads, EditOk
<1>5. Agree(g, m, e.at[1], e.at[2])
  <2>1. Reaches(e, f, m) /\ Reaches(e, m, m)
    BY <1>3 DEF Leads
  <2>2. Agree(disk, f, e.at[1], e.at[2]) \/ Agree(disk, m, e.at[1], e.at[2])
    BY <1>1, <1>4 DEF InBetween
  <2>3. Reaches(e, disk, m)
    BY <1>4, <2>1, <2>2, ReachesAlike
  <2>4. QED BY <2>3 DEF Reaches
<1>6. ASSUME NEW s \in Sections, NEW k, s # e.at[1] \/ k # e.at[2] PROVE Agree(g, disk, s, k)
  BY <1>4, <1>6, EditedElsewhere
<1> HIDE DEF g
<1>7. InBetween(g, f, m)
  <2>1. ASSUME NEW s \in Sections, NEW k PROVE Agree(g, f, s, k) \/ Agree(g, m, s, k)
    <3>1. CASE s = e.at[1] /\ k = e.at[2]
      BY <1>5, <3>1
    <3>2. CASE s # e.at[1] \/ k # e.at[2]
      <4>1. Agree(g, disk, s, k)
        BY <1>6, <3>2
      <4>2. Agree(disk, f, s, k) \/ Agree(disk, m, s, k)
        BY <1>1 DEF InBetween
      <4>3. QED BY <4>1, <4>2, AgreeIsEqual
    <3>3. QED BY <3>1, <3>2
  <2>2. QED BY <2>1 DEF InBetween
<1>8. LeadTo(t, f, m)
  BY <1>1, <1>2, ByEdits
<1>9. ASSUME NEW s \in Sections, NEW k, Agree(disk, m, s, k) PROVE Agree(g, m, s, k)
  <2>1. CASE s = e.at[1] /\ k = e.at[2]
    BY <1>5, <2>1
  <2>2. CASE s # e.at[1] \/ k # e.at[2]
    BY <1>6, <1>9, <2>2, AgreeIsEqual
  <2>3. QED BY <2>1, <2>2
<1>10. ASSUME NEW s \in Sections, Rest(disk, m, edits, s) PROVE Rest(g, m, t, s)
  <2>1. ASSUME NEW k PROVE Touches(t, s, k) \/ Agree(g, m, s, k)
    <3>1. Touches(edits, s, k) \/ Agree(disk, m, s, k)
      BY <1>10 DEF Rest
    <3>2. CASE Agree(disk, m, s, k)
      BY <1>9, <3>2
    <3>3. CASE Touches(edits, s, k)
      <4>1. PICK d : Among(d, edits) /\ d.at[1] = s /\ d.at[2] = k
        BY <3>3, TouchedBy
      <4>2. CASE d = e
        BY <1>5, <4>1, <4>2
      <4>3. CASE Among(d, t)
        BY <4>1, <4>3, TouchedBy
      <4>4. QED BY <1>2, <4>1, <4>2, <4>3
    <3>4. QED BY <3>1, <3>2, <3>3
  <2>2. QED BY <2>1 DEF Rest
<1>11. Second(j) \in Sections
  BY DEF Second, Sections
<1>12. ASSUME Untouched(disk, f, edits, Second(j)) PROVE Untouched(g, f, t, Second(j))
  <2>1. (\A k : Agree(disk, f, Second(j), k)) /\ (\A d : Among(d, edits) => d.at[1] # Second(j))
    BY <1>12, UntouchedBy
  <2>2. e.at[1] # Second(j)
    BY <1>2, <2>1
  <2>3. \A k : Agree(g, f, Second(j), k)
    BY <1>6, <1>11, <2>1, <2>2, AgreeIsEqual
  <2>4. QED BY <1>2, <2>1, <2>3, UntouchedBy
<1>13. Standing(g, f, j, m, t)
  <2> SUFFICES ASSUME j.act = "split" /\ ~Single(f.commands[j.app])
               PROVE  Agree(g, m, "commands", SplitName(f, j.tool))
    BY DEF Standing
  <2>1. CASE Agree(disk, m, "commands", SplitName(f, j.tool))
    BY <1>9, <2>1 DEF Sections
  <2>2. CASE edits = SplitEdits(f, j.app, j.tool)
    <3> DEFINE c == Put(<<"commands", SplitName(f, j.tool)>>, Standalone(f, j.app, j.tool))
               d == Drop(<<"commands", j.app, j.tool>>)
    <3>1. edits = <<c, d>>
      BY <2>2 DEF SplitEdits
    <3>2. c.at = <<"commands", SplitName(f, j.tool)>>
      BY PutIs
    <3> HIDE DEF c, d
    <3>3. e = c
      BY <3>1 DEF e
    <3>4. QED BY <1>5, <3>2, <3>3
  <2>3. QED BY <1>1, <2>1, <2>2 DEF Standing
<1>14. QED BY <1>1, <1>7, <1>8, <1>10, <1>12, <1>13 DEF Underway, g, t, e

LEMMA AtTheStart ==
  ASSUME NEW f, IsSettings(f), NEW j \in Jobs, Accepted(f, j), NEW more, more <=> HasMore(f, j)
  PROVE  Underway(f, f, j, Meaning(f, j), FirstEdits(f, j), more)
<1> DEFINE m == Meaning(f, j)
           edits == FirstEdits(f, j)
<1>1. /\ LeadTo(edits, f, m)
      /\ \A s \in Sections : (HasMore(f, j) /\ s = Second(j)) \/ Rest(f, m, edits, s)
      /\ HasMore(f, j) => \A e : Among(e, edits) => e.at[1] # Second(j)
  BY FirstPartOfAll DEF FirstPart
<1>2. Standing(f, f, j, m, edits)
  <2>1. j.act = "split" /\ ~Single(f.commands[j.app]) => edits = SplitEdits(f, j.app, j.tool)
    BY DEF FirstEdits
  <2> HIDE DEF m, edits
  <2>2. QED BY <2>1, AgreeIsEqual DEF Standing
<1> HIDE DEF m, edits
<1>3. InBetween(f, f, m)
  BY AgreeIsEqual DEF InBetween
<1>4. HasMore(f, j) => Untouched(f, f, edits, Second(j))
  BY <1>1, UntouchedBy, AgreeIsEqual
<1>5. QED BY <1>1, <1>2, <1>3, <1>4 DEF Underway, m, edits

LEMMA AtTheSecondPart ==
  ASSUME NEW disk, IsSettings(disk), NEW f, IsSettings(f), NEW j \in Jobs, Accepted(f, j), NEW more, more,
         Underway(disk, f, j, Meaning(f, j), << >>, more), NEW done, ~done
  PROVE  Underway(disk, f, j, Meaning(f, j), MoreEdits(f, disk, j), done)
<1> DEFINE m == Meaning(f, j)
           edits == MoreEdits(f, disk, j)
<1>1. /\ InBetween(disk, f, m)
      /\ \A s \in Sections : s = Second(j) \/ Rest(disk, m, << >>, s)
      /\ HasMore(f, j) /\ \A k : Agree(disk, f, Second(j), k)
      /\ Standing(disk, f, j, m, << >>)
  BY DEF Underway, Untouched
<1>2. LeadTo(edits, f, m) /\ Rest(f, m, edits, Second(j))
  BY <1>1, SecondPartOfAll DEF SecondPart
<1>3. Standing(disk, f, j, m, edits)
  <2>1. << >> # SplitEdits(f, j.app, j.tool)
    BY DEF SplitEdits
  <2> HIDE DEF m, edits
  <2>2. QED BY <1>1, <2>1 DEF Standing
<1> HIDE DEF m, edits
<1>4. ASSUME NEW s \in Sections PROVE Rest(disk, m, edits, s)
  <2>1. CASE s = Second(j)
    BY <1>1, <1>2, <2>1, AgreeIsEqual DEF Rest
  <2>2. CASE s # Second(j)
    <3>1. \A k : ~Touches(<< >>, s, k)
      BY TouchedBy, AmongNone
    <3>2. QED BY <1>1, <2>2, <3>1 DEF Rest
  <2>3. QED BY <2>1, <2>2
<1>5. QED BY <1>1, <1>2, <1>3, <1>4 DEF Underway, m, edits

LEMMA AtTheEnd ==
  ASSUME NEW disk, IsSettings(disk), NEW f, NEW j, NEW m, IsSettings(m), NEW more, ~more,
         Underway(disk, f, j, m, << >>, more)
  PROVE  disk = m
<1>1. ASSUME NEW s \in Sections, NEW k PROVE Agree(disk, m, s, k)
  <2>1. Rest(disk, m, << >>, s)
    BY DEF Underway
  <2>2. ~Touches(<< >>, s, k)
    BY TouchedBy, AmongNone
  <2>3. QED BY <2>1, <2>2 DEF Rest
<1>2. ASSUME NEW s \in Sections PROVE disk[s] = m[s]
  <2>1. disk[s] = [k \in DOMAIN disk[s] |-> disk[s][k]] /\ m[s] = [k \in DOMAIN m[s] |-> m[s][k]]
    BY DEF IsSettings
  <2>2. QED BY <1>1, <2>1 DEF Agree
<1>3. disk = [s \in Sections |-> disk[s]] /\ m = [s \in Sections |-> m[s]]
  BY DEF IsSettings
<1>4. QED BY <1>2, <1>3

-----------------------------------------------------------------------------
(* The invariant of undisturbed actions, step by step. *)

LEMMA ActionInit == FileInit => ActionInv
<1> SUFFICES ASSUME FileInit PROVE ActionInv
  OBVIOUS
<1>1. EachInv /\ ShapeInv
  BY FileAssumption DEF FileInit, EachInv, ShapeInv
<1>2. EditsInv /\ ChosenInv
  BY DEF FileInit, EditsInv, ChosenInv
<1>3. LoneInv
  BY DEF FileInit, LoneInv
<1>4. QED BY <1>1, <1>2, <1>3 DEF ActionInv

\* What is true of the others stays so, as long as the file does.
OtherProcessesStay(p) == \A q \in Procs \ {p} :
    /\ snap'[q] = snap[q] /\ job'[q] = job[q] /\ todo'[q] = todo[q]
    /\ later'[q] = later[q] /\ (mixed[q] => mixed'[q])

LEMMA OnlyOneMoves ==
  ASSUME ActionInv, NEW p \in Procs, UNCHANGED file, OtherProcessesStay(p), EachInv',
         snap'[p] # NoFile => IsSettings(snap'[p]),
         job'[p] # NoJob => /\ IsSequence(todo'[p]) /\ \A e : Among(e, todo'[p]) => EditOk(e)
                            /\ job'[p] \in Jobs /\ snap'[p] # NoFile /\ Accepted(snap'[p], job'[p])
                            /\ later'[p] => HasMore(snap'[p], job'[p]),
         ~mixed'[p] /\ snap'[p] # NoFile =>
            IF job'[p] = NoJob THEN file = snap'[p]
            ELSE Underway(file, snap'[p], job'[p], Meaning(snap'[p], job'[p]), todo'[p], later'[p])
  PROVE  ActionInv'
<1>0. EditsInv /\ ShapeInv /\ ChosenInv /\ LoneInv /\ file' = file
  BY DEF ActionInv
<1>1. ASSUME NEW q \in Procs, q # p
      PROVE  /\ snap'[q] = snap[q] /\ job'[q] = job[q] /\ todo'[q] = todo[q]
             /\ later'[q] = later[q] /\ (mixed[q] => mixed'[q])
  BY <1>1 DEF OtherProcessesStay
<1>2. EditsInv'
  <2>1. ASSUME NEW q \in Procs, job'[q] # NoJob
        PROVE  IsSequence(todo'[q]) /\ \A i \in 1..Len(todo'[q]) : EditOk(todo'[q][i])
    <3>1. CASE q = p
      BY <2>1, <3>1 DEF Among
    <3>2. CASE q # p
      BY <1>0, <1>1, <2>1, <3>2 DEF EditsInv
    <3>3. QED BY <3>1, <3>2
  <2>2. QED BY <2>1 DEF EditsInv
<1>3. ShapeInv'
  BY <1>0, <1>1 DEF ShapeInv
<1>4. ChosenInv'
  <2>1. ASSUME NEW q \in Procs, job'[q] # NoJob
        PROVE  /\ job'[q] \in Jobs /\ snap'[q] # NoFile /\ Accepted(snap'[q], job'[q])
               /\ later'[q] => HasMore(snap'[q], job'[q])
    <3>1. CASE q = p
      BY <2>1, <3>1
    <3>2. CASE q # p
      BY <1>0, <1>1, <2>1, <3>2 DEF ChosenInv
    <3>3. QED BY <3>1, <3>2
  <2>2. QED BY <2>1 DEF ChosenInv
<1>5. LoneInv'
  <2>1. ASSUME NEW q \in Procs, ~mixed'[q], snap'[q] # NoFile
        PROVE  IF job'[q] = NoJob THEN file' = snap'[q]
               ELSE Underway(file', snap'[q], job'[q], Meaning(snap'[q], job'[q]), todo'[q], later'[q])
    <3>1. CASE q = p
      BY <1>0, <2>1, <3>1
    <3>2. CASE q # p
      BY <1>0, <1>1, <2>1, <3>2 DEF LoneInv
    <3>3. QED BY <3>1, <3>2
  <2>2. QED BY <2>1 DEF LoneInv
<1>6. QED BY <1>2, <1>3, <1>4, <1>5 DEF ActionInv

LEMMA LoadKeeps ==
  ASSUME FileInv, ActionInv, NEW p \in Procs, Load(p)
  PROVE  ActionInv'
<1>1. /\ snap' = [snap EXCEPT ![p] = file] /\ UNCHANGED <<file, job, todo, later>>
      /\ mixed' = [mixed EXCEPT ![p] = FALSE] /\ snap[p] = NoFile
  BY DEF Load
<1>2. EachInv /\ IsSettings(file) /\ job[p] = NoJob
  BY <1>1 DEF ActionInv, ShapeInv, ChosenInv
<1>3. EachInv' /\ OtherProcessesStay(p)
  BY <1>1, <1>2 DEF EachInv, OtherProcessesStay
<1>4. snap'[p] = file /\ job'[p] = NoJob
  BY <1>1, <1>2 DEF EachInv
<1>5. QED BY <1>1, <1>2, <1>3, <1>4, OnlyOneMoves

LEMMA ChooseKeeps ==
  ASSUME FileInv, ActionInv, NEW p \in Procs, Choose(p)
  PROVE  ActionInv'
<1>1. PICK j \in Jobs :
        /\ Accepted(snap[p], j)
        /\ job' = [job EXCEPT ![p] = j]
        /\ todo' = [todo EXCEPT ![p] = FirstEdits(snap[p], j)]
        /\ later' = [later EXCEPT ![p] = HasMore(snap[p], j)]
  BY DEF Choose
<1>2. UNCHANGED <<file, snap, mixed>> /\ snap[p] # NoFile /\ job[p] = NoJob
  BY DEF Choose
<1>3. EachInv /\ ShapeInv /\ LoneInv /\ OwnInv
  BY DEF ActionInv, FileInv
<1>4. IsSettings(snap[p])
  BY <1>2, <1>3 DEF ShapeInv
<1>5. EachInv' /\ OtherProcessesStay(p)
  BY <1>1, <1>2, <1>3 DEF EachInv, OwnInv, OtherProcessesStay
<1>6. job'[p] = j /\ todo'[p] = FirstEdits(snap[p], j) /\ (later'[p] <=> HasMore(snap[p], j)) /\ snap'[p] = snap[p]
  BY <1>1, <1>2, <1>3 DEF EachInv, OwnInv
<1>7. IsSequence(FirstEdits(snap[p], j)) /\ \A e : Among(e, FirstEdits(snap[p], j)) => EditOk(e)
  BY <1>1, <1>4, FirstPartOfAll, ByEdits DEF FirstPart, Leads
<1>8. j # NoJob
  BY JobsAssumption
<1>9. ~mixed'[p] => Underway(file, snap[p], j, Meaning(snap[p], j), FirstEdits(snap[p], j), later'[p])
  <2>1. ~mixed'[p] => file = snap[p]
    BY <1>2, <1>3 DEF LoneInv
  <2>2. Underway(snap[p], snap[p], j, Meaning(snap[p], j), FirstEdits(snap[p], j), later'[p])
    BY <1>1, <1>4, <1>6, AtTheStart
  <2>3. QED BY <2>1, <2>2
<1>10. QED BY <1>1, <1>2, <1>4, <1>5, <1>6, <1>7, <1>8, <1>9, OnlyOneMoves

LEMMA MoreKeeps ==
  ASSUME FileInv, ActionInv, NEW p \in Procs, More(p)
  PROVE  ActionInv'
<1>1. /\ UNCHANGED <<file, snap, job, mixed>>
      /\ job[p] # NoJob /\ todo[p] = << >> /\ later[p]
      /\ later' = [later EXCEPT ![p] = FALSE]
      /\ todo' = [todo EXCEPT ![p] = MoreEdits(snap[p], file, job[p])]
  BY DEF More
<1>2. EachInv /\ ShapeInv /\ ChosenInv /\ LoneInv /\ OwnInv
  BY DEF ActionInv, FileInv
<1>3. /\ job[p] \in Jobs /\ snap[p] # NoFile /\ Accepted(snap[p], job[p]) /\ HasMore(snap[p], job[p])
      /\ IsSettings(snap[p]) /\ IsSettings(file)
  BY <1>1, <1>2 DEF ChosenInv, ShapeInv
<1>4. EachInv' /\ OtherProcessesStay(p)
  BY <1>1, <1>2 DEF EachInv, OwnInv, OtherProcessesStay
<1>5. job'[p] = job[p] /\ snap'[p] = snap[p] /\ ~later'[p] /\ todo'[p] = MoreEdits(snap[p], file, job[p])
  BY <1>1, <1>2 DEF EachInv, OwnInv
<1>6. IsSequence(todo'[p]) /\ \A e : Among(e, todo'[p]) => EditOk(e)
  BY <1>3, <1>5, MoreEditsAreOk
<1>7. ~mixed'[p] => Underway(file, snap[p], job[p], Meaning(snap[p], job[p]), MoreEdits(snap[p], file, job[p]), later'[p])
  <2>1. ~mixed'[p] => Underway(file, snap[p], job[p], Meaning(snap[p], job[p]), << >>, later[p])
    BY <1>1, <1>2, <1>3 DEF LoneInv
  <2>2. QED BY <1>1, <1>3, <1>5, <2>1, AtTheSecondPart
<1>8. QED BY <1>1, <1>3, <1>4, <1>5, <1>6, <1>7, OnlyOneMoves

LEMMA OverKeeps ==
  ASSUME FileInv, ActionInv, NEW p \in Procs, Over(p), UNCHANGED file
  PROVE  ActionInv'
<1>1. EachInv /\ OwnInv
  BY DEF ActionInv, FileInv
<1>2. EachInv' /\ OtherProcessesStay(p)
  BY <1>1 DEF Over, EachInv, OwnInv, OtherProcessesStay
<1>3. snap'[p] = NoFile /\ job'[p] = NoJob
  BY <1>1 DEF Over, EachInv, OwnInv
<1>4. QED BY <1>2, <1>3, OnlyOneMoves

LEMMA RenameKeeps ==
  ASSUME FileInv, ActionInv, NEW p \in Procs, Rename(p)
  PROVE  ActionInv'
<1>0. /\ EachInv /\ EditsInv /\ ShapeInv /\ ChosenInv /\ LoneInv
      /\ OwnInv /\ JobInv /\ EditInv
  BY DEF ActionInv, FileInv
<1>1. /\ text[p] # NoFile /\ file' = text[p]
      /\ todo' = [todo EXCEPT ![p] = Tail(@)]
      /\ mixed' = [q \in Procs |-> mixed[q] \/ (q # p /\ snap[q] # NoFile)]
      /\ UNCHANGED <<snap, job, later>>
  BY DEF Rename
<1>2. todo[p] # << >> /\ file' = Edited(file, Head(todo[p])) /\ job[p] # NoJob
  BY <1>0, <1>1 DEF EditInv, JobInv
<1>3. IsSequence(todo[p]) /\ \A e : Among(e, todo[p]) => EditOk(e)
  BY <1>0, <1>2 DEF EditsInv, Among
<1>4. EditOk(Head(todo[p])) /\ IsSequence(Tail(todo[p])) /\ \A e : Among(e, Tail(todo[p])) => EditOk(e)
  BY <1>2, <1>3, AmongTail
<1>5. IsSettings(file) /\ IsSettings(file')
  BY <1>0, <1>2, <1>4, EditedIsSettings DEF ShapeInv
<1>6. \A q \in Procs \ {p} : mixed'[q] \/ snap'[q] = NoFile
  BY <1>1
<1>7. todo'[p] = Tail(todo[p]) /\ (mixed'[p] <=> mixed[p]) /\ \A q \in Procs \ {p} : todo'[q] = todo[q]
  BY <1>0, <1>1 DEF OwnInv
<1>8. EachInv'
  BY <1>0, <1>1 DEF EachInv
<1>9. EditsInv'
  BY <1>0, <1>1, <1>4, <1>7 DEF EditsInv, Among
<1>10. ShapeInv' /\ ChosenInv'
  BY <1>0, <1>1, <1>5 DEF ShapeInv, ChosenInv
<1>11. LoneInv'
  <2>1. ASSUME ~mixed[p]
        PROVE  Underway(file', snap[p], job[p], Meaning(snap[p], job[p]), Tail(todo[p]), later[p])
    <3>1. /\ job[p] \in Jobs /\ snap[p] # NoFile /\ Accepted(snap[p], job[p]) /\ IsSettings(snap[p])
      BY <1>0, <1>2 DEF ChosenInv, ShapeInv
    <3>2. Underway(file, snap[p], job[p], Meaning(snap[p], job[p]), todo[p], later[p])
      BY <1>0, <1>2, <2>1, <3>1 DEF LoneInv
    <3>3. IsSettings(Meaning(snap[p], job[p]))
      BY <3>1, FirstPartOfAll DEF FirstPart
    <3>4. QED BY <1>2, <1>3, <1>5, <3>1, <3>2, <3>3, AfterEdit
  <2>2. ASSUME NEW q \in Procs, ~mixed'[q], snap'[q] # NoFile
        PROVE  IF job'[q] = NoJob THEN file' = snap'[q]
               ELSE Underway(file', snap'[q], job'[q], Meaning(snap'[q], job'[q]), todo'[q], later'[q])
    <3>1. q = p
      BY <1>6, <2>2
    <3>2. QED BY <1>1, <1>2, <1>7, <2>1, <2>2, <3>1
  <2>3. QED BY <2>2 DEF LoneInv
<1>12. QED BY <1>8, <1>9, <1>10, <1>11 DEF ActionInv

LEMMA ActionNext == FileInv /\ ActionInv /\ [FileNext]_fileVars => ActionInv'
<1> SUFFICES ASSUME FileInv, ActionInv, [FileNext]_fileVars PROVE ActionInv'
  OBVIOUS
<1>1. ASSUME NEW p \in Procs, Prepare(p) PROVE ActionInv'
  <2>1. UNCHANGED <<file, snap, job, todo, later, mixed>>
    BY <1>1 DEF Prepare
  <2>2. QED BY <2>1 DEF ActionInv, EachInv, EditsInv, ShapeInv, ChosenInv, LoneInv
<1>2. ASSUME NEW p \in Procs, Finish(p) \/ Refuse(p) \/ Crash(p) PROVE ActionInv'
  BY <1>2, OverKeeps DEF Finish, Refuse, Crash
<1>3. CASE UNCHANGED fileVars
  BY <1>3 DEF fileVars, ActionInv, EachInv, EditsInv, ShapeInv, ChosenInv, LoneInv
<1>4. QED BY <1>1, <1>2, <1>3, LoadKeeps, ChooseKeeps, RenameKeeps, MoreKeeps DEF FileNext

\* The inductive invariant of undisturbed actions holds in every reachable state.
THEOREM ActionInvariance == FileSpec => []ActionInv
<1>1. QED BY ActionInit, ActionNext, FileInvariance, PTL DEF FileSpec

\* An action nobody disturbs leaves the file its one-step meaning says.
THEOREM ActionsAreAtomic == FileSpec => []UndisturbedActionsAreAtomic
<1>1. ActionInv => UndisturbedActionsAreAtomic
  <2> SUFFICES ASSUME ActionInv, NEW p \in Procs, Done(p), ~mixed[p]
               PROVE  file = Meaning(snap[p], job[p])
    BY DEF UndisturbedActionsAreAtomic
  <2>1. job[p] # NoJob /\ todo[p] = << >> /\ ~later[p]
    BY DEF Done
  <2>2. /\ job[p] \in Jobs /\ snap[p] # NoFile /\ Accepted(snap[p], job[p])
        /\ IsSettings(snap[p]) /\ IsSettings(file)
    BY <2>1 DEF ActionInv, ChosenInv, ShapeInv
  <2>3. Underway(file, snap[p], job[p], Meaning(snap[p], job[p]), << >>, later[p])
    BY <2>1, <2>2 DEF ActionInv, LoneInv
  <2>4. IsSettings(Meaning(snap[p], job[p]))
    BY <2>2, FirstPartOfAll DEF FirstPart
  <2>5. QED BY <2>1, <2>2, <2>3, <2>4, AtTheEnd
<1>2. QED BY ActionInvariance, <1>1, PTL

-----------------------------------------------------------------------------
(* What a half done action offers. *)

OnLink(f, l, a) == l \in DOMAIN f.links /\ (f.links[l] = All \/ a \in f.links[l])
CanRun(f, a, r) == a \in DOMAIN f.commands /\ r \in RunsOf(f.commands[a])

LEMMA OffersAre ==
  ASSUME NEW f, NEW x
  PROVE  x \in Offers(f) <=> \E l, a, r : OnLink(f, l, a) /\ CanRun(f, a, r) /\ x = <<l, r>>
<1>1. ASSUME x \in Offers(f) PROVE \E l, a, r : OnLink(f, l, a) /\ CanRun(f, a, r) /\ x = <<l, r>>
  <2>1. PICK l \in DOMAIN f.links :
          x \in {<<l, run>> : run \in UNION {RunsOf(f.commands[app]) :
                    app \in DOMAIN f.commands \cap (IF f.links[l] = All THEN DOMAIN f.commands ELSE f.links[l])}}
    BY <1>1 DEF Offers
  <2>2. PICK a \in DOMAIN f.commands \cap (IF f.links[l] = All THEN DOMAIN f.commands ELSE f.links[l]) :
          \E r \in RunsOf(f.commands[a]) : x = <<l, r>>
    BY <2>1
  <2>3. OnLink(f, l, a)
    BY <2>2 DEF OnLink
  <2>4. QED BY <2>2, <2>3 DEF CanRun
<1>2. ASSUME NEW l, NEW a, NEW r, OnLink(f, l, a), CanRun(f, a, r), x = <<l, r>> PROVE x \in Offers(f)
  <2> DEFINE Apps == DOMAIN f.commands \cap (IF f.links[l] = All THEN DOMAIN f.commands ELSE f.links[l])
             Runs == UNION {RunsOf(f.commands[app]) : app \in Apps}
  <2>1. a \in Apps /\ l \in DOMAIN f.links /\ r \in RunsOf(f.commands[a])
    BY <1>2 DEF OnLink, CanRun
  <2>2. r \in Runs
    BY <2>1
  <2>3. x \in {<<l, run>> : run \in Runs}
    <3> HIDE DEF Runs
    <3>1. QED BY <1>2, <2>2
  <2>4. QED BY <2>1, <2>3 DEF Offers
<1>3. QED BY <1>1, <1>2

\* The commands of one and the links of the other offer no more than the two, but
\* for what is named.
Compatible(f, m, early) == \A l, a, r :
    (OnLink(f, l, a) \/ OnLink(m, l, a)) /\ (CanRun(f, a, r) \/ CanRun(m, a, r)) =>
        \/ OnLink(f, l, a) /\ CanRun(f, a, r)
        \/ OnLink(m, l, a) /\ CanRun(m, a, r)
        \/ <<l, r>> \in early

LEMMA CompatibleIsSafe ==
  ASSUME NEW disk, NEW f, NEW m, NEW early, InBetween(disk, f, m), Compatible(f, m, early)
  PROVE  Offers(disk) \subseteq Offers(f) \cup Offers(m) \cup early
<1> SUFFICES ASSUME NEW x \in Offers(disk) PROVE x \in Offers(f) \cup Offers(m) \cup early
  OBVIOUS
<1>1. PICK l, a, r : OnLink(disk, l, a) /\ CanRun(disk, a, r) /\ x = <<l, r>>
  BY OffersAre
<1>2. OnLink(f, l, a) \/ OnLink(m, l, a)
  <2>1. Agree(disk, f, "links", l) \/ Agree(disk, m, "links", l)
    BY DEF InBetween, Sections
  <2>2. QED BY <1>1, <2>1 DEF OnLink, Agree
<1>3. CanRun(f, a, r) \/ CanRun(m, a, r)
  <2>1. Agree(disk, f, "commands", a) \/ Agree(disk, m, "commands", a)
    BY DEF InBetween, Sections
  <2>2. QED BY <1>1, <2>1 DEF CanRun, Agree
<1>4. \/ OnLink(f, l, a) /\ CanRun(f, a, r)
      \/ OnLink(m, l, a) /\ CanRun(m, a, r)
      \/ <<l, r>> \in early
  BY <1>2, <1>3 DEF Compatible
<1>5. QED BY <1>1, <1>4, OffersAre

LEMMA SameCommands ==
  ASSUME NEW f, NEW m, m.commands = f.commands, NEW early
  PROVE  Compatible(f, m, early)
BY DEF Compatible, CanRun

LEMMA SameLinks ==
  ASSUME NEW f, NEW m, m.links = f.links, NEW early
  PROVE  Compatible(f, m, early)
BY DEF Compatible, OnLink

LEMMA OneEditIsCompatible ==
  ASSUME NEW f, IsSettings(f), NEW e, EditOk(e), NEW early
  PROVE  Compatible(f, Edited(f, e), early)
BY EditedIs, SameCommands, SameLinks DEF Sections

LEMMA AddIsCompatible ==
  ASSUME NEW f, IsSettings(f), NEW j \in Jobs, j.act = "add", Accepted(f, j)
  PROVE  Compatible(f, Meaning(f, j), OfferedAtOnce(f, j))
<1> DEFINE m == Meaning(f, j)
           early == OfferedAtOnce(f, j)
<1>1. IsFiniteSet(j.wanted) /\ m = AddedTo(f, j.app, Text(j.run), j.wanted)
  BY ActsAssumption DEF Meaning, AddedTo
<1>2. m.commands = Having(f.commands, j.app, Text(j.run)) /\ m.links = Placed(f.links, j.app, j.wanted)
  BY <1>1, AddIsSettings
<1>3. j.app \notin DOMAIN f.commands
  BY DEF Accepted, AddAllowed, NameProblem
<1>4. PlacedAs(f.links, j.app, j.wanted, m.links)
  BY <1>1, <1>2, SettingsAreObjects, PlacedIs
<1>0. early = OnNamingLinks(f, j.app, j.run)
  BY DEF OfferedAtOnce
<1> HIDE DEF m, early
<1>5. SUFFICES ASSUME NEW l, NEW a, NEW r,
               OnLink(f, l, a) \/ OnLink(m, l, a), CanRun(f, a, r) \/ CanRun(m, a, r)
      PROVE  \/ OnLink(f, l, a) /\ CanRun(f, a, r)
             \/ OnLink(m, l, a) /\ CanRun(m, a, r)
             \/ <<l, r>> \in early
  BY DEF Compatible, m, early
<1>6. CASE a # j.app
  <2>1. CanRun(f, a, r) <=> CanRun(m, a, r)
    BY <1>2, <1>6, HavingIs DEF CanRun
  <2>2. QED BY <1>5, <2>1
<1>7. CASE a = j.app
  <2>1. CanRun(m, a, r) /\ ~CanRun(f, a, r)
    BY <1>3, <1>5, <1>7 DEF CanRun
  <2>2. CASE l \in Explicit(f) /\ j.app \in f.links[l]
    <3>1. m.commands[a] = Text(j.run)
      BY <1>2, <1>7, HavingIs
    <3>2. RunsOf(Text(j.run)) = {j.run}
      BY DEF RunsOf, Text
    <3>3. r = j.run
      BY <2>1, <3>1, <3>2 DEF CanRun
    <3>4. QED BY <1>0, <2>2, <3>3 DEF OnNamingLinks
  <2>3. ASSUME OnLink(f, l, a), ~(l \in Explicit(f) /\ j.app \in f.links[l]) PROVE OnLink(m, l, a)
    <3>1. f.links[l] = All
      BY <1>7, <2>3 DEF OnLink, Explicit
    <3>2. QED BY <1>4, <2>3, <3>1 DEF PlacedAs, OnLink
  <2>4. QED BY <1>5, <2>1, <2>2, <2>3
<1>8. QED BY <1>6, <1>7

LEMMA RemovalIsCompatible ==
  ASSUME NEW f, IsSettings(f), NEW app, app # "*", NEW early
  PROVE  Compatible(f, Removed(f, app), early)
<1> DEFINE m == Removed(f, app)
<1>1. /\ m.commands = Without(f.commands, app)
      /\ m.links = [l \in DOMAIN f.links |-> f.links[l] \ {app}]
  BY SettingsAreObjects DEF Removed, Sections
<1> HIDE DEF m
<1>2. SUFFICES ASSUME NEW l, NEW a, NEW r,
               OnLink(f, l, a) \/ OnLink(m, l, a), CanRun(f, a, r) \/ CanRun(m, a, r)
      PROVE  \/ OnLink(f, l, a) /\ CanRun(f, a, r)
             \/ OnLink(m, l, a) /\ CanRun(m, a, r)
  BY DEF Compatible, m
<1>3. CASE a # app
  <2>1. CanRun(f, a, r) <=> CanRun(m, a, r)
    BY <1>1, <1>3, WithoutIs DEF CanRun
  <2>2. QED BY <1>2, <2>1
<1>4. CASE a = app
  <2>1. CanRun(f, a, r)
    BY <1>1, <1>2, <1>4, WithoutIs DEF CanRun
  <2>2. ASSUME OnLink(m, l, a) PROVE OnLink(f, l, a)
    <3>1. l \in DOMAIN f.links /\ m.links[l] = f.links[l] \ {app} /\ m.links[l] = All
      BY <1>1, <1>4, <2>2 DEF OnLink
    <3>2. f.links[l] = All \/ app \in f.links[l]
      <4>1. app \notin f.links[l] => f.links[l] \ {app} = f.links[l]
        OBVIOUS
      <4>2. QED BY <3>1, <4>1
    <3>3. QED BY <1>4, <3>1, <3>2 DEF OnLink
  <2>3. QED BY <1>2, <2>1, <2>2
<1>5. QED BY <1>3, <1>4

\* The commands of a group, and of the tool that leaves it.
LEMMA RunsOfGroup ==
  ASSUME NEW entry, ~Single(entry)
  PROVE  RunsOf(entry) = {entry[t] : t \in DOMAIN entry \ {"allowDangerous"}}
BY DEF Single, RunsOf

LEMMA GroupWithoutTool ==
  ASSUME NEW entry, ~Single(entry), NEW tool
  PROVE  /\ RunsOf(Without(entry, tool)) \subseteq RunsOf(entry)
         /\ RunsOf(entry) \subseteq RunsOf(Without(entry, tool)) \cup {entry[tool]}
<1> DEFINE rest == Without(entry, tool)
<1>1. DOMAIN rest = DOMAIN entry \ {tool} /\ \A t \in DOMAIN rest : rest[t] = entry[t]
  BY DEF Without
<1> HIDE DEF rest
<1>2. ~Single(rest)
  BY <1>1 DEF Single
<1>3. /\ RunsOf(rest) = {rest[t] : t \in DOMAIN rest \ {"allowDangerous"}}
      /\ RunsOf(entry) = {entry[t] : t \in DOMAIN entry \ {"allowDangerous"}}
  BY <1>2, RunsOfGroup
<1>4. QED BY <1>1, <1>3 DEF rest

LEMMA RunOfStandalone ==
  ASSUME NEW f, NEW app, NEW tool
  PROVE  RunsOf(Standalone(f, app, tool)) = {f.commands[app][tool]}
<1> DEFINE entry == f.commands[app]
           alone == Standalone(f, app, tool)
<1>1. "text" \notin DOMAIN alone /\ "run" \in DOMAIN alone /\ alone["run"] = entry[tool]
  BY DEF Standalone
<1> HIDE DEF alone
<1>2. QED BY <1>1 DEF RunsOf, alone

LEMMA SplitIsCompatible ==
  ASSUME NEW f, IsSettings(f), NEW j \in Jobs, j.act = "split",
         ~Single(f.commands[j.app]), Accepted(f, j)
  PROVE  Compatible(f, Meaning(f, j), OfferedAtOnce(f, j))
<1> DEFINE m == Meaning(f, j)
           early == OfferedAtOnce(f, j)
           run == f.commands[j.app][j.tool]
           name == SplitName(f, j.tool)
           wanted == SplitLinks(f, j.app)
<1>1. /\ j.app \in DOMAIN f.commands /\ name \notin DOMAIN f.commands
      /\ DOMAIN m.commands = DOMAIN f.commands \cup {name}
      /\ m.commands[j.app] = Without(f.commands[j.app], j.tool)
      /\ \A n \in DOMAIN f.commands : n # j.app => m.commands[n] = f.commands[n]
      /\ IsFiniteSet(wanted)
      /\ m.links = Placed(f.links, name, wanted)
  BY SplitIs
<1>0. early = OnNamingLinks(f, name, run) /\ m.commands[name] = Standalone(f, j.app, j.tool)
  BY SplitIs DEF OfferedAtOnce
<1> HIDE DEF m, name, early
<1>2. PlacedAs(f.links, name, wanted, m.links)
  <2> HIDE DEF wanted
  <2>1. QED BY <1>1, SettingsAreObjects, PlacedIs
<1>3. DOMAIN m.links = DOMAIN f.links
  BY <1>2 DEF PlacedAs, SplitLinks, Explicit
<1>4. SUFFICES ASSUME NEW l, NEW a, NEW r,
               OnLink(f, l, a) \/ OnLink(m, l, a), CanRun(f, a, r) \/ CanRun(m, a, r)
      PROVE  \/ OnLink(f, l, a) /\ CanRun(f, a, r)
             \/ OnLink(m, l, a) /\ CanRun(m, a, r)
             \/ <<l, r>> \in early
  BY DEF Compatible, m, early
<1>5. l \in DOMAIN f.links
  BY <1>3, <1>4 DEF OnLink
<1>6. CASE f.links[l] = All
  <2>1. m.links[l] = All
    BY <1>2, <1>5, <1>6 DEF PlacedAs
  <2>2. QED BY <1>3, <1>4, <1>5, <1>6, <2>1 DEF OnLink
<1>7. CASE f.links[l] # All /\ name \in f.links[l]
  <2>1. CASE r = run
    <3>1. l \in Explicit(f)
      BY <1>5, <1>7 DEF Explicit
    <3>2. QED BY <1>0, <1>7, <2>1, <3>1 DEF OnNamingLinks
  <2>2. CASE r # run
    <3>1. a # name
      BY <1>0, <1>1, <1>4, <2>2, RunOfStandalone DEF CanRun
    <3>2. CanRun(f, a, r) <=> CanRun(m, a, r)
      <4>1. CASE a = j.app
        BY <1>1, <2>2, <4>1, GroupWithoutTool DEF CanRun
      <4>2. CASE a # j.app
        BY <1>1, <3>1, <4>2 DEF CanRun
      <4>3. QED BY <4>1, <4>2
    <3>3. QED BY <1>4, <3>2
  <2>3. QED BY <2>1, <2>2
<1>8. CASE f.links[l] # All /\ name \notin f.links[l]
  <2>2. m.links[l] = Corrected(f.links, name, wanted, l)
    BY <1>2, <1>5, <1>8 DEF PlacedAs
  <2>3. name \notin f.links[l] /\ (l \in wanted => j.app \in f.links[l])
    BY <1>8 DEF SplitLinks
  <2>4. f.links[l] \subseteq m.links[l] /\ m.links[l] \subseteq f.links[l] \cup {name}
    <3> HIDE DEF wanted
    <3>1. QED BY <2>2, <2>3 DEF Corrected
  <2>5. m.links[l] # All
    <3>1. CASE l \in wanted
      <4>1. j.app \in m.links[l] /\ name \in m.links[l] /\ j.app # name
        BY <1>1, <2>2, <2>3, <3>1 DEF Corrected
      <4>2. QED BY <4>1 DEF All
    <3>2. CASE l \notin wanted
      <4>1. m.links[l] = f.links[l]
        <5> HIDE DEF wanted
        <5>1. QED BY <2>2, <2>3, <3>2 DEF Corrected
      <4>2. QED BY <1>8, <4>1
    <3>3. QED BY <3>1, <3>2
  <2>6. CASE a = name
    <3>1. OnLink(m, l, a) /\ ~CanRun(f, a, r)
      BY <1>1, <1>4, <1>8, <2>3, <2>6 DEF OnLink, CanRun
    <3>2. QED BY <1>4, <3>1
  <2>7. CASE a # name
    <3>1. OnLink(f, l, a)
      BY <1>4, <1>5, <2>4, <2>5, <2>7 DEF OnLink
    <3>2. CanRun(m, a, r) => CanRun(f, a, r)
      <4>1. CASE a = j.app
        BY <1>1, <4>1, GroupWithoutTool DEF CanRun
      <4>2. CASE a # j.app
        BY <1>1, <2>7, <4>2 DEF CanRun
      <4>3. QED BY <4>1, <4>2
    <3>3. QED BY <1>4, <3>1, <3>2
  <2>8. QED BY <2>6, <2>7
<1>9. QED BY <1>6, <1>7, <1>8

LEMMA AllAreCompatible ==
  ASSUME NEW f, IsSettings(f), NEW j \in Jobs, Accepted(f, j)
  PROVE  Compatible(f, Meaning(f, j), OfferedAtOnce(f, j))
<1>1. j.act \in {"add", "share", "remove", "links"} \cup OneEditActs
  BY ActsAssumption DEF OneEditActs
<1>2. DOMAIN f = Sections
  BY SettingsAreObjects
<1>3. CASE j.act = "share"
  <2>1. Meaning(f, j).commands = f.commands
    BY <1>2, <1>3 DEF Meaning, Sections
  <2>2. QED BY <2>1, SameCommands
<1>4. CASE j.act = "links"
  <2>1. Meaning(f, j).commands = f.commands
    BY <1>2, <1>4 DEF Meaning, Sections
  <2>2. QED BY <2>1, SameCommands
<1>5. CASE j.act = "remove" \/ (j.act = "removeTool" /\ OneTool(f, j.app))
  <2>1. Meaning(f, j) = Removed(f, j.app) /\ j.app # "*"
    BY <1>5, ActsAssumption DEF Meaning
  <2>2. QED BY <2>1, RemovalIsCompatible
<1>6. CASE /\ j.act \in OneEditActs
           /\ j.act = "split" => Single(f.commands[j.app])
           /\ j.act = "removeTool" => ~OneTool(f, j.app)
  <2>1. Meaning(f, j) = f \/ \E e : EditOk(e) /\ Meaning(f, j) = Edited(f, e)
    BY <1>6, SingleIsOneEdit
  <2>2. QED BY <2>1, SameCommands, OneEditIsCompatible
<1>7. QED BY <1>1, <1>3, <1>4, <1>5, <1>6, AddIsCompatible, SplitIsCompatible DEF OneEditActs

LEMMA SplitOfSingle ==
  ASSUME NEW f, NEW j, j.act = "split", Single(f.commands[j.app])
  PROVE  Meaning(f, j) = f
<1>1. FirstEdits(f, j) = << >>
  BY DEF FirstEdits
<1>2. QED BY <1>1 DEF Meaning

\* A tool that is being split off stands somewhere all the time.
LEMMA SplitLosesNothing ==
  ASSUME NEW disk, NEW f, IsSettings(f), NEW j \in Jobs, j.act = "split", Accepted(f, j),
         NEW edits, NEW more, Underway(disk, f, j, Meaning(f, j), edits, more)
  PROVE  AllRuns(f) \subseteq AllRuns(disk)
<1> DEFINE m == Meaning(f, j)
           name == SplitName(f, j.tool)
<1>1. InBetween(disk, f, m) /\ Standing(disk, f, j, m, edits)
  BY DEF Underway
<1>2. SUFFICES ASSUME NEW b, NEW r, CanRun(f, b, r) PROVE \E a : CanRun(disk, a, r)
  BY DEF AllRuns, CanRun
<1>3. ASSUME NEW a, NEW g, CanRun(g, a, r), Agree(disk, g, "commands", a) PROVE CanRun(disk, a, r)
  BY <1>3 DEF CanRun, Agree
<1>4. Agree(disk, f, "commands", b) \/ Agree(disk, m, "commands", b)
  BY <1>1 DEF InBetween, Sections
<1>5. CASE Single(f.commands[j.app])
  <2>1. m = f
    BY <1>5, SplitOfSingle
  <2>2. QED BY <1>2, <1>3, <1>4, <2>1
<1>6. CASE ~Single(f.commands[j.app])
  <2>1. /\ j.app \in DOMAIN f.commands /\ name \notin DOMAIN f.commands
        /\ DOMAIN m.commands = DOMAIN f.commands \cup {name}
        /\ m.commands[name] = Standalone(f, j.app, j.tool)
        /\ m.commands[j.app] = Without(f.commands[j.app], j.tool)
        /\ \A n \in DOMAIN f.commands : n # j.app => m.commands[n] = f.commands[n]
    BY <1>6, SplitIs
  <2>2. Agree(disk, m, "commands", name) \/ Agree(disk, f, "commands", j.app)
    BY <1>1, <1>6 DEF Standing
  <2> HIDE DEF m, name
  <2>3. CASE b # j.app
    <3>1. CanRun(m, b, r)
      BY <1>2, <2>1, <2>3 DEF CanRun
    <3>2. QED BY <1>2, <1>3, <1>4, <3>1
  <2>4. CASE b = j.app /\ Agree(disk, f, "commands", b)
    BY <1>2, <1>3, <2>4
  <2>5. CASE b = j.app /\ ~Agree(disk, f, "commands", b)
    <3>1. Agree(disk, m, "commands", name) /\ Agree(disk, m, "commands", b)
      BY <1>4, <2>2, <2>5
    <3>2. CanRun(m, b, r) \/ CanRun(m, name, r)
      BY <1>2, <1>6, <2>1, <2>5, GroupWithoutTool, RunOfStandalone DEF CanRun
    <3>3. QED BY <1>3, <3>1, <3>2
  <2>6. QED BY <2>3, <2>4, <2>5
<1>7. QED BY <1>5, <1>6

\* What a crash in the middle of an action leaves offers nothing new, but for a new
\* command on a link that named it before (actions.rs, remove_app to add_command).
THEOREM HalfDoneActionsAreSafe == FileSpec => []HalfDoneIsSafe
<1>1. ActionInv => HalfDoneIsSafe
  <2> SUFFICES ASSUME ActionInv, NEW p \in Procs, job[p] # NoJob, ~mixed[p]
               PROVE  /\ Offers(file) \subseteq Offers(snap[p]) \cup Offers(Meaning(snap[p], job[p]))
                                              \cup OfferedAtOnce(snap[p], job[p])
                      /\ job[p].act = "split" => AllRuns(snap[p]) \subseteq AllRuns(file)
    BY DEF HalfDoneIsSafe
  <2>1. job[p] \in Jobs /\ snap[p] # NoFile /\ Accepted(snap[p], job[p]) /\ IsSettings(snap[p])
    BY DEF ActionInv, ChosenInv, ShapeInv
  <2>2. Underway(file, snap[p], job[p], Meaning(snap[p], job[p]), todo[p], later[p])
    BY <2>1 DEF ActionInv, LoneInv
  <2>3. InBetween(file, snap[p], Meaning(snap[p], job[p]))
    BY <2>2 DEF Underway
  <2>4. QED BY <2>1, <2>2, <2>3, AllAreCompatible, CompatibleIsSafe, SplitLosesNothing
<1>2. QED BY ActionInvariance, <1>1, PTL
=============================================================================
