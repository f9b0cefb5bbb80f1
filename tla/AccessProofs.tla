---------------------------- MODULE AccessProofs ----------------------------
(***************************************************************************)
(* Proofs about Access, for every number of grants, links, handlers and    *)
(* streams and every length of life. One inductive invariant, IInv.        *)
(***************************************************************************)
EXTENDS Access, FiniteSetTheorems, TLAPS

\* A grant id that was generated; none is generated twice.
Made(g) == g \in Grants /\ entry[g].link # NoLink

\* The unused refresh tokens of g.
Unused(g) == {t \in TokensOf(g) \ revoked : t.kind = "refresh"}

\* Who is under way works on something that exists or existed.
WorkInv ==
    /\ \A w \in Workers :
         LET h == handler[w] IN
         /\ h.step # "idle" => Made(h.grant)
         /\ h.step \in {"exists", "claim"} =>
               h.token \in Token /\ h.token.kind = "refresh" /\ h.token.grant = h.grant
         /\ h.step = "issue" /\ h.token # NoToken => h.token.grant = h.grant
    /\ cli.step \in {"static", "drop"} => Made(cli.grant)
    /\ reload.step # "idle" =>
          reload.link \in Links /\ \A g \in reload.listed : entry[g].link = reload.link

\* So does what is in the tables, and a grant that is gone stays gone.
TableInv ==
    /\ \A t \in tokens \union answered : Made(t.grant)
    /\ \A g \in grants \union pruned \union revokedHere \union revokedByCli \union overlooked : Made(g)
    /\ (pruned \union revokedHere \union revokedByCli \union overlooked) \intersect grants = {}

\* What a revocation has passed is gone.
PassedInv ==
    /\ \A w \in Workers : At(w, "close") => handler[w].grant \notin grants
    /\ reload.step \in {"tokens", "close"} => reload.listed \intersect grants = {}

\* What is served goes on, or can become an event stream that does, only of a
\* grant that was not revoked, or was overlooked.
Live(s) == stream[s].step \in {"serving", "streaming"} /\ ~stream[s].cancelled
StreamInv == \A s \in Streams : Live(s) => stream[s].token.grant \notin revokedHere \ overlooked

\* One refresh token of a grant waits to be used, and none while its handler
\* makes the next.
RefreshInv ==
    /\ \A g \in Grants : \A t, u \in Unused(g) : t = u
    /\ \A w \in Workers : handler[w].step \in {"issue", "pair"} => Unused(handler[w].grant) = {}

\* Used tokens are refresh tokens, and their rows stay until they expire.
UsedInv == \A t \in used : t.kind = "refresh" /\ (t.expires_at >= now => t \in revoked)

\* A grant is swept when it is old and empty; while the token it is refreshed
\* with has not expired, that token is still a row, so that it is not.
SweepInv ==
    /\ \A g \in pruned : Slow(g)
    /\ \A w \in Workers :
         LET h == handler[w] IN
         /\ h.step \in {"exists", "claim"} /\ h.token.expires_at >= now => h.token \in tokens
         /\ h.step = "claim" /\ h.token.expires_at >= now => h.grant \notin pruned
         /\ h.step = "issue" /\ h.token # NoToken /\ h.token.expires_at >= now =>
               h.token \in used /\ h.token \in tokens /\ h.grant \notin pruned

IInv ==
    /\ TypeOK
    /\ WorkInv
    /\ TableInv
    /\ PassedInv
    /\ StreamInv
    /\ RefreshInv
    /\ UsedInv
    /\ SweepInv
    /\ SweepSparesLiveGrants
-----------------------------------------------------------------------------
(* One lemma per action: it keeps IInv.                                    *)

LEMMA FreshType ==
  ASSUME TypeOK, NEW g \in Grants, NEW k \in {"access", "refresh", "static"}, NEW e \in Nat
  PROVE  Fresh(g, k, e) \in Token
  BY AccessAssumption DEF TypeOK, Fresh, Token

LEMMA InsertType ==
  ASSUME TypeOK, NEW t \in Token, Insert(t)
  PROVE  /\ tokens' \in SUBSET Token /\ revoked \in SUBSET tokens'
         /\ issued' \in [Grants -> 0..MaxIssued]
<1>1. t.grant \in Grants /\ issued[t.grant] + 1 \in 0..MaxIssued
  BY AccessAssumption DEF TypeOK, Insert, Token
<1>2. QED BY <1>1 DEF TypeOK, Insert

LEMMA StartType ==
  ASSUME NEW step \in {"issue", "exists", "revoke"}, NEW g \in Grants,
         NEW t \in Token \union {NoToken}
  PROVE  [Idle EXCEPT !.step = step, !.grant = g, !.token = t] \in HandlerState
  BY DEF Idle, HandlerState

LEMMA CloseType ==
  ASSUME TypeOK, NEW gs, CloseStreams(gs)
  PROVE  stream' \in [Streams -> StreamState]
<1>1. \A s \in Streams : [stream[s] EXCEPT !.cancelled = TRUE] \in StreamState
  BY DEF TypeOK, StreamState
<1>2. QED BY <1>1 DEF TypeOK, CloseStreams

\* A new grant: nothing anywhere has its id.
LEMMA ExchangeStep ==
  ASSUME IInv, NEW w \in Workers, NEW g \in Grants, NEW l \in Links, Exchange(w, g, l)
  PROVE  IInv'
<1> USE AccessAssumption DEF At, Made, tables, history
<1>0. /\ TypeOK /\ WorkInv /\ TableInv /\ PassedInv
      /\ StreamInv /\ RefreshInv /\ UsedInv /\ SweepInv
      /\ SweepSparesLiveGrants
  BY DEF IInv
<1>1. TypeOK'
  <2>1. [Idle EXCEPT !.step = "issue", !.grant = g] \in HandlerState
    BY DEF Idle, HandlerState
  <2>2. handler' \in [Workers -> HandlerState]
    BY <1>0, <2>1 DEF Exchange, TypeOK
  <2>3. handler'[w].step = "issue" /\ \A v \in Workers \ {w} : handler'[v] = handler[v]
    BY <1>0 DEF Exchange, Idle, TypeOK
  <2>4. (\A v \in Workers : ~At(v, "idle") <=> lockedBy = v)'
    BY <1>0, <2>3 DEF Exchange, Acquire, TypeOK, Nobody
  <2>5. entry' \in [Grants -> [link : Links \union {NoLink}, created_at : Nat]]
    BY <1>0 DEF Exchange, InsertGrant, TypeOK
  <2>6. QED BY <1>0, <2>2, <2>4, <2>5 DEF Exchange, Acquire, InsertGrant, TypeOK, Reloader, Nobody
<1>2. WorkInv'
  BY <1>0 DEF Exchange, Acquire, InsertGrant, Idle, Nobody, WorkInv, TypeOK, HandlerState,
      ReloadState, CliState, TableInv, On
<1>3. TableInv'
  BY <1>0 DEF Exchange, Acquire, InsertGrant, Idle, Nobody, TableInv, WorkInv, TypeOK,
      HandlerState, ReloadState, CliState, Token
<1>4. PassedInv'
  BY <1>0 DEF Exchange, Acquire, InsertGrant, Idle, Nobody, PassedInv, WorkInv, TypeOK,
      HandlerState, ReloadState, On, Reloader
<1>5. StreamInv'
  BY <1>0 DEF Exchange, Acquire, InsertGrant, Idle, Nobody, StreamInv, Live,
      TableInv, TypeOK, StreamState
<1>6. RefreshInv'
  BY <1>0 DEF Exchange, Acquire, InsertGrant, Idle, Nobody, RefreshInv, Unused, TokensOf,
      WorkInv, TableInv, TypeOK, HandlerState, Token
<1>7. UsedInv'
  BY <1>0 DEF Exchange, Acquire, InsertGrant, Idle, Nobody, UsedInv, WorkInv, TypeOK, Token,
      HandlerState
<1>8. SweepInv'
  BY <1>0 DEF Exchange, Acquire, InsertGrant, Idle, Nobody, SweepInv, Slow, UsedInv, TableInv,
      WorkInv, TypeOK, HandlerState, Token
<1>9. SweepSparesLiveGrants'
  BY <1>0 DEF Exchange, Acquire, InsertGrant, Idle, Nobody, SweepSparesLiveGrants, Usable,
      SweepInv, TableInv, Slow, WorkInv, TypeOK, Token, HandlerState
<1>10. QED BY <1>1, <1>2, <1>3, <1>4, <1>5, <1>6, <1>7, <1>8, <1>9 DEF IInv

\* An access token.
LEMMA IssueAccessStep ==
  ASSUME IInv, NEW w \in Workers, IssueAccess(w)
  PROVE  IInv'
<1> USE AccessAssumption DEF At, Made, tables, history
<1>0. /\ TypeOK /\ WorkInv /\ TableInv /\ PassedInv
      /\ StreamInv /\ RefreshInv /\ UsedInv /\ SweepInv
      /\ SweepSparesLiveGrants
  BY DEF IInv
<1>1. TypeOK'
  <2> DEFINE t == Fresh(handler[w].grant, "access", now + AccessTTL)
  <2>1. t \in Token
    BY <1>0, FreshType DEF IssueAccess, WorkInv, TypeOK
  <2>2. [handler[w] EXCEPT !.step = "pair", !.now = now] \in HandlerState
    <3>1. handler[w] \in HandlerState /\ now \in Nat
      BY <1>0 DEF TypeOK
    <3>2. QED BY <3>1 DEF HandlerState
  <2>3. handler' = [handler EXCEPT ![w] = [handler[w] EXCEPT !.step = "pair", !.now = now]]
    BY <1>0 DEF IssueAccess, TypeOK
  <2>4. handler' \in [Workers -> HandlerState] /\ \A v \in Workers : At(v, "idle")' <=> At(v, "idle")
    BY <1>0, <2>2, <2>3 DEF IssueAccess, TypeOK, HandlerState
  <2>5. Insert(t)
    BY DEF IssueAccess
  <2>6. QED BY <1>0, <2>1, <2>4, <2>5, InsertType DEF IssueAccess, TypeOK
<1>2. WorkInv'
  BY <1>0 DEF IssueAccess, Insert, Fresh, WorkInv, TypeOK, HandlerState, ReloadState, CliState,
      TableInv, On
<1>3. TableInv'
  BY <1>0 DEF IssueAccess, Insert, Fresh, TableInv, WorkInv, TypeOK, HandlerState, ReloadState,
      CliState, Token
<1>4. PassedInv'
  BY <1>0 DEF IssueAccess, Insert, Fresh, PassedInv, WorkInv, TypeOK, HandlerState, ReloadState,
      On, Reloader, Nobody
<1>5. StreamInv'
  BY <1>0 DEF IssueAccess, Insert, Fresh, StreamInv, Live, TableInv, TypeOK,
      StreamState
<1>6. RefreshInv'
  BY <1>0 DEF IssueAccess, Insert, Fresh, RefreshInv, Unused, TokensOf, WorkInv, TableInv,
      TypeOK, HandlerState, Nobody, Token
<1>7. UsedInv'
  BY <1>0 DEF IssueAccess, Insert, Fresh, UsedInv, WorkInv, TypeOK, Token, HandlerState
<1>8. SweepInv'
  BY <1>0 DEF IssueAccess, Insert, Fresh, SweepInv, Slow, UsedInv, TableInv, WorkInv, TypeOK,
      HandlerState, Token
<1>9. SweepSparesLiveGrants'
  BY <1>0 DEF IssueAccess, Insert, Fresh, SweepSparesLiveGrants, Usable, SweepInv, TableInv,
      Slow, WorkInv, TypeOK, Token, HandlerState
<1>10. QED BY <1>1, <1>2, <1>3, <1>4, <1>5, <1>6, <1>7, <1>8, <1>9 DEF IInv

\* The next refresh token, when none is unused.
LEMMA IssueRefreshStep ==
  ASSUME IInv, NEW w \in Workers, IssueRefresh(w)
  PROVE  IInv'
<1> USE AccessAssumption DEF At, Made, tables, history
<1>0. /\ TypeOK /\ WorkInv /\ TableInv /\ PassedInv
      /\ StreamInv /\ RefreshInv /\ UsedInv /\ SweepInv
      /\ SweepSparesLiveGrants
  BY DEF IInv
<1>1. TypeOK'
  <2> DEFINE t == Fresh(handler[w].grant, "refresh", handler[w].now + RefreshTTL)
  <2>1. t \in Token
    BY <1>0, FreshType DEF IssueRefresh, WorkInv, TypeOK, HandlerState
  <2>2. Idle \in HandlerState
    BY DEF Idle, HandlerState
  <2>3. handler' \in [Workers -> HandlerState]
        /\ At(w, "idle")' /\ \A v \in Workers \ {w} : handler'[v] = handler[v]
    BY <1>0, <2>2 DEF IssueRefresh, Return, TypeOK, Idle
  <2>4. (\A v \in Workers : ~At(v, "idle") <=> lockedBy = v)'
    BY <1>0, <2>3 DEF IssueRefresh, Release, TypeOK, Nobody
  <2>5. Insert(t)
    BY DEF IssueRefresh
  <2>6. answered' \in SUBSET Token
    BY <1>0, <2>1 DEF IssueRefresh, TokensOf, TypeOK
  <2>7. QED BY <1>0, <2>1, <2>3, <2>4, <2>5, <2>6, InsertType
            DEF IssueRefresh, Release, TypeOK, Reloader, Nobody
<1>2. WorkInv'
  BY <1>0 DEF IssueRefresh, Insert, Fresh, Return, Release, Idle, WorkInv, TypeOK, HandlerState,
      ReloadState, CliState, TableInv, On
<1>3. TableInv'
  <2>1. Made(handler[w].grant)
    BY <1>0 DEF IssueRefresh, WorkInv
  <2>2. \A t \in tokens' \union answered' : t \in tokens \union answered \/ t.grant = handler[w].grant
    BY DEF IssueRefresh, Insert, Fresh, TokensOf
  <2>3. QED BY <1>0, <2>1, <2>2 DEF IssueRefresh, TableInv
<1>4. PassedInv'
  BY <1>0 DEF IssueRefresh, Insert, Fresh, Return, Release, Idle, PassedInv, WorkInv, TypeOK,
      HandlerState, ReloadState, On, Reloader, Nobody
<1>5. StreamInv'
  BY <1>0 DEF IssueRefresh, Insert, Fresh, Return, Release, Idle, StreamInv,
      Live, TableInv, TypeOK, StreamState
<1>6. RefreshInv'
  BY <1>0 DEF IssueRefresh, Insert, Fresh, Return, Release, Idle, RefreshInv, Unused, TokensOf,
      WorkInv, TableInv, TypeOK, HandlerState, Nobody, Token
<1>7. UsedInv'
  BY <1>0 DEF IssueRefresh, Insert, Fresh, Return, Release, Idle, UsedInv, WorkInv, TypeOK,
      Token, HandlerState
<1>8. SweepInv'
  BY <1>0 DEF IssueRefresh, Insert, Fresh, Return, Release, Idle, SweepInv, Slow, UsedInv,
      TableInv, WorkInv, TypeOK, HandlerState, Token
<1>9. SweepSparesLiveGrants'
  BY <1>0 DEF IssueRefresh, Insert, Fresh, Return, Release, Idle, SweepSparesLiveGrants, Usable,
      SweepInv, TableInv, Slow, WorkInv, TypeOK, Token, HandlerState
<1>10. QED BY <1>1, <1>2, <1>3, <1>4, <1>5, <1>6, <1>7, <1>8, <1>9 DEF IInv

\* A refresh begins.
LEMMA RefreshFindStep ==
  ASSUME IInv, NEW w \in Workers, NEW t \in answered \intersect tokens, RefreshFind(w, t)
  PROVE  IInv'
<1> USE AccessAssumption DEF At, Made, tables, history
<1>0. /\ TypeOK /\ WorkInv /\ TableInv /\ PassedInv
      /\ StreamInv /\ RefreshInv /\ UsedInv /\ SweepInv
      /\ SweepSparesLiveGrants
  BY DEF IInv
<1>1. TypeOK'
  <2>1. t \in Token /\ t.grant \in Grants
    BY <1>0 DEF TypeOK, Token
  <2>2. [Idle EXCEPT !.step = "exists", !.grant = t.grant, !.token = t] \in HandlerState
    BY <2>1, StartType
  <2>3. handler' \in [Workers -> HandlerState]
    BY <1>0, <2>2 DEF RefreshFind, TypeOK
  <2>4. handler'[w].step = "exists" /\ \A v \in Workers \ {w} : handler'[v] = handler[v]
    BY <1>0 DEF RefreshFind, Idle, TypeOK
  <2>5. (\A v \in Workers : ~At(v, "idle") <=> lockedBy = v)'
    BY <1>0, <2>4 DEF RefreshFind, Acquire, TypeOK, Nobody
  <2>6. QED BY <1>0, <2>3, <2>5 DEF RefreshFind, Acquire, TypeOK, Reloader, Nobody
<1>2. WorkInv'
  BY <1>0 DEF RefreshFind, Acquire, Idle, Nobody, WorkInv, TypeOK, HandlerState, ReloadState,
      CliState, TableInv, On
<1>3. TableInv'
  BY <1>0 DEF RefreshFind, Acquire, Idle, Nobody, TableInv, WorkInv, TypeOK, HandlerState,
      ReloadState, CliState, Token
<1>4. PassedInv'
  BY <1>0 DEF RefreshFind, Acquire, Idle, Nobody, PassedInv, WorkInv, TypeOK, HandlerState,
      ReloadState, On, Reloader
<1>5. StreamInv'
  BY <1>0 DEF RefreshFind, Acquire, Idle, Nobody, StreamInv, Live, TableInv,
      TypeOK, StreamState
<1>6. RefreshInv'
  BY <1>0 DEF RefreshFind, Acquire, Idle, Nobody, RefreshInv, Unused, TokensOf, WorkInv,
      TableInv, TypeOK, HandlerState, Token
<1>7. UsedInv'
  BY <1>0 DEF RefreshFind, Acquire, Idle, Nobody, UsedInv, WorkInv, TypeOK, Token, HandlerState
<1>8. SweepInv'
  BY <1>0 DEF RefreshFind, Acquire, Idle, Nobody, SweepInv, Slow, UsedInv, TableInv, WorkInv,
      TypeOK, HandlerState, Token
<1>9. SweepSparesLiveGrants'
  BY <1>0 DEF RefreshFind, Acquire, Idle, Nobody, SweepSparesLiveGrants, Usable, SweepInv,
      TableInv, Slow, WorkInv, TypeOK, Token, HandlerState
<1>10. QED BY <1>1, <1>2, <1>3, <1>4, <1>5, <1>6, <1>7, <1>8, <1>9 DEF IInv

\* Its grant is there, or not.
LEMMA RefreshExistsStep ==
  ASSUME IInv, NEW w \in Workers, RefreshExists(w)
  PROVE  IInv'
<1> USE AccessAssumption DEF At, Made, tables, history
<1>0. /\ TypeOK /\ WorkInv /\ TableInv /\ PassedInv
      /\ StreamInv /\ RefreshInv /\ UsedInv /\ SweepInv
      /\ SweepSparesLiveGrants
  BY DEF IInv
<1>1. TypeOK'
  BY <1>0, SMTT(30) DEF RefreshExists, Go, Return, Release, Idle, TypeOK, HandlerState, ReloadState,
      CliState, StreamState, Reloader, Nobody, Token
<1>2. WorkInv'
  BY <1>0 DEF RefreshExists, Go, Return, Release, Idle, WorkInv, TypeOK, HandlerState,
      ReloadState, CliState, TableInv, On
<1>3. TableInv'
  BY <1>0 DEF RefreshExists, Go, Return, Release, Idle, TableInv, WorkInv, TypeOK, HandlerState,
      ReloadState, CliState, Token
<1>4. PassedInv'
  BY <1>0 DEF RefreshExists, Go, Return, Release, Idle, PassedInv, WorkInv, TypeOK,
      HandlerState, ReloadState, On, Reloader, Nobody
<1>5. StreamInv'
  BY <1>0 DEF RefreshExists, Go, Return, Release, Idle, StreamInv, Live,
      TableInv, TypeOK, StreamState
<1>6. RefreshInv'
  BY <1>0 DEF RefreshExists, Go, Return, Release, Idle, RefreshInv, Unused, TokensOf, WorkInv,
      TableInv, TypeOK, HandlerState, Nobody, Token
<1>7. UsedInv'
  BY <1>0 DEF RefreshExists, Go, Return, Release, Idle, UsedInv, WorkInv, TypeOK, Token,
      HandlerState
<1>8. SweepInv'
  BY <1>0 DEF RefreshExists, Go, Return, Release, Idle, SweepInv, Slow, UsedInv, TableInv,
      WorkInv, TypeOK, HandlerState, Token
<1>9. SweepSparesLiveGrants'
  BY <1>0 DEF RefreshExists, Go, Return, Release, Idle, SweepSparesLiveGrants, Usable, SweepInv,
      TableInv, Slow, WorkInv, TypeOK, Token, HandlerState
<1>10. QED BY <1>1, <1>2, <1>3, <1>4, <1>5, <1>6, <1>7, <1>8, <1>9 DEF IInv

\* The token is used, unless it was before.
LEMMA RefreshClaimStep ==
  ASSUME IInv, NEW w \in Workers, RefreshClaim(w)
  PROVE  IInv'
<1> USE AccessAssumption DEF At, Made, tables, history
<1>0. /\ TypeOK /\ WorkInv /\ TableInv /\ PassedInv
      /\ StreamInv /\ RefreshInv /\ UsedInv /\ SweepInv
      /\ SweepSparesLiveGrants
  BY DEF IInv
<1>1. TypeOK'
  BY <1>0, SMTT(30) DEF RefreshClaim, Claimable, Go, TypeOK, HandlerState, ReloadState, CliState,
      StreamState, Reloader, Nobody, Token
<1>2. WorkInv'
  BY <1>0 DEF RefreshClaim, Claimable, Go, WorkInv, TypeOK, HandlerState, ReloadState, CliState,
      TableInv, On
<1>3. TableInv'
  BY <1>0 DEF RefreshClaim, Claimable, Go, TableInv, WorkInv, TypeOK, HandlerState, ReloadState,
      CliState, Token
<1>4. PassedInv'
  BY <1>0 DEF RefreshClaim, Claimable, Go, PassedInv, WorkInv, TypeOK, HandlerState,
      ReloadState, On, Reloader, Nobody
<1>5. StreamInv'
  BY <1>0 DEF RefreshClaim, Claimable, Go, StreamInv, Live, TableInv, TypeOK,
      StreamState
<1>6. RefreshInv'
  <2>0. PICK g \in Grants, t \in Token : g = handler[w].grant /\ t = handler[w].token
    BY <1>0 DEF RefreshClaim, WorkInv
  <2>1. t.kind = "refresh" /\ t.grant = g
    BY <1>0, <2>0 DEF RefreshClaim, WorkInv
  <2>2. \A v \in Workers \ {w} : handler[v].step \notin {"issue", "pair"} /\ handler'[v] = handler[v]
    BY <1>0 DEF RefreshClaim, Go, TypeOK
  <2>3. handler'[w].grant = g /\ handler'[w].step \in {"issue", "revoke"}
    BY <1>0, <2>0 DEF RefreshClaim, Go, TypeOK, HandlerState
  <2>4. \A h \in Grants : Unused(h)' \subseteq Unused(h)
    BY DEF RefreshClaim, Unused, TokensOf
  <2>5. CASE Claimable(t)
    <3>1. t \in Unused(g) /\ t \notin Unused(g)'
      BY <2>0, <2>1, <2>5 DEF RefreshClaim, Claimable, Unused, TokensOf
    <3>2. Unused(g)' = {}
      BY <1>0, <2>4, <3>1 DEF RefreshInv
    <3>3. QED BY <1>0, <2>2, <2>3, <2>4, <3>2 DEF RefreshInv
  <2>6. CASE ~Claimable(t)
    <3>1. handler'[w].step = "revoke"
      BY <1>0, <2>0, <2>6 DEF RefreshClaim, Go, TypeOK, HandlerState
    <3>2. QED BY <1>0, <2>2, <2>4, <3>1 DEF RefreshInv
  <2>7. QED BY <2>5, <2>6
<1>7. UsedInv'
  BY <1>0 DEF RefreshClaim, Claimable, Go, UsedInv, WorkInv, TypeOK, Token, HandlerState
<1>8. SweepInv'
  <2>1. \A v \in Workers \ {w} : handler'[v] = handler[v]
    BY <1>0 DEF RefreshClaim, Go, TypeOK
  <2>2. /\ handler[w].step = "claim" /\ handler'[w].step \in {"issue", "revoke"}
        /\ handler'[w].token = handler[w].token /\ handler'[w].grant = handler[w].grant
    BY <1>0 DEF RefreshClaim, Go, TypeOK, HandlerState
  <2>3. handler'[w].step = "issue" => handler[w].token \in used'
    BY <1>0, <2>2 DEF RefreshClaim, Claimable, Go, TypeOK, HandlerState
  <2>4. used \subseteq used' /\ UNCHANGED <<now, tokens, pruned, entry>>
    BY DEF RefreshClaim
  <2>5. QED BY <1>0, <2>1, <2>2, <2>3, <2>4 DEF SweepInv, Slow
<1>9. SweepSparesLiveGrants'
  BY <1>0 DEF RefreshClaim, Claimable, Go, SweepSparesLiveGrants, Usable, SweepInv, TableInv,
      Slow, WorkInv, TypeOK, Token, HandlerState
<1>10. QED BY <1>1, <1>2, <1>3, <1>4, <1>5, <1>6, <1>7, <1>8, <1>9 DEF IInv

\* A revocation begins.
LEMMA RevokeFindStep ==
  ASSUME IInv, NEW w \in Workers, NEW t \in answered \intersect tokens, RevokeFind(w, t)
  PROVE  IInv'
<1> USE AccessAssumption DEF At, Made, tables, history
<1>0. /\ TypeOK /\ WorkInv /\ TableInv /\ PassedInv
      /\ StreamInv /\ RefreshInv /\ UsedInv /\ SweepInv
      /\ SweepSparesLiveGrants
  BY DEF IInv
<1>1. TypeOK'
  <2>1. t \in Token /\ t.grant \in Grants
    BY <1>0 DEF TypeOK, Token
  <2>2. [Idle EXCEPT !.step = "revoke", !.grant = t.grant] \in HandlerState
    BY <2>1 DEF Idle, HandlerState
  <2>3. handler' \in [Workers -> HandlerState]
    BY <1>0, <2>2 DEF RevokeFind, TypeOK
  <2>4. handler'[w].step = "revoke" /\ \A v \in Workers \ {w} : handler'[v] = handler[v]
    BY <1>0 DEF RevokeFind, Idle, TypeOK
  <2>5. (\A v \in Workers : ~At(v, "idle") <=> lockedBy = v)'
    BY <1>0, <2>4 DEF RevokeFind, Acquire, TypeOK, Nobody
  <2>6. QED BY <1>0, <2>3, <2>5 DEF RevokeFind, Acquire, TypeOK, Reloader, Nobody
<1>2. WorkInv'
  BY <1>0 DEF RevokeFind, Acquire, Idle, Nobody, WorkInv, TypeOK, HandlerState, ReloadState,
      CliState, TableInv, On
<1>3. TableInv'
  BY <1>0 DEF RevokeFind, Acquire, Idle, Nobody, TableInv, WorkInv, TypeOK, HandlerState,
      ReloadState, CliState, Token
<1>4. PassedInv'
  BY <1>0 DEF RevokeFind, Acquire, Idle, Nobody, PassedInv, WorkInv, TypeOK, HandlerState,
      ReloadState, On, Reloader
<1>5. StreamInv'
  BY <1>0 DEF RevokeFind, Acquire, Idle, Nobody, StreamInv, Live, TableInv,
      TypeOK, StreamState
<1>6. RefreshInv'
  BY <1>0 DEF RevokeFind, Acquire, Idle, Nobody, RefreshInv, Unused, TokensOf, WorkInv,
      TableInv, TypeOK, HandlerState, Token
<1>7. UsedInv'
  BY <1>0 DEF RevokeFind, Acquire, Idle, Nobody, UsedInv, WorkInv, TypeOK, Token, HandlerState
<1>8. SweepInv'
  BY <1>0 DEF RevokeFind, Acquire, Idle, Nobody, SweepInv, Slow, UsedInv, TableInv, WorkInv,
      TypeOK, HandlerState, Token
<1>9. SweepSparesLiveGrants'
  BY <1>0 DEF RevokeFind, Acquire, Idle, Nobody, SweepSparesLiveGrants, Usable, SweepInv,
      TableInv, Slow, WorkInv, TypeOK, Token, HandlerState
<1>10. QED BY <1>1, <1>2, <1>3, <1>4, <1>5, <1>6, <1>7, <1>8, <1>9 DEF IInv

\* The tokens of a grant are revoked.
LEMMA RevokeTokensStep ==
  ASSUME IInv, NEW w \in Workers, RevokeTokens(w)
  PROVE  IInv'
<1> USE AccessAssumption DEF At, Made, tables, history
<1>0. /\ TypeOK /\ WorkInv /\ TableInv /\ PassedInv
      /\ StreamInv /\ RefreshInv /\ UsedInv /\ SweepInv
      /\ SweepSparesLiveGrants
  BY DEF IInv
<1>1. TypeOK'
  BY <1>0 DEF RevokeTokens, Go, TokensOf, TypeOK, HandlerState, ReloadState, CliState,
      StreamState, Reloader, Nobody, Token
<1>2. WorkInv'
  BY <1>0 DEF RevokeTokens, Go, TokensOf, WorkInv, TypeOK, HandlerState, ReloadState, CliState,
      TableInv, On
<1>3. TableInv'
  BY <1>0 DEF RevokeTokens, Go, TokensOf, TableInv, WorkInv, TypeOK, HandlerState, ReloadState,
      CliState, Token
<1>4. PassedInv'
  BY <1>0 DEF RevokeTokens, Go, TokensOf, PassedInv, WorkInv, TypeOK, HandlerState, ReloadState,
      On, Reloader, Nobody
<1>5. StreamInv'
  BY <1>0 DEF RevokeTokens, Go, TokensOf, StreamInv, Live, TableInv, TypeOK,
      StreamState
<1>6. RefreshInv'
  BY <1>0 DEF RevokeTokens, Go, TokensOf, RefreshInv, Unused, WorkInv, TableInv, TypeOK,
      HandlerState, Nobody, Token
<1>7. UsedInv'
  BY <1>0 DEF RevokeTokens, Go, TokensOf, UsedInv, WorkInv, TypeOK, Token, HandlerState
<1>8. SweepInv'
  BY <1>0 DEF RevokeTokens, Go, TokensOf, SweepInv, Slow, UsedInv, TableInv, WorkInv, TypeOK,
      HandlerState, Token
<1>9. SweepSparesLiveGrants'
  BY <1>0 DEF RevokeTokens, Go, TokensOf, SweepSparesLiveGrants, Usable, SweepInv, TableInv,
      Slow, WorkInv, TypeOK, Token, HandlerState
<1>10. QED BY <1>1, <1>2, <1>3, <1>4, <1>5, <1>6, <1>7, <1>8, <1>9 DEF IInv

\* The grant goes.
LEMMA RevokeDropStep ==
  ASSUME IInv, NEW w \in Workers, RevokeDrop(w)
  PROVE  IInv'
<1> USE AccessAssumption DEF At, Made, tables, history
<1>0. /\ TypeOK /\ WorkInv /\ TableInv /\ PassedInv
      /\ StreamInv /\ RefreshInv /\ UsedInv /\ SweepInv
      /\ SweepSparesLiveGrants
  BY DEF IInv
<1>1. TypeOK'
  BY <1>0 DEF RevokeDrop, Go, TypeOK, HandlerState, ReloadState, CliState, StreamState,
      Reloader, Nobody, Token
<1>2. WorkInv'
  BY <1>0 DEF RevokeDrop, Go, WorkInv, TypeOK, HandlerState, ReloadState, CliState, TableInv, On
<1>3. TableInv'
  BY <1>0 DEF RevokeDrop, Go, TableInv, WorkInv, TypeOK, HandlerState, ReloadState, CliState,
      Token
<1>4. PassedInv'
  BY <1>0 DEF RevokeDrop, Go, PassedInv, WorkInv, TypeOK, HandlerState, ReloadState, On,
      Reloader, Nobody
<1>5. StreamInv'
  BY <1>0 DEF RevokeDrop, Go, StreamInv, Live, TableInv, TypeOK, StreamState
<1>6. RefreshInv'
  BY <1>0 DEF RevokeDrop, Go, RefreshInv, Unused, TokensOf, WorkInv, TableInv, TypeOK,
      HandlerState, Nobody, Token
<1>7. UsedInv'
  BY <1>0 DEF RevokeDrop, Go, UsedInv, WorkInv, TypeOK, Token, HandlerState
<1>8. SweepInv'
  BY <1>0 DEF RevokeDrop, Go, SweepInv, Slow, UsedInv, TableInv, WorkInv, TypeOK, HandlerState,
      Token
<1>9. SweepSparesLiveGrants'
  BY <1>0 DEF RevokeDrop, Go, SweepSparesLiveGrants, Usable, SweepInv, TableInv, Slow, WorkInv,
      TypeOK, Token, HandlerState
<1>10. QED BY <1>1, <1>2, <1>3, <1>4, <1>5, <1>6, <1>7, <1>8, <1>9 DEF IInv

\* Its streams are cancelled: from here on it counts as revoked.
LEMMA RevokeCloseStep ==
  ASSUME IInv, NEW w \in Workers, RevokeClose(w)
  PROVE  IInv'
<1> USE AccessAssumption DEF At, Made, tables, history
<1>0. /\ TypeOK /\ WorkInv /\ TableInv /\ PassedInv
      /\ StreamInv /\ RefreshInv /\ UsedInv /\ SweepInv
      /\ SweepSparesLiveGrants
  BY DEF IInv
<1>1. TypeOK'
  <2>1. stream' \in [Streams -> StreamState]
    BY <1>0, CloseType DEF RevokeClose
  <2>2. Idle \in HandlerState
    BY DEF Idle, HandlerState
  <2>3. handler' \in [Workers -> HandlerState]
        /\ At(w, "idle")' /\ \A v \in Workers \ {w} : handler'[v] = handler[v]
    BY <1>0, <2>2 DEF RevokeClose, Return, TypeOK, Idle
  <2>4. (\A v \in Workers : ~At(v, "idle") <=> lockedBy = v)'
    BY <1>0, <2>3 DEF RevokeClose, Release, TypeOK, Nobody
  <2>5. handler[w].grant \in Grants
    BY <1>0 DEF RevokeClose, WorkInv
  <2>6. QED BY <1>0, <2>1, <2>3, <2>4, <2>5 DEF RevokeClose, Release, TypeOK, Reloader, Nobody
<1>2. WorkInv'
  BY <1>0 DEF RevokeClose, CloseStreams, Open, Return, Release, Idle, WorkInv, TypeOK,
      HandlerState, ReloadState, CliState, TableInv, On
<1>3. TableInv'
  <2>1. Made(handler[w].grant) /\ handler[w].grant \notin grants
    BY <1>0 DEF RevokeClose, WorkInv, PassedInv
  <2>2. QED BY <1>0, <2>1 DEF RevokeClose, TableInv
<1>4. PassedInv'
  BY <1>0 DEF RevokeClose, CloseStreams, Open, Return, Release, Idle, PassedInv, WorkInv,
      TypeOK, HandlerState, ReloadState, On, Reloader, Nobody
<1>5. StreamInv'
  BY <1>0 DEF RevokeClose, CloseStreams, Open, Return, Release, Idle,
      StreamInv, Live, TableInv, TypeOK, StreamState
<1>6. RefreshInv'
  BY <1>0 DEF RevokeClose, CloseStreams, Open, Return, Release, Idle, RefreshInv, Unused,
      TokensOf, WorkInv, TableInv, TypeOK, HandlerState, Nobody, Token
<1>7. UsedInv'
  BY <1>0 DEF RevokeClose, CloseStreams, Open, Return, Release, Idle, UsedInv, WorkInv, TypeOK,
      Token, HandlerState
<1>8. SweepInv'
  BY <1>0 DEF RevokeClose, CloseStreams, Open, Return, Release, Idle, SweepInv, Slow, UsedInv,
      TableInv, WorkInv, TypeOK, HandlerState, Token
<1>9. SweepSparesLiveGrants'
  BY <1>0 DEF RevokeClose, CloseStreams, Open, Return, Release, Idle, SweepSparesLiveGrants,
      Usable, SweepInv, TableInv, Slow, WorkInv, TypeOK, Token, HandlerState
<1>10. QED BY <1>1, <1>2, <1>3, <1>4, <1>5, <1>6, <1>7, <1>8, <1>9 DEF IInv

\* A failed statement.
LEMMA StoreFailsStep ==
  ASSUME IInv, NEW w \in Workers, StoreFails(w)
  PROVE  IInv'
<1> USE AccessAssumption DEF At, Made, tables, history
<1>0. /\ TypeOK /\ WorkInv /\ TableInv /\ PassedInv
      /\ StreamInv /\ RefreshInv /\ UsedInv /\ SweepInv
      /\ SweepSparesLiveGrants
  BY DEF IInv
<1>1. TypeOK'
  BY <1>0 DEF StoreFails, Return, Release, Idle, TypeOK, HandlerState, ReloadState, CliState,
      StreamState, Reloader, Nobody, Token
<1>2. WorkInv'
  BY <1>0 DEF StoreFails, Return, Release, Idle, WorkInv, TypeOK, HandlerState, ReloadState,
      CliState, TableInv, On
<1>3. TableInv'
  BY <1>0 DEF StoreFails, Return, Release, Idle, TableInv, WorkInv, TypeOK, HandlerState,
      ReloadState, CliState, Token
<1>4. PassedInv'
  BY <1>0 DEF StoreFails, Return, Release, Idle, PassedInv, WorkInv, TypeOK, HandlerState,
      ReloadState, On, Reloader, Nobody
<1>5. StreamInv'
  BY <1>0 DEF StoreFails, Return, Release, Idle, StreamInv, Live, TableInv,
      TypeOK, StreamState
<1>6. RefreshInv'
  BY <1>0 DEF StoreFails, Return, Release, Idle, RefreshInv, Unused, TokensOf, WorkInv,
      TableInv, TypeOK, HandlerState, Nobody, Token
<1>7. UsedInv'
  BY <1>0 DEF StoreFails, Return, Release, Idle, UsedInv, WorkInv, TypeOK, Token, HandlerState
<1>8. SweepInv'
  BY <1>0 DEF StoreFails, Return, Release, Idle, SweepInv, Slow, UsedInv, TableInv, WorkInv,
      TypeOK, HandlerState, Token
<1>9. SweepSparesLiveGrants'
  BY <1>0 DEF StoreFails, Return, Release, Idle, SweepSparesLiveGrants, Usable, SweepInv,
      TableInv, Slow, WorkInv, TypeOK, Token, HandlerState
<1>10. QED BY <1>1, <1>2, <1>3, <1>4, <1>5, <1>6, <1>7, <1>8, <1>9 DEF IInv

\* The reload lists the grants of a link.
LEMMA ReloadListStep ==
  ASSUME IInv, NEW l \in Links, ReloadList(l)
  PROVE  IInv'
<1> USE AccessAssumption DEF At, Made, tables, history
<1>0. /\ TypeOK /\ WorkInv /\ TableInv /\ PassedInv
      /\ StreamInv /\ RefreshInv /\ UsedInv /\ SweepInv
      /\ SweepSparesLiveGrants
  BY DEF IInv
<1>1. TypeOK'
  BY <1>0 DEF ReloadList, Acquire, On, Nobody, Reloader, TypeOK, HandlerState, ReloadState,
      CliState, StreamState, Token
<1>2. WorkInv'
  BY <1>0 DEF ReloadList, Acquire, On, Nobody, Reloader, WorkInv, TypeOK, HandlerState,
      ReloadState, CliState, TableInv
<1>3. TableInv'
  BY <1>0 DEF ReloadList, Acquire, On, Nobody, Reloader, TableInv, WorkInv, TypeOK,
      HandlerState, ReloadState, CliState, Token
<1>4. PassedInv'
  BY <1>0 DEF ReloadList, Acquire, On, Nobody, Reloader, PassedInv, WorkInv, TypeOK,
      HandlerState, ReloadState
<1>5. StreamInv'
  BY <1>0 DEF ReloadList, Acquire, On, Nobody, Reloader, StreamInv, Live,
      TableInv, TypeOK, StreamState
<1>6. RefreshInv'
  BY <1>0 DEF ReloadList, Acquire, On, Nobody, Reloader, RefreshInv, Unused, TokensOf, WorkInv,
      TableInv, TypeOK, HandlerState, Token
<1>7. UsedInv'
  BY <1>0 DEF ReloadList, Acquire, On, Nobody, Reloader, UsedInv, WorkInv, TypeOK, Token,
      HandlerState
<1>8. SweepInv'
  BY <1>0 DEF ReloadList, Acquire, On, Nobody, Reloader, SweepInv, Slow, UsedInv, TableInv,
      WorkInv, TypeOK, HandlerState, Token
<1>9. SweepSparesLiveGrants'
  BY <1>0 DEF ReloadList, Acquire, On, Nobody, Reloader, SweepSparesLiveGrants, Usable,
      SweepInv, TableInv, Slow, WorkInv, TypeOK, Token, HandlerState
<1>10. QED BY <1>1, <1>2, <1>3, <1>4, <1>5, <1>6, <1>7, <1>8, <1>9 DEF IInv

\* It deletes all there are on the link.
LEMMA ReloadGrantsStep ==
  ASSUME IInv, ReloadGrants
  PROVE  IInv'
<1> USE AccessAssumption DEF At, Made, tables, history
<1>0. /\ TypeOK /\ WorkInv /\ TableInv /\ PassedInv
      /\ StreamInv /\ RefreshInv /\ UsedInv /\ SweepInv
      /\ SweepSparesLiveGrants
  BY DEF IInv
<1>1. TypeOK'
  BY <1>0 DEF ReloadGrants, On, TypeOK, HandlerState, ReloadState, CliState, StreamState,
      Reloader, Nobody, Token
<1>2. WorkInv'
  BY <1>0 DEF ReloadGrants, On, WorkInv, TypeOK, HandlerState, ReloadState, CliState, TableInv
<1>3. TableInv'
  BY <1>0 DEF ReloadGrants, On, TableInv, WorkInv, TypeOK, HandlerState, ReloadState, CliState,
      Token
<1>4. PassedInv'
  BY <1>0 DEF ReloadGrants, On, PassedInv, WorkInv, TypeOK, HandlerState, ReloadState, Reloader,
      Nobody
<1>5. StreamInv'
  BY <1>0 DEF ReloadGrants, On, StreamInv, Live, TableInv, TypeOK,
      StreamState
<1>6. RefreshInv'
  BY <1>0 DEF ReloadGrants, On, RefreshInv, Unused, TokensOf, WorkInv, TableInv, TypeOK,
      HandlerState, Nobody, Token
<1>7. UsedInv'
  BY <1>0 DEF ReloadGrants, On, UsedInv, WorkInv, TypeOK, Token, HandlerState
<1>8. SweepInv'
  BY <1>0 DEF ReloadGrants, On, SweepInv, Slow, UsedInv, TableInv, WorkInv, TypeOK,
      HandlerState, Token
<1>9. SweepSparesLiveGrants'
  BY <1>0 DEF ReloadGrants, On, SweepSparesLiveGrants, Usable, SweepInv, TableInv, Slow,
      WorkInv, TypeOK, Token, HandlerState
<1>10. QED BY <1>1, <1>2, <1>3, <1>4, <1>5, <1>6, <1>7, <1>8, <1>9 DEF IInv

\* And revokes their tokens.
LEMMA ReloadTokensStep ==
  ASSUME IInv, ReloadTokens
  PROVE  IInv'
<1> USE AccessAssumption DEF At, Made, tables, history
<1>0. /\ TypeOK /\ WorkInv /\ TableInv /\ PassedInv
      /\ StreamInv /\ RefreshInv /\ UsedInv /\ SweepInv
      /\ SweepSparesLiveGrants
  BY DEF IInv
<1>1. TypeOK'
  BY <1>0 DEF ReloadTokens, TypeOK, HandlerState, ReloadState, CliState, StreamState, Reloader,
      Nobody, Token
<1>2. WorkInv'
  BY <1>0 DEF ReloadTokens, WorkInv, TypeOK, HandlerState, ReloadState, CliState, TableInv, On
<1>3. TableInv'
  BY <1>0 DEF ReloadTokens, TableInv, WorkInv, TypeOK, HandlerState, ReloadState, CliState,
      Token
<1>4. PassedInv'
  BY <1>0 DEF ReloadTokens, PassedInv, WorkInv, TypeOK, HandlerState, ReloadState, On, Reloader,
      Nobody
<1>5. StreamInv'
  BY <1>0 DEF ReloadTokens, StreamInv, Live, TableInv, TypeOK, StreamState
<1>6. RefreshInv'
  BY <1>0 DEF ReloadTokens, RefreshInv, Unused, TokensOf, WorkInv, TableInv, TypeOK,
      HandlerState, Nobody, Token
<1>7. UsedInv'
  BY <1>0 DEF ReloadTokens, UsedInv, WorkInv, TypeOK, Token, HandlerState
<1>8. SweepInv'
  BY <1>0 DEF ReloadTokens, SweepInv, Slow, UsedInv, TableInv, WorkInv, TypeOK, HandlerState,
      Token
<1>9. SweepSparesLiveGrants'
  BY <1>0 DEF ReloadTokens, SweepSparesLiveGrants, Usable, SweepInv, TableInv, Slow, WorkInv,
      TypeOK, Token, HandlerState
<1>10. QED BY <1>1, <1>2, <1>3, <1>4, <1>5, <1>6, <1>7, <1>8, <1>9 DEF IInv

\* And cancels the streams of those it listed.
LEMMA ReloadCloseStep ==
  ASSUME IInv, ReloadClose
  PROVE  IInv'
<1> USE AccessAssumption DEF At, Made, tables, history
<1>0. /\ TypeOK /\ WorkInv /\ TableInv /\ PassedInv
      /\ StreamInv /\ RefreshInv /\ UsedInv /\ SweepInv
      /\ SweepSparesLiveGrants
  BY DEF IInv
<1>1. TypeOK'
  <2>1. stream' \in [Streams -> StreamState]
    BY <1>0, CloseType DEF ReloadClose
  <2>2. reload.listed \in SUBSET Grants
    BY <1>0 DEF TypeOK, ReloadState
  <2>3. NoReload \in ReloadState
    BY DEF NoReload, ReloadState
  <2>4. QED BY <1>0, <2>1, <2>2, <2>3 DEF ReloadClose, Release, NoReload, TypeOK, Reloader, Nobody
<1>2. WorkInv'
  BY <1>0 DEF ReloadClose, CloseStreams, Open, NoReload, Release, WorkInv, TypeOK, HandlerState,
      ReloadState, CliState, TableInv, On
<1>3. TableInv'
  <2>1. \A g \in reload.listed : Made(g) /\ g \notin grants
    BY <1>0 DEF ReloadClose, WorkInv, PassedInv, TypeOK, ReloadState
  <2>2. QED BY <1>0, <2>1 DEF ReloadClose, TableInv
<1>4. PassedInv'
  BY <1>0 DEF ReloadClose, CloseStreams, Open, NoReload, Release, PassedInv, WorkInv, TypeOK,
      HandlerState, ReloadState, On, Reloader, Nobody
<1>5. StreamInv'
  BY <1>0 DEF ReloadClose, CloseStreams, Open, NoReload, Release, StreamInv,
      Live, TableInv, TypeOK, StreamState
<1>6. RefreshInv'
  BY <1>0 DEF ReloadClose, CloseStreams, Open, NoReload, Release, RefreshInv, Unused, TokensOf,
      WorkInv, TableInv, TypeOK, HandlerState, Nobody, Token
<1>7. UsedInv'
  BY <1>0 DEF ReloadClose, CloseStreams, Open, NoReload, Release, UsedInv, WorkInv, TypeOK,
      Token, HandlerState
<1>8. SweepInv'
  BY <1>0 DEF ReloadClose, CloseStreams, Open, NoReload, Release, SweepInv, Slow, UsedInv,
      TableInv, WorkInv, TypeOK, HandlerState, Token
<1>9. SweepSparesLiveGrants'
  BY <1>0 DEF ReloadClose, CloseStreams, Open, NoReload, Release, SweepSparesLiveGrants, Usable,
      SweepInv, TableInv, Slow, WorkInv, TypeOK, Token, HandlerState
<1>10. QED BY <1>1, <1>2, <1>3, <1>4, <1>5, <1>6, <1>7, <1>8, <1>9 DEF IInv

\* Or fails on the way.
LEMMA ReloadFailsStep ==
  ASSUME IInv, ReloadFails
  PROVE  IInv'
<1> USE AccessAssumption DEF At, Made, tables, history
<1>0. /\ TypeOK /\ WorkInv /\ TableInv /\ PassedInv
      /\ StreamInv /\ RefreshInv /\ UsedInv /\ SweepInv
      /\ SweepSparesLiveGrants
  BY DEF IInv
<1>1. TypeOK'
  BY <1>0 DEF ReloadFails, NoReload, Release, TypeOK, HandlerState, ReloadState, CliState,
      StreamState, Reloader, Nobody, Token
<1>2. WorkInv'
  BY <1>0 DEF ReloadFails, NoReload, Release, WorkInv, TypeOK, HandlerState, ReloadState,
      CliState, TableInv, On
<1>3. TableInv'
  BY <1>0 DEF ReloadFails, NoReload, Release, TableInv, WorkInv, TypeOK, HandlerState,
      ReloadState, CliState, Token
<1>4. PassedInv'
  BY <1>0 DEF ReloadFails, NoReload, Release, PassedInv, WorkInv, TypeOK, HandlerState,
      ReloadState, On, Reloader, Nobody
<1>5. StreamInv'
  BY <1>0 DEF ReloadFails, NoReload, Release, StreamInv, Live, TableInv,
      TypeOK, StreamState
<1>6. RefreshInv'
  BY <1>0 DEF ReloadFails, NoReload, Release, RefreshInv, Unused, TokensOf, WorkInv, TableInv,
      TypeOK, HandlerState, Nobody, Token
<1>7. UsedInv'
  BY <1>0 DEF ReloadFails, NoReload, Release, UsedInv, WorkInv, TypeOK, Token, HandlerState
<1>8. SweepInv'
  BY <1>0 DEF ReloadFails, NoReload, Release, SweepInv, Slow, UsedInv, TableInv, WorkInv,
      TypeOK, HandlerState, Token
<1>9. SweepSparesLiveGrants'
  BY <1>0 DEF ReloadFails, NoReload, Release, SweepSparesLiveGrants, Usable, SweepInv, TableInv,
      Slow, WorkInv, TypeOK, Token, HandlerState
<1>10. QED BY <1>1, <1>2, <1>3, <1>4, <1>5, <1>6, <1>7, <1>8, <1>9 DEF IInv

\* The other process makes a grant.
LEMMA CliGrantStep ==
  ASSUME IInv, NEW g \in Grants, NEW l \in Links, CliGrant(g, l)
  PROVE  IInv'
<1> USE AccessAssumption DEF At, Made, tables, history
<1>0. /\ TypeOK /\ WorkInv /\ TableInv /\ PassedInv
      /\ StreamInv /\ RefreshInv /\ UsedInv /\ SweepInv
      /\ SweepSparesLiveGrants
  BY DEF IInv
<1>1. TypeOK'
  BY <1>0 DEF CliGrant, InsertGrant, TypeOK, HandlerState, ReloadState, CliState, StreamState,
      Reloader, Nobody, Token
<1>2. WorkInv'
  BY <1>0 DEF CliGrant, InsertGrant, WorkInv, TypeOK, HandlerState, ReloadState, CliState,
      TableInv, On
<1>3. TableInv'
  BY <1>0 DEF CliGrant, InsertGrant, TableInv, WorkInv, TypeOK, HandlerState, ReloadState,
      CliState, Token
<1>4. PassedInv'
  BY <1>0 DEF CliGrant, InsertGrant, PassedInv, WorkInv, TypeOK, HandlerState, ReloadState, On,
      Reloader, Nobody
<1>5. StreamInv'
  BY <1>0 DEF CliGrant, InsertGrant, StreamInv, Live, TableInv, TypeOK,
      StreamState
<1>6. RefreshInv'
  BY <1>0 DEF CliGrant, InsertGrant, RefreshInv, Unused, TokensOf, WorkInv, TableInv, TypeOK,
      HandlerState, Nobody, Token
<1>7. UsedInv'
  BY <1>0 DEF CliGrant, InsertGrant, UsedInv, WorkInv, TypeOK, Token, HandlerState
<1>8. SweepInv'
  BY <1>0 DEF CliGrant, InsertGrant, SweepInv, Slow, UsedInv, TableInv, WorkInv, TypeOK,
      HandlerState, Token
<1>9. SweepSparesLiveGrants'
  BY <1>0 DEF CliGrant, InsertGrant, SweepSparesLiveGrants, Usable, SweepInv, TableInv, Slow,
      WorkInv, TypeOK, Token, HandlerState
<1>10. QED BY <1>1, <1>2, <1>3, <1>4, <1>5, <1>6, <1>7, <1>8, <1>9 DEF IInv

\* And its static token.
LEMMA CliTokenStep ==
  ASSUME IInv, CliToken
  PROVE  IInv'
<1> USE AccessAssumption DEF At, Made, tables, history
<1>0. /\ TypeOK /\ WorkInv /\ TableInv /\ PassedInv
      /\ StreamInv /\ RefreshInv /\ UsedInv /\ SweepInv
      /\ SweepSparesLiveGrants
  BY DEF IInv
<1>1. TypeOK'
  <2> DEFINE t == Fresh(cli.grant, "static", now + StaticTTL)
  <2>1. t \in Token
    BY <1>0, FreshType DEF CliToken, WorkInv, TypeOK
  <2>2. NoCommand \in CliState
    BY DEF NoCommand, CliState
  <2>3. Insert(t)
    BY DEF CliToken
  <2>4. QED BY <1>0, <2>1, <2>2, <2>3, InsertType DEF CliToken, TypeOK
<1>2. WorkInv'
  BY <1>0 DEF CliToken, Insert, Fresh, NoCommand, WorkInv, TypeOK, HandlerState, ReloadState,
      CliState, TableInv, On
<1>3. TableInv'
  BY <1>0 DEF CliToken, Insert, Fresh, NoCommand, TableInv, WorkInv, TypeOK, HandlerState,
      ReloadState, CliState, Token
<1>4. PassedInv'
  BY <1>0 DEF CliToken, Insert, Fresh, NoCommand, PassedInv, WorkInv, TypeOK, HandlerState,
      ReloadState, On, Reloader, Nobody
<1>5. StreamInv'
  BY <1>0 DEF CliToken, Insert, Fresh, NoCommand, StreamInv, Live, TableInv,
      TypeOK, StreamState
<1>6. RefreshInv'
  BY <1>0 DEF CliToken, Insert, Fresh, NoCommand, RefreshInv, Unused, TokensOf, WorkInv,
      TableInv, TypeOK, HandlerState, Nobody, Token
<1>7. UsedInv'
  BY <1>0 DEF CliToken, Insert, Fresh, NoCommand, UsedInv, WorkInv, TypeOK, Token, HandlerState
<1>8. SweepInv'
  BY <1>0 DEF CliToken, Insert, Fresh, NoCommand, SweepInv, Slow, UsedInv, TableInv, WorkInv,
      TypeOK, HandlerState, Token
<1>9. SweepSparesLiveGrants'
  BY <1>0 DEF CliToken, Insert, Fresh, NoCommand, SweepSparesLiveGrants, Usable, SweepInv,
      TableInv, Slow, WorkInv, TypeOK, Token, HandlerState
<1>10. QED BY <1>1, <1>2, <1>3, <1>4, <1>5, <1>6, <1>7, <1>8, <1>9 DEF IInv

\* The other process revokes one grant.
LEMMA CliRevokeStep ==
  ASSUME IInv, NEW g \in Grants, CliRevoke(g)
  PROVE  IInv'
<1> USE AccessAssumption DEF At, Made, tables, history
<1>0. /\ TypeOK /\ WorkInv /\ TableInv /\ PassedInv
      /\ StreamInv /\ RefreshInv /\ UsedInv /\ SweepInv
      /\ SweepSparesLiveGrants
  BY DEF IInv
<1>1. TypeOK'
  BY <1>0 DEF CliRevoke, TokensOf, TypeOK, HandlerState, ReloadState, CliState, StreamState,
      Reloader, Nobody, Token
<1>2. WorkInv'
  BY <1>0 DEF CliRevoke, TokensOf, WorkInv, TypeOK, HandlerState, ReloadState, CliState,
      TableInv, On
<1>3. TableInv'
  BY <1>0 DEF CliRevoke, TokensOf, TableInv, WorkInv, TypeOK, HandlerState, ReloadState,
      CliState, Token
<1>4. PassedInv'
  BY <1>0 DEF CliRevoke, TokensOf, PassedInv, WorkInv, TypeOK, HandlerState, ReloadState, On,
      Reloader, Nobody
<1>5. StreamInv'
  BY <1>0 DEF CliRevoke, TokensOf, StreamInv, Live, TableInv, TypeOK,
      StreamState
<1>6. RefreshInv'
  BY <1>0 DEF CliRevoke, TokensOf, RefreshInv, Unused, WorkInv, TableInv, TypeOK, HandlerState,
      Nobody, Token
<1>7. UsedInv'
  BY <1>0 DEF CliRevoke, TokensOf, UsedInv, WorkInv, TypeOK, Token, HandlerState
<1>8. SweepInv'
  BY <1>0 DEF CliRevoke, TokensOf, SweepInv, Slow, UsedInv, TableInv, WorkInv, TypeOK,
      HandlerState, Token
<1>9. SweepSparesLiveGrants'
  BY <1>0 DEF CliRevoke, TokensOf, SweepSparesLiveGrants, Usable, SweepInv, TableInv, Slow,
      WorkInv, TypeOK, Token, HandlerState
<1>10. QED BY <1>1, <1>2, <1>3, <1>4, <1>5, <1>6, <1>7, <1>8, <1>9 DEF IInv

\* Or every token there is.
LEMMA CliRevokeAllStep ==
  ASSUME IInv, CliRevokeAll
  PROVE  IInv'
<1> USE AccessAssumption DEF At, Made, tables, history
<1>0. /\ TypeOK /\ WorkInv /\ TableInv /\ PassedInv
      /\ StreamInv /\ RefreshInv /\ UsedInv /\ SweepInv
      /\ SweepSparesLiveGrants
  BY DEF IInv
<1>1. TypeOK'
  BY <1>0 DEF CliRevokeAll, TypeOK, HandlerState, ReloadState, CliState, StreamState, Reloader,
      Nobody, Token
<1>2. WorkInv'
  BY <1>0 DEF CliRevokeAll, WorkInv, TypeOK, HandlerState, ReloadState, CliState, TableInv, On
<1>3. TableInv'
  BY <1>0 DEF CliRevokeAll, TableInv, WorkInv, TypeOK, HandlerState, ReloadState, CliState,
      Token
<1>4. PassedInv'
  BY <1>0 DEF CliRevokeAll, PassedInv, WorkInv, TypeOK, HandlerState, ReloadState, On, Reloader,
      Nobody
<1>5. StreamInv'
  BY <1>0 DEF CliRevokeAll, StreamInv, Live, TableInv, TypeOK, StreamState
<1>6. RefreshInv'
  BY <1>0 DEF CliRevokeAll, RefreshInv, Unused, TokensOf, WorkInv, TableInv, TypeOK,
      HandlerState, Nobody, Token
<1>7. UsedInv'
  BY <1>0 DEF CliRevokeAll, UsedInv, WorkInv, TypeOK, Token, HandlerState
<1>8. SweepInv'
  BY <1>0 DEF CliRevokeAll, SweepInv, Slow, UsedInv, TableInv, WorkInv, TypeOK, HandlerState,
      Token
<1>9. SweepSparesLiveGrants'
  BY <1>0 DEF CliRevokeAll, SweepSparesLiveGrants, Usable, SweepInv, TableInv, Slow, WorkInv,
      TypeOK, Token, HandlerState
<1>10. QED BY <1>1, <1>2, <1>3, <1>4, <1>5, <1>6, <1>7, <1>8, <1>9 DEF IInv

\* And deletes the grants.
LEMMA CliDropStep ==
  ASSUME IInv, CliDrop
  PROVE  IInv'
<1> USE AccessAssumption DEF At, Made, tables, history
<1>0. /\ TypeOK /\ WorkInv /\ TableInv /\ PassedInv
      /\ StreamInv /\ RefreshInv /\ UsedInv /\ SweepInv
      /\ SweepSparesLiveGrants
  BY DEF IInv
<1>1. TypeOK'
  <2>1. NoCommand \in CliState
    BY DEF NoCommand, CliState
  <2>2. cli.step = "drop" => cli.grant \in Grants
    BY <1>0 DEF WorkInv
  <2>3. QED BY <1>0, <2>1, <2>2 DEF CliDrop, TypeOK
<1>2. WorkInv'
  BY <1>0 DEF CliDrop, NoCommand, WorkInv, TypeOK, HandlerState, ReloadState, CliState,
      TableInv, On
<1>3. TableInv'
  BY <1>0 DEF CliDrop, NoCommand, TableInv, WorkInv, TypeOK, HandlerState, ReloadState,
      CliState, Token
<1>4. PassedInv'
  BY <1>0 DEF CliDrop, NoCommand, PassedInv, WorkInv, TypeOK, HandlerState, ReloadState, On,
      Reloader, Nobody
<1>5. StreamInv'
  BY <1>0 DEF CliDrop, NoCommand, StreamInv, Live, TableInv, TypeOK,
      StreamState
<1>6. RefreshInv'
  BY <1>0 DEF CliDrop, NoCommand, RefreshInv, Unused, TokensOf, WorkInv, TableInv, TypeOK,
      HandlerState, Nobody, Token
<1>7. UsedInv'
  BY <1>0 DEF CliDrop, NoCommand, UsedInv, WorkInv, TypeOK, Token, HandlerState
<1>8. SweepInv'
  BY <1>0 DEF CliDrop, NoCommand, SweepInv, Slow, UsedInv, TableInv, WorkInv, TypeOK,
      HandlerState, Token
<1>9. SweepSparesLiveGrants'
  BY <1>0 DEF CliDrop, NoCommand, SweepSparesLiveGrants, Usable, SweepInv, TableInv, Slow,
      WorkInv, TypeOK, Token, HandlerState
<1>10. QED BY <1>1, <1>2, <1>3, <1>4, <1>5, <1>6, <1>7, <1>8, <1>9 DEF IInv

\* Or stops on the way.
LEMMA CliStopsStep ==
  ASSUME IInv, CliStops
  PROVE  IInv'
<1> USE AccessAssumption DEF At, Made, tables, history
<1>0. /\ TypeOK /\ WorkInv /\ TableInv /\ PassedInv
      /\ StreamInv /\ RefreshInv /\ UsedInv /\ SweepInv
      /\ SweepSparesLiveGrants
  BY DEF IInv
<1>1. TypeOK'
  BY <1>0 DEF CliStops, NoCommand, TypeOK, HandlerState, ReloadState, CliState, StreamState,
      Reloader, Nobody, Token
<1>2. WorkInv'
  BY <1>0 DEF CliStops, NoCommand, WorkInv, TypeOK, HandlerState, ReloadState, CliState,
      TableInv, On
<1>3. TableInv'
  BY <1>0 DEF CliStops, NoCommand, TableInv, WorkInv, TypeOK, HandlerState, ReloadState,
      CliState, Token
<1>4. PassedInv'
  BY <1>0 DEF CliStops, NoCommand, PassedInv, WorkInv, TypeOK, HandlerState, ReloadState, On,
      Reloader, Nobody
<1>5. StreamInv'
  BY <1>0 DEF CliStops, NoCommand, StreamInv, Live, TableInv, TypeOK,
      StreamState
<1>6. RefreshInv'
  BY <1>0 DEF CliStops, NoCommand, RefreshInv, Unused, TokensOf, WorkInv, TableInv, TypeOK,
      HandlerState, Nobody, Token
<1>7. UsedInv'
  BY <1>0 DEF CliStops, NoCommand, UsedInv, WorkInv, TypeOK, Token, HandlerState
<1>8. SweepInv'
  BY <1>0 DEF CliStops, NoCommand, SweepInv, Slow, UsedInv, TableInv, WorkInv, TypeOK,
      HandlerState, Token
<1>9. SweepSparesLiveGrants'
  BY <1>0 DEF CliStops, NoCommand, SweepSparesLiveGrants, Usable, SweepInv, TableInv, Slow,
      WorkInv, TypeOK, Token, HandlerState
<1>10. QED BY <1>1, <1>2, <1>3, <1>4, <1>5, <1>6, <1>7, <1>8, <1>9 DEF IInv

\* A request arrives with a token.
LEMMA ArriveStep ==
  ASSUME IInv, NEW s \in Streams, NEW t \in answered, Arrive(s, t)
  PROVE  IInv'
<1> USE AccessAssumption DEF At, Made, tables, history
<1>0. /\ TypeOK /\ WorkInv /\ TableInv /\ PassedInv
      /\ StreamInv /\ RefreshInv /\ UsedInv /\ SweepInv
      /\ SweepSparesLiveGrants
  BY DEF IInv
<1>1. TypeOK'
  BY <1>0 DEF Arrive, NoStream, TypeOK, HandlerState, ReloadState, CliState, StreamState,
      Reloader, Nobody, Token
<1>2. WorkInv'
  BY <1>0 DEF Arrive, NoStream, WorkInv, TypeOK, HandlerState, ReloadState, CliState, TableInv,
      On
<1>3. TableInv'
  BY <1>0 DEF Arrive, NoStream, TableInv, WorkInv, TypeOK, HandlerState, ReloadState, CliState,
      Token
<1>4. PassedInv'
  BY <1>0 DEF Arrive, NoStream, PassedInv, WorkInv, TypeOK, HandlerState, ReloadState, On,
      Reloader, Nobody
<1>5. StreamInv'
  BY <1>0 DEF Arrive, NoStream, StreamInv, Live, TableInv, TypeOK,
      StreamState
<1>6. RefreshInv'
  BY <1>0 DEF Arrive, NoStream, RefreshInv, Unused, TokensOf, WorkInv, TableInv, TypeOK,
      HandlerState, Nobody, Token
<1>7. UsedInv'
  BY <1>0 DEF Arrive, NoStream, UsedInv, WorkInv, TypeOK, Token, HandlerState
<1>8. SweepInv'
  BY <1>0 DEF Arrive, NoStream, SweepInv, Slow, UsedInv, TableInv, WorkInv, TypeOK,
      HandlerState, Token
<1>9. SweepSparesLiveGrants'
  BY <1>0 DEF Arrive, NoStream, SweepSparesLiveGrants, Usable, SweepInv, TableInv, Slow,
      WorkInv, TypeOK, Token, HandlerState
<1>10. QED BY <1>1, <1>2, <1>3, <1>4, <1>5, <1>6, <1>7, <1>8, <1>9 DEF IInv

\* Its grant exists.
LEMMA AuthorizeStep ==
  ASSUME IInv, NEW s \in Streams, Authorize(s)
  PROVE  IInv'
<1> USE AccessAssumption DEF At, Made, tables, history
<1>0. /\ TypeOK /\ WorkInv /\ TableInv /\ PassedInv
      /\ StreamInv /\ RefreshInv /\ UsedInv /\ SweepInv
      /\ SweepSparesLiveGrants
  BY DEF IInv
<1>1. TypeOK'
  BY <1>0 DEF Authorize, NoStream, GrantExists, TypeOK, HandlerState, ReloadState, CliState,
      StreamState, Reloader, Nobody, Token
<1>2. WorkInv'
  BY <1>0 DEF Authorize, NoStream, GrantExists, WorkInv, TypeOK, HandlerState, ReloadState,
      CliState, TableInv, On
<1>3. TableInv'
  BY <1>0 DEF Authorize, NoStream, GrantExists, TableInv, WorkInv, TypeOK, HandlerState,
      ReloadState, CliState, Token
<1>4. PassedInv'
  BY <1>0 DEF Authorize, NoStream, GrantExists, PassedInv, WorkInv, TypeOK, HandlerState,
      ReloadState, On, Reloader, Nobody
<1>5. StreamInv'
  BY <1>0 DEF Authorize, NoStream, GrantExists, StreamInv, Live, TableInv,
      TypeOK, StreamState
<1>6. RefreshInv'
  BY <1>0 DEF Authorize, NoStream, GrantExists, RefreshInv, Unused, TokensOf, WorkInv, TableInv,
      TypeOK, HandlerState, Nobody, Token
<1>7. UsedInv'
  BY <1>0 DEF Authorize, NoStream, GrantExists, UsedInv, WorkInv, TypeOK, Token, HandlerState
<1>8. SweepInv'
  BY <1>0 DEF Authorize, NoStream, GrantExists, SweepInv, Slow, UsedInv, TableInv, WorkInv,
      TypeOK, HandlerState, Token
<1>9. SweepSparesLiveGrants'
  BY <1>0 DEF Authorize, NoStream, GrantExists, SweepSparesLiveGrants, Usable, SweepInv,
      TableInv, Slow, WorkInv, TypeOK, Token, HandlerState
<1>10. QED BY <1>1, <1>2, <1>3, <1>4, <1>5, <1>6, <1>7, <1>8, <1>9 DEF IInv

\* Its stream is registered.
LEMMA OpenStreamStep ==
  ASSUME IInv, NEW s \in Streams, OpenStream(s)
  PROVE  IInv'
<1> USE AccessAssumption DEF At, Made, tables, history
<1>0. /\ TypeOK /\ WorkInv /\ TableInv /\ PassedInv
      /\ StreamInv /\ RefreshInv /\ UsedInv /\ SweepInv
      /\ SweepSparesLiveGrants
  BY DEF IInv
<1>1. TypeOK'
  BY <1>0 DEF OpenStream, TypeOK, HandlerState, ReloadState, CliState, StreamState, Reloader,
      Nobody, Token
<1>2. WorkInv'
  BY <1>0 DEF OpenStream, WorkInv, TypeOK, HandlerState, ReloadState, CliState, TableInv, On
<1>3. TableInv'
  BY <1>0 DEF OpenStream, TableInv, WorkInv, TypeOK, HandlerState, ReloadState, CliState, Token
<1>4. PassedInv'
  BY <1>0 DEF OpenStream, PassedInv, WorkInv, TypeOK, HandlerState, ReloadState, On, Reloader,
      Nobody
<1>5. StreamInv'
  BY <1>0 DEF OpenStream, StreamInv, Live, TableInv, TypeOK, StreamState
<1>6. RefreshInv'
  BY <1>0 DEF OpenStream, RefreshInv, Unused, TokensOf, WorkInv, TableInv, TypeOK, HandlerState,
      Nobody, Token
<1>7. UsedInv'
  BY <1>0 DEF OpenStream, UsedInv, WorkInv, TypeOK, Token, HandlerState
<1>8. SweepInv'
  BY <1>0 DEF OpenStream, SweepInv, Slow, UsedInv, TableInv, WorkInv, TypeOK, HandlerState,
      Token
<1>9. SweepSparesLiveGrants'
  BY <1>0 DEF OpenStream, SweepSparesLiveGrants, Usable, SweepInv, TableInv, Slow, WorkInv,
      TypeOK, Token, HandlerState
<1>10. QED BY <1>1, <1>2, <1>3, <1>4, <1>5, <1>6, <1>7, <1>8, <1>9 DEF IInv

\* Its token is looked up again.
LEMMA RecheckStep ==
  ASSUME IInv, NEW s \in Streams, Recheck(s)
  PROVE  IInv'
<1> USE AccessAssumption DEF At, Made, tables, history
<1>0. /\ TypeOK /\ WorkInv /\ TableInv /\ PassedInv
      /\ StreamInv /\ RefreshInv /\ UsedInv /\ SweepInv
      /\ SweepSparesLiveGrants
  BY DEF IInv
<1>1. TypeOK'
  BY <1>0 DEF Recheck, NoStream, TypeOK, HandlerState, ReloadState, CliState, StreamState,
      Reloader, Nobody, Token
<1>2. WorkInv'
  BY <1>0 DEF Recheck, NoStream, WorkInv, TypeOK, HandlerState, ReloadState, CliState, TableInv,
      On
<1>3. TableInv'
  BY <1>0 DEF Recheck, NoStream, TableInv, WorkInv, TypeOK, HandlerState, ReloadState, CliState,
      Token
<1>4. PassedInv'
  BY <1>0 DEF Recheck, NoStream, PassedInv, WorkInv, TypeOK, HandlerState, ReloadState, On,
      Reloader, Nobody
<1>5. StreamInv'
  BY <1>0 DEF Recheck, NoStream, StreamInv, Live, TableInv, TypeOK,
      StreamState
<1>6. RefreshInv'
  BY <1>0 DEF Recheck, NoStream, RefreshInv, Unused, TokensOf, WorkInv, TableInv, TypeOK,
      HandlerState, Nobody, Token
<1>7. UsedInv'
  BY <1>0 DEF Recheck, NoStream, UsedInv, WorkInv, TypeOK, Token, HandlerState
<1>8. SweepInv'
  BY <1>0 DEF Recheck, NoStream, SweepInv, Slow, UsedInv, TableInv, WorkInv, TypeOK,
      HandlerState, Token
<1>9. SweepSparesLiveGrants'
  BY <1>0 DEF Recheck, NoStream, SweepSparesLiveGrants, Usable, SweepInv, TableInv, Slow,
      WorkInv, TypeOK, Token, HandlerState
<1>10. QED BY <1>1, <1>2, <1>3, <1>4, <1>5, <1>6, <1>7, <1>8, <1>9 DEF IInv

\* And its grant: one that was revoked is not there.
LEMMA RecheckGrantStep ==
  ASSUME IInv, NEW s \in Streams, RecheckGrant(s)
  PROVE  IInv'
<1> USE AccessAssumption DEF At, Made, tables, history
<1>0. /\ TypeOK /\ WorkInv /\ TableInv /\ PassedInv
      /\ StreamInv /\ RefreshInv /\ UsedInv /\ SweepInv
      /\ SweepSparesLiveGrants
  BY DEF IInv
<1>1. TypeOK'
  BY <1>0 DEF RecheckGrant, NoStream, GrantExists, TypeOK, HandlerState, ReloadState, CliState,
      StreamState, Reloader, Nobody, Token
<1>2. WorkInv'
  BY <1>0 DEF RecheckGrant, NoStream, GrantExists, WorkInv, TypeOK, HandlerState, ReloadState,
      CliState, TableInv, On
<1>3. TableInv'
  BY <1>0 DEF RecheckGrant, NoStream, GrantExists, TableInv, WorkInv, TypeOK, HandlerState,
      ReloadState, CliState, Token
<1>4. PassedInv'
  BY <1>0 DEF RecheckGrant, NoStream, GrantExists, PassedInv, WorkInv, TypeOK, HandlerState,
      ReloadState, On, Reloader, Nobody
<1>5. StreamInv'
  BY <1>0 DEF RecheckGrant, NoStream, GrantExists, StreamInv, Live, TableInv,
      TypeOK, StreamState
<1>6. RefreshInv'
  BY <1>0 DEF RecheckGrant, NoStream, GrantExists, RefreshInv, Unused, TokensOf, WorkInv,
      TableInv, TypeOK, HandlerState, Nobody, Token
<1>7. UsedInv'
  BY <1>0 DEF RecheckGrant, NoStream, GrantExists, UsedInv, WorkInv, TypeOK, Token, HandlerState
<1>8. SweepInv'
  BY <1>0 DEF RecheckGrant, NoStream, GrantExists, SweepInv, Slow, UsedInv, TableInv, WorkInv,
      TypeOK, HandlerState, Token
<1>9. SweepSparesLiveGrants'
  BY <1>0 DEF RecheckGrant, NoStream, GrantExists, SweepSparesLiveGrants, Usable, SweepInv,
      TableInv, Slow, WorkInv, TypeOK, Token, HandlerState
<1>10. QED BY <1>1, <1>2, <1>3, <1>4, <1>5, <1>6, <1>7, <1>8, <1>9 DEF IInv

\* The app answers with an event stream.
LEMMA StartEventsStep ==
  ASSUME IInv, NEW s \in Streams, StartEvents(s)
  PROVE  IInv'
<1> USE AccessAssumption DEF At, Made, tables, history
<1>0. /\ TypeOK /\ WorkInv /\ TableInv /\ PassedInv
      /\ StreamInv /\ RefreshInv /\ UsedInv /\ SweepInv
      /\ SweepSparesLiveGrants
  BY DEF IInv
<1>1. TypeOK'
  BY <1>0 DEF StartEvents, TypeOK, HandlerState, ReloadState, CliState, StreamState,
      Reloader, Nobody, Token
<1>2. WorkInv'
  BY <1>0 DEF StartEvents, WorkInv, TypeOK, HandlerState, ReloadState, CliState,
      TableInv, On
<1>3. TableInv'
  BY <1>0 DEF StartEvents, TableInv, WorkInv, TypeOK, HandlerState, ReloadState,
      CliState, Token
<1>4. PassedInv'
  BY <1>0 DEF StartEvents, PassedInv, WorkInv, TypeOK, HandlerState, ReloadState, On,
      Reloader, Nobody
<1>5. StreamInv'
  BY <1>0 DEF StartEvents, StreamInv, Live, TableInv, TypeOK,
      StreamState
<1>6. RefreshInv'
  BY <1>0 DEF StartEvents, RefreshInv, Unused, TokensOf, WorkInv, TableInv, TypeOK,
      HandlerState, Nobody, Token
<1>7. UsedInv'
  BY <1>0 DEF StartEvents, UsedInv, WorkInv, TypeOK, Token, HandlerState
<1>8. SweepInv'
  BY <1>0 DEF StartEvents, SweepInv, Slow, UsedInv, TableInv, WorkInv, TypeOK,
      HandlerState, Token
<1>9. SweepSparesLiveGrants'
  BY <1>0 DEF StartEvents, SweepSparesLiveGrants, Usable, SweepInv, TableInv, Slow,
      WorkInv, TypeOK, Token, HandlerState
<1>10. QED BY <1>1, <1>2, <1>3, <1>4, <1>5, <1>6, <1>7, <1>8, <1>9 DEF IInv

\* Its stream ends.
LEMMA EndStreamStep ==
  ASSUME IInv, NEW s \in Streams, EndStream(s)
  PROVE  IInv'
<1> USE AccessAssumption DEF At, Made, tables, history
<1>0. /\ TypeOK /\ WorkInv /\ TableInv /\ PassedInv
      /\ StreamInv /\ RefreshInv /\ UsedInv /\ SweepInv
      /\ SweepSparesLiveGrants
  BY DEF IInv
<1>1. TypeOK'
  BY <1>0 DEF EndStream, NoStream, TypeOK, HandlerState, ReloadState, CliState, StreamState,
      Reloader, Nobody, Token
<1>2. WorkInv'
  BY <1>0 DEF EndStream, NoStream, WorkInv, TypeOK, HandlerState, ReloadState, CliState,
      TableInv, On
<1>3. TableInv'
  BY <1>0 DEF EndStream, NoStream, TableInv, WorkInv, TypeOK, HandlerState, ReloadState,
      CliState, Token
<1>4. PassedInv'
  BY <1>0 DEF EndStream, NoStream, PassedInv, WorkInv, TypeOK, HandlerState, ReloadState, On,
      Reloader, Nobody
<1>5. StreamInv'
  BY <1>0 DEF EndStream, NoStream, StreamInv, Live, TableInv, TypeOK,
      StreamState
<1>6. RefreshInv'
  BY <1>0 DEF EndStream, NoStream, RefreshInv, Unused, TokensOf, WorkInv, TableInv, TypeOK,
      HandlerState, Nobody, Token
<1>7. UsedInv'
  BY <1>0 DEF EndStream, NoStream, UsedInv, WorkInv, TypeOK, Token, HandlerState
<1>8. SweepInv'
  BY <1>0 DEF EndStream, NoStream, SweepInv, Slow, UsedInv, TableInv, WorkInv, TypeOK,
      HandlerState, Token
<1>9. SweepSparesLiveGrants'
  BY <1>0 DEF EndStream, NoStream, SweepSparesLiveGrants, Usable, SweepInv, TableInv, Slow,
      WorkInv, TypeOK, Token, HandlerState
<1>10. QED BY <1>1, <1>2, <1>3, <1>4, <1>5, <1>6, <1>7, <1>8, <1>9 DEF IInv

\* The sweep deletes expired tokens, and revoked ones that are not refresh tokens.
LEMMA PruneTokensStep ==
  ASSUME IInv, PruneTokens
  PROVE  IInv'
<1> USE AccessAssumption DEF At, Made, tables, history
<1>0. /\ TypeOK /\ WorkInv /\ TableInv /\ PassedInv
      /\ StreamInv /\ RefreshInv /\ UsedInv /\ SweepInv
      /\ SweepSparesLiveGrants
  BY DEF IInv
<1>1. TypeOK'
  BY <1>0 DEF PruneTokens, Prunable, TypeOK, HandlerState, ReloadState, CliState, StreamState,
      Reloader, Nobody, Token
<1>2. WorkInv'
  BY <1>0 DEF PruneTokens, Prunable, WorkInv, TypeOK, HandlerState, ReloadState, CliState,
      TableInv, On
<1>3. TableInv'
  BY <1>0 DEF PruneTokens, Prunable, TableInv, WorkInv, TypeOK, HandlerState, ReloadState,
      CliState, Token
<1>4. PassedInv'
  BY <1>0 DEF PruneTokens, Prunable, PassedInv, WorkInv, TypeOK, HandlerState, ReloadState, On,
      Reloader, Nobody
<1>5. StreamInv'
  BY <1>0 DEF PruneTokens, Prunable, StreamInv, Live, TableInv, TypeOK,
      StreamState
<1>6. RefreshInv'
  BY <1>0 DEF PruneTokens, Prunable, RefreshInv, Unused, TokensOf, WorkInv, TableInv, TypeOK,
      HandlerState, Nobody, Token
<1>7. UsedInv'
  BY <1>0 DEF PruneTokens, Prunable, UsedInv, WorkInv, TypeOK, Token, HandlerState
<1>8. SweepInv'
  BY <1>0 DEF PruneTokens, Prunable, SweepInv, Slow, UsedInv, TableInv, WorkInv, TypeOK,
      HandlerState, Token
<1>9. SweepSparesLiveGrants'
  BY <1>0 DEF PruneTokens, Prunable, SweepSparesLiveGrants, Usable, SweepInv, TableInv, Slow,
      WorkInv, TypeOK, Token, HandlerState
<1>10. QED BY <1>1, <1>2, <1>3, <1>4, <1>5, <1>6, <1>7, <1>8, <1>9 DEF IInv

\* And old grants without a token.
LEMMA PruneGrantsStep ==
  ASSUME IInv, PruneGrants
  PROVE  IInv'
<1> USE AccessAssumption DEF At, Made, tables, history
<1>0. /\ TypeOK /\ WorkInv /\ TableInv /\ PassedInv
      /\ StreamInv /\ RefreshInv /\ UsedInv /\ SweepInv
      /\ SweepSparesLiveGrants
  BY DEF IInv
<1>1. TypeOK'
  BY <1>0 DEF PruneGrants, Empty, TokensOf, TypeOK, HandlerState, ReloadState, CliState,
      StreamState, Reloader, Nobody, Token
<1>2. WorkInv'
  BY <1>0 DEF PruneGrants, Empty, TokensOf, WorkInv, TypeOK, HandlerState, ReloadState,
      CliState, TableInv, On
<1>3. TableInv'
  BY <1>0 DEF PruneGrants, Empty, TokensOf, TableInv, WorkInv, TypeOK, HandlerState,
      ReloadState, CliState, Token
<1>4. PassedInv'
  BY <1>0 DEF PruneGrants, Empty, TokensOf, PassedInv, WorkInv, TypeOK, HandlerState,
      ReloadState, On, Reloader, Nobody
<1>5. StreamInv'
  BY <1>0 DEF PruneGrants, Empty, TokensOf, StreamInv, Live, TableInv,
      TypeOK, StreamState
<1>6. RefreshInv'
  BY <1>0 DEF PruneGrants, Empty, TokensOf, RefreshInv, Unused, WorkInv, TableInv, TypeOK,
      HandlerState, Nobody, Token
<1>7. UsedInv'
  BY <1>0 DEF PruneGrants, Empty, TokensOf, UsedInv, WorkInv, TypeOK, Token, HandlerState
<1>8. SweepInv'
  BY <1>0 DEF PruneGrants, Empty, TokensOf, SweepInv, Slow, UsedInv, TableInv, WorkInv, TypeOK,
      HandlerState, Token
<1>9. SweepSparesLiveGrants'
  BY <1>0 DEF PruneGrants, Empty, TokensOf, SweepSparesLiveGrants, Usable, SweepInv, TableInv,
      Slow, WorkInv, TypeOK, Token, HandlerState
<1>10. QED BY <1>1, <1>2, <1>3, <1>4, <1>5, <1>6, <1>7, <1>8, <1>9 DEF IInv

\* Time passes.
LEMMA TickStep ==
  ASSUME IInv, Tick
  PROVE  IInv'
<1> USE AccessAssumption DEF At, Made, tables, history
<1>0. /\ TypeOK /\ WorkInv /\ TableInv /\ PassedInv
      /\ StreamInv /\ RefreshInv /\ UsedInv /\ SweepInv
      /\ SweepSparesLiveGrants
  BY DEF IInv
<1>1. TypeOK'
  BY <1>0 DEF Tick, TypeOK, HandlerState, ReloadState, CliState, StreamState, Reloader, Nobody,
      Token
<1>2. WorkInv'
  BY <1>0 DEF Tick, WorkInv, TypeOK, HandlerState, ReloadState, CliState, TableInv, On
<1>3. TableInv'
  BY <1>0 DEF Tick, TableInv, WorkInv, TypeOK, HandlerState, ReloadState, CliState, Token
<1>4. PassedInv'
  BY <1>0 DEF Tick, PassedInv, WorkInv, TypeOK, HandlerState, ReloadState, On, Reloader, Nobody
<1>5. StreamInv'
  BY <1>0 DEF Tick, StreamInv, Live, TableInv, TypeOK, StreamState
<1>6. RefreshInv'
  BY <1>0 DEF Tick, RefreshInv, Unused, TokensOf, WorkInv, TableInv, TypeOK, HandlerState,
      Nobody, Token
<1>7. UsedInv'
  BY <1>0 DEF Tick, UsedInv, WorkInv, TypeOK, Token, HandlerState
<1>8. SweepInv'
  BY <1>0 DEF Tick, SweepInv, Slow, UsedInv, TableInv, WorkInv, TypeOK, HandlerState, Token
<1>9. SweepSparesLiveGrants'
  BY <1>0 DEF Tick, SweepSparesLiveGrants, Usable, SweepInv, TableInv, Slow, WorkInv, TypeOK,
      Token, HandlerState
<1>10. QED BY <1>1, <1>2, <1>3, <1>4, <1>5, <1>6, <1>7, <1>8, <1>9 DEF IInv

\* The daemon forgets its handlers, streams and lock.
LEMMA RestartStep ==
  ASSUME IInv, Restart
  PROVE  IInv'
<1> USE AccessAssumption DEF At, Made, tables, history
<1>0. /\ TypeOK /\ WorkInv /\ TableInv /\ PassedInv
      /\ StreamInv /\ RefreshInv /\ UsedInv /\ SweepInv
      /\ SweepSparesLiveGrants
  BY DEF IInv
<1>1. TypeOK'
  BY <1>0 DEF Restart, Idle, NoReload, NoStream, TypeOK, HandlerState, ReloadState, CliState,
      StreamState, Reloader, Nobody, Token
<1>2. WorkInv'
  BY <1>0 DEF Restart, Idle, NoReload, NoStream, WorkInv, TypeOK, HandlerState, ReloadState,
      CliState, TableInv, On
<1>3. TableInv'
  BY <1>0 DEF Restart, Idle, NoReload, NoStream, TableInv, WorkInv, TypeOK, HandlerState,
      ReloadState, CliState, Token
<1>4. PassedInv'
  BY <1>0 DEF Restart, Idle, NoReload, NoStream, PassedInv, WorkInv, TypeOK, HandlerState,
      ReloadState, On, Reloader, Nobody
<1>5. StreamInv'
  BY <1>0 DEF Restart, Idle, NoReload, NoStream, StreamInv, Live, TableInv,
      TypeOK, StreamState
<1>6. RefreshInv'
  BY <1>0 DEF Restart, Idle, NoReload, NoStream, RefreshInv, Unused, TokensOf, WorkInv,
      TableInv, TypeOK, HandlerState, Nobody, Token
<1>7. UsedInv'
  BY <1>0 DEF Restart, Idle, NoReload, NoStream, UsedInv, WorkInv, TypeOK, Token, HandlerState
<1>8. SweepInv'
  BY <1>0 DEF Restart, Idle, NoReload, NoStream, SweepInv, Slow, UsedInv, TableInv, WorkInv,
      TypeOK, HandlerState, Token
<1>9. SweepSparesLiveGrants'
  BY <1>0 DEF Restart, Idle, NoReload, NoStream, SweepSparesLiveGrants, Usable, SweepInv,
      TableInv, Slow, WorkInv, TypeOK, Token, HandlerState
<1>10. QED BY <1>1, <1>2, <1>3, <1>4, <1>5, <1>6, <1>7, <1>8, <1>9 DEF IInv

-----------------------------------------------------------------------------
(* The invariant, and what follows from it.                                *)

LEMMA InitInv == Init => IInv
<1> SUFFICES ASSUME Init PROVE IInv
  OBVIOUS
<1> USE AccessAssumption DEF Init, Idle, NoReload, NoCommand, NoStream
<1>1. TypeOK
  BY DEF TypeOK, At, HandlerState, ReloadState, CliState, StreamState, Nobody, Reloader
<1>2. WorkInv /\ TableInv /\ PassedInv
  BY DEF WorkInv, TableInv, PassedInv, Made, At
<1>3. StreamInv /\ RefreshInv /\ UsedInv
  BY DEF StreamInv, Live, RefreshInv, Unused, TokensOf, UsedInv
<1>4. SweepInv /\ SweepSparesLiveGrants
  BY DEF SweepInv, SweepSparesLiveGrants
<1>5. QED BY <1>1, <1>2, <1>3, <1>4 DEF IInv

LEMMA NextInv == IInv /\ [Next]_vars => IInv'
<1> SUFFICES ASSUME IInv, [Next]_vars PROVE IInv'
  OBVIOUS
<1>1. ASSUME NEW w \in Workers, AskForTokens(w) PROVE IInv'
  BY <1>1, ExchangeStep, IssueAccessStep, IssueRefreshStep, RefreshFindStep, RefreshExistsStep,
     RefreshClaimStep DEF AskForTokens
<1>2. ASSUME NEW w \in Workers, Revoke(w) PROVE IInv'
  BY <1>2, RevokeFindStep, RevokeTokensStep, RevokeDropStep, RevokeCloseStep DEF Revoke
<1>3. ASSUME NEW w \in Workers, StoreFails(w) PROVE IInv'
  BY <1>3, StoreFailsStep
<1>4. CASE Reload
  BY <1>4, ReloadListStep, ReloadGrantsStep, ReloadTokensStep, ReloadCloseStep, ReloadFailsStep
  DEF Reload
<1>5. CASE Cli
  BY <1>5, CliGrantStep, CliTokenStep, CliRevokeStep, CliRevokeAllStep, CliDropStep, CliStopsStep
  DEF Cli
<1>6. ASSUME NEW s \in Streams, ServeLink(s) PROVE IInv'
  BY <1>6, ArriveStep, AuthorizeStep, OpenStreamStep, RecheckStep, RecheckGrantStep, StartEventsStep,
     EndStreamStep
  DEF ServeLink
<1>7. CASE PruneTokens
  BY <1>7, PruneTokensStep
<1>8. CASE PruneGrants
  BY <1>8, PruneGrantsStep
<1>9. CASE Tick
  BY <1>9, TickStep
<1>10. CASE Restart
  BY <1>10, RestartStep
<1>11. CASE UNCHANGED vars
  BY <1>11 DEF vars, tables, history, IInv, TypeOK, At, WorkInv, Made, TableInv, PassedInv,
     StreamInv, Live, RefreshInv, Unused, TokensOf, UsedInv, SweepInv, Slow,
     SweepSparesLiveGrants, Usable
<1>12. QED
  BY <1>1, <1>2, <1>3, <1>4, <1>5, <1>6, <1>7, <1>8, <1>9, <1>10, <1>11 DEF Next

\* The inductive invariant holds in every reachable state.
THEOREM Invariance == Spec => []IInv
<1>1. QED BY InitInv, NextInv, PTL DEF Spec

\* The types, and code_lock: at most one handler or the reload is at work
\* inside it (auth.rs, every lock of code_lock).
THEOREM TypesHold == Spec => []TypeOK
<1>1. IInv => TypeOK
  BY DEF IInv
<1>2. QED BY <1>1, Invariance, PTL

\* No event stream of a grant the daemon has revoked goes on, however requests
\* on it, the revocation and the other process overlap; grants that a reload
\* deleted without having listed them are the exception.
THEOREM RevokedStreamsEnd == Spec => []NoStreamOutlivesRevocation
<1>1. IInv => NoStreamOutlivesRevocation
  BY DEF IInv, StreamInv, Live, NoStreamOutlivesRevocation, Streamed
<1>2. QED BY <1>1, Invariance, PTL

\* A set whose members are equal has at most one.
LEMMA AtMostOne ==
  ASSUME NEW S, \A x, y \in S : x = y
  PROVE  Cardinality(S) <= 1
<1>1. CASE S = {}
  BY <1>1, FS_EmptySet
<1>2. CASE S # {}
  <2>1. PICK x \in S : TRUE
    BY <1>2
  <2>2. S = {x}
    BY <2>1
  <2>3. QED BY <2>2, FS_Singleton
<1>3. QED BY <1>1, <1>2

\* A grant never has two refresh tokens that could be used.
THEOREM RefreshTokensAreSingle == Spec => []OneRefreshToken
<1>1. IInv => OneRefreshToken
  <2> SUFFICES ASSUME IInv, NEW g \in Grants
               PROVE  Cardinality(Unused(g)) <= 1
    BY DEF OneRefreshToken, Unused
  <2>1. QED BY AtMostOne DEF IInv, RefreshInv
<1>2. QED BY <1>1, Invariance, PTL

\* A refresh token that was used is known as used until it expires.
THEOREM ReuseStaysNoticeable == Spec => []ReuseIsNoticed
<1>1. IInv => ReuseIsNoticed
  BY DEF IInv, UsedInv, ReuseIsNoticed
<1>2. QED BY <1>1, Invariance, PTL

\* The sweep deletes no grant that a token in time still uses.
THEOREM SweepsAreSafe == Spec => []SweepSparesLiveGrants
<1>1. IInv => SweepSparesLiveGrants
  BY DEF IInv
<1>2. QED BY <1>1, Invariance, PTL

-----------------------------------------------------------------------------
\* A stream starts being served by one action, which finds its grant.
LEMMA ServingNeedsGrant ==
  ASSUME IInv, [Next]_vars, NEW s \in Streams,
         stream'[s].step = "serving", stream[s].step # "serving"
  PROVE  stream[s].token.grant \in grants
<1> USE DEF IInv, TypeOK, tables, history, vars
<1>1. CASE RecheckGrant(s)
  BY <1>1 DEF RecheckGrant, GrantExists, NoStream
<1>2. ASSUME NEW q \in Streams, ServeLink(q), ~(q = s /\ RecheckGrant(s)) PROVE FALSE
  <2>1. stream'[s] = stream[s] \/ q = s
    BY <1>2 DEF ServeLink, Arrive, Authorize, OpenStream, Recheck, RecheckGrant, StartEvents,
           EndStream
  <2>2. q = s
    BY <2>1
  <2>3. stream'[s].step # "serving"
    <3>1. ASSUME NEW t \in answered, Arrive(s, t) PROVE stream'[s].step # "serving"
      BY <3>1 DEF Arrive, NoStream
    <3>2. CASE Authorize(s)
      BY <3>2 DEF Authorize, NoStream, StreamState
    <3>3. CASE OpenStream(s)
      BY <3>3 DEF OpenStream
    <3>4. CASE Recheck(s)
      BY <3>4 DEF Recheck, NoStream, StreamState
    <3>5. CASE EndStream(s)
      BY <3>5 DEF EndStream, NoStream
    <3>6. CASE StartEvents(s)
      BY <3>6 DEF StartEvents, StreamState
    <3>7. QED BY <1>2, <2>2, <3>1, <3>2, <3>3, <3>4, <3>5, <3>6 DEF ServeLink
  <2>4. QED BY <2>3
<1>3. ASSUME NEW w \in Workers, RevokeClose(w) PROVE FALSE
  BY <1>3 DEF RevokeClose, CloseStreams, StreamState
<1>4. ASSUME ReloadClose PROVE FALSE
  BY <1>4 DEF ReloadClose, CloseStreams, StreamState
<1>5. ASSUME Restart PROVE FALSE
  BY <1>5 DEF Restart, NoStream
<1>6. CASE stream' = stream
  BY <1>6
<1>7. QED
  BY <1>1, <1>2, <1>3, <1>4, <1>5, <1>6
  DEF Next, AskForTokens, Exchange, RefreshFind, IssueAccess, IssueRefresh, RefreshExists, RefreshClaim,
      Revoke, RevokeFind, RevokeTokens, RevokeDrop, StoreFails, Reload, ReloadList, ReloadGrants,
      ReloadTokens, ReloadFails, Cli, CliGrant, CliRevoke, CliToken, CliRevokeAll, CliDrop, CliStops,
      PruneTokens, PruneGrants, Tick

\* No request is let in to a grant that either process has revoked.
THEOREM RevokedAreLockedOut == Spec => RevokedIsLockedOut
<1>1. IInv /\ [Next]_vars =>
        [\A s \in Streams :
           stream'[s].step = "serving" /\ stream[s].step # "serving"
             => stream[s].token.grant \notin revokedHere \union revokedByCli]_vars
  BY ServingNeedsGrant DEF IInv, TableInv
<1>2. QED BY <1>1, Invariance, PTL DEF Spec, RevokedIsLockedOut

=============================================================================
