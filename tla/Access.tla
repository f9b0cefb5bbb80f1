-------------------------------- MODULE Access --------------------------------
(***************************************************************************)
(* What a connected client can do, and for how long: the grants and tokens *)
(* tables of store.rs, auth.rs (issue_tokens, refresh, still_allowed,      *)
(* revoke, revoke_grant_inner, revoke_server, create_static_token and the  *)
(* streams of a grant), gateway.rs serve_link, the revocations of          *)
(* cli/access.rs and the prunes of serve.rs.                               *)
(*                                                                         *)
(* A step is one SQL statement or one critical section of Auth.streams.    *)
(* The codes an exchange spends are in Approval: here it is a handler that *)
(* makes a grant.                                                          *)
(***************************************************************************)
EXTENDS Naturals, FiniteSets

CONSTANTS
    Grants,       \* grant ids; each is generated at most once (random_token)
    NoGrant,
    Links,        \* names of links
    NoLink,
    Workers,      \* the daemon's handlers of /token and /revoke
    Streams,      \* its handlers of a link's requests
    NoToken,
    AccessTTL,    \* auth.rs ACCESS_TOKEN_TTL
    RefreshTTL,   \* auth.rs REFRESH_TOKEN_TTL
    StaticTTL,    \* the --expires of a token
    PruneAge,     \* serve.rs sweep: the age at which an empty grant is pruned
    MaxIssued,    \* bound: tokens of one grant
    MaxTime       \* bound: the clock of a run stops here

ASSUME AccessAssumption ==
    /\ NoGrant \notin Grants
    /\ NoLink \notin Links
    /\ {"reloader", "nobody"} \intersect Workers = {}
    /\ {AccessTTL, RefreshTTL, StaticTTL, PruneAge, MaxIssued, MaxTime} \subseteq Nat

VARIABLES
    now,          \* core.rs now_ms
    grants,       \* the rows of table grants
    entry,        \* the columns of each; they keep their last value once it is deleted
    tokens,       \* the rows of table tokens
    revoked,      \* those of them whose column revoked is 1
    issued,       \* tokens made for a grant so far: what tells one from another
    answered,     \* tokens somebody has been given
    lockedBy,     \* who holds the daemon's Auth.code_lock
    handler,      \* what each handler of /token and /revoke is doing
    reload,       \* the daemon's revoke_server
    cli,          \* the other process: cli/access.rs, tui/answer.rs
    stream,       \* what each handler of a link's requests is doing
    (* history, read by no action *)
    used,         \* refresh tokens that were exchanged for a new pair
    late,         \* tokens whose handler stalled past the life of what it started from
    pruned,       \* grants the sweep deleted
    revokedHere,  \* grants the daemon has finished revoking
    revokedByCli, \* grants the other process has finished revoking
    overlooked    \* grants a reload deleted that were not there when it listed

tables == <<grants, entry, tokens, revoked, issued, answered>>
history == <<used, late, pruned, revokedHere, revokedByCli, overlooked>>
vars == <<now, tables, lockedBy, handler, reload, cli, stream, history>>

-----------------------------------------------------------------------------
Token == [grant : Grants, kind : {"access", "refresh", "static"}, serial : Nat, expires_at : Nat]

Reloader == "reloader"
Nobody == "nobody"

Idle == [step |-> "idle", grant |-> NoGrant, token |-> NoToken, now |-> 0]
NoReload == [step |-> "idle", link |-> NoLink, listed |-> {}]
NoCommand == [step |-> "idle", grant |-> NoGrant]
NoStream == [step |-> "idle", token |-> NoToken, cancelled |-> FALSE]

On(l) == {g \in grants : entry[g].link = l}
TokensOf(g) == {t \in tokens : t.grant = g}

\* The token of kind k that is made next for g.
Fresh(g, k, expires_at) ==
    [grant |-> g, kind |-> k, serial |-> issued[g], expires_at |-> expires_at]

\* token_insert
Insert(t) ==
    /\ issued[t.grant] < MaxIssued
    /\ tokens' = tokens \union {t}
    /\ issued' = [issued EXCEPT ![t.grant] = @ + 1]

\* grant_insert
InsertGrant(g, l) ==
    /\ entry[g].link = NoLink
    /\ grants' = grants \union {g}
    /\ entry' = [entry EXCEPT ![g] = [link |-> l, created_at |-> now]]

At(w, step) == handler[w].step = step
Go(w, step) == handler' = [handler EXCEPT ![w].step = step]
Return(w) == handler' = [handler EXCEPT ![w] = Idle]
Acquire(w) == lockedBy = Nobody /\ lockedBy' = w
Release == lockedBy' = Nobody

\* A GrantStream that exists is in Auth.streams, unless it was cancelled.
Open(s) == stream[s].step \in {"recheck", "regrant", "serving", "streaming"}

\* close_grant_streams
CloseStreams(gs) == stream' = [s \in Streams |->
    IF Open(s) /\ stream[s].token.grant \in gs
    THEN [stream[s] EXCEPT !.cancelled = TRUE] ELSE stream[s]]

Init ==
    /\ now = 0
    /\ grants = {}
    /\ entry = [g \in Grants |-> [link |-> NoLink, created_at |-> 0]]
    /\ tokens = {}
    /\ revoked = {}
    /\ issued = [g \in Grants |-> 0]
    /\ answered = {}
    /\ lockedBy = Nobody
    /\ handler = [w \in Workers |-> Idle]
    /\ reload = NoReload
    /\ cli = NoCommand
    /\ stream = [s \in Streams |-> NoStream]
    /\ used = {}
    /\ late = {}
    /\ pruned = {}
    /\ revokedHere = {}
    /\ revokedByCli = {}
    /\ overlooked = {}

-----------------------------------------------------------------------------
(* POST /token: exchange_code and refresh, both under code_lock.           *)

\* The end of exchange_code: the grant, then its tokens.
Exchange(w, g, l) ==
    /\ At(w, "idle")
    /\ Acquire(w)
    /\ InsertGrant(g, l)
    /\ handler' = [handler EXCEPT ![w] = [Idle EXCEPT !.step = "issue", !.grant = g]]
    /\ UNCHANGED <<now, tokens, revoked, issued, answered, reload, cli, stream, history>>

\* A grant whose first token is this slow to follow may have been pruned.
Slow(g) == entry[g].created_at + PruneAge < now

\* issue_tokens, first half; both expiries count from here.
IssueAccess(w) ==
    LET g == handler[w].grant
        from == handler[w].token
        t == Fresh(g, "access", now + AccessTTL) IN
    /\ At(w, "issue")
    /\ Insert(t)
    /\ handler' = [handler EXCEPT ![w].step = "pair", ![w].now = now]
    /\ late' = IF IF from = NoToken THEN Slow(g) ELSE from.expires_at < now
               THEN late \union {t} ELSE late
    /\ UNCHANGED <<now, grants, entry, revoked, answered, lockedBy, reload, cli, stream,
                   used, pruned, revokedHere, revokedByCli, overlooked>>

IssueRefresh(w) ==
    LET g == handler[w].grant
        t == Fresh(g, "refresh", handler[w].now + RefreshTTL) IN
    /\ At(w, "pair")
    /\ Insert(t)
    /\ answered' = answered \union {t} \union {a \in TokensOf(g) : a.serial + 1 = t.serial}
    /\ Return(w)
    /\ Release
    /\ UNCHANGED <<now, grants, entry, revoked, reload, cli, stream, history>>

\* refresh: the token is known and has not expired.
RefreshFind(w, t) ==
    /\ At(w, "idle")
    /\ t.kind = "refresh" /\ t.expires_at >= now
    /\ issued[t.grant] + 1 < MaxIssued            \* bound: room for a pair
    /\ Acquire(w)
    /\ handler' = [handler EXCEPT ![w] = [Idle EXCEPT !.step = "exists", !.grant = t.grant, !.token = t]]
    /\ UNCHANGED <<now, tables, reload, cli, stream, history>>

RefreshExists(w) ==
    /\ At(w, "exists")
    /\ IF handler[w].grant \in grants
       THEN Go(w, "claim") /\ UNCHANGED lockedBy
       ELSE Return(w) /\ Release
    /\ UNCHANGED <<now, tables, reload, cli, stream, history>>

ClaimAnyway(t) == t \in tokens              \* mutated form: AND revoked = 0 is missing
Claimable(t) == t \in tokens \ revoked

\* token_claim: one statement tests and sets. A token used before takes the
\* whole grant with it.
RefreshClaim(w) ==
    LET t == handler[w].token IN
    /\ At(w, "claim")
    /\ IF Claimable(t)
       THEN /\ revoked' = revoked \union {t}
            /\ used' = used \union {t}
            /\ Go(w, "issue")
       ELSE /\ Go(w, "revoke")
            /\ UNCHANGED <<revoked, used>>
    /\ UNCHANGED <<now, grants, entry, tokens, issued, answered, lockedBy, reload, cli, stream,
                   late, pruned, revokedHere, revokedByCli, overlooked>>

-----------------------------------------------------------------------------
(* POST /revoke, and revoke_grant_inner in the daemon.                     *)

RevokeFind(w, t) ==
    /\ At(w, "idle")
    /\ Acquire(w)
    /\ handler' = [handler EXCEPT ![w] = [Idle EXCEPT !.step = "revoke", !.grant = t.grant]]
    /\ UNCHANGED <<now, tables, reload, cli, stream, history>>

RevokeTokens(w) ==
    /\ At(w, "revoke")
    /\ revoked' = revoked \union TokensOf(handler[w].grant)
    /\ Go(w, "drop")
    /\ UNCHANGED <<now, grants, entry, tokens, issued, answered, lockedBy, reload, cli, stream, history>>

RevokeDrop(w) ==
    /\ At(w, "drop")
    /\ grants' = grants \ {handler[w].grant}
    /\ Go(w, "close")
    /\ UNCHANGED <<now, entry, tokens, revoked, issued, answered, lockedBy, reload, cli, stream, history>>

RevokeClose(w) ==
    /\ At(w, "close")
    /\ CloseStreams({handler[w].grant})
    /\ revokedHere' = revokedHere \union {handler[w].grant}
    /\ overlooked' = overlooked \ {handler[w].grant}
    /\ Return(w)
    /\ Release
    /\ UNCHANGED <<now, tables, reload, cli, used, late, pruned, revokedByCli>>

\* A statement fails: the answer is an error, and what was done stays done.
StoreFails(w) ==
    /\ handler[w].step \in {"issue", "pair", "exists", "claim", "revoke", "drop"}
    /\ Return(w)
    /\ Release
    /\ UNCHANGED <<now, tables, reload, cli, stream, history>>

-----------------------------------------------------------------------------
(* revoke_server, when the daemon applies changed settings. It deletes the *)
(* grants the link has by then, and closes the streams of those it listed  *)
(* first: one the other process inserted in between is overlooked.         *)

ReloadList(l) ==
    /\ reload.step = "idle"
    /\ Acquire(Reloader)
    /\ reload' = [step |-> "grants", link |-> l, listed |-> On(l)]
    /\ UNCHANGED <<now, tables, handler, cli, stream, history>>

ReloadGrants ==
    /\ reload.step = "grants"
    /\ grants' = grants \ On(reload.link)
    /\ overlooked' = overlooked \union (On(reload.link) \ reload.listed)
    /\ reload' = [reload EXCEPT !.step = "tokens"]
    /\ UNCHANGED <<now, entry, tokens, revoked, issued, answered, lockedBy, handler, cli, stream,
                   used, late, pruned, revokedHere, revokedByCli>>

ReloadTokens ==
    /\ reload.step = "tokens"
    /\ revoked' = revoked \union {t \in tokens : entry[t.grant].link = reload.link}
    /\ reload' = [reload EXCEPT !.step = "close"]
    /\ UNCHANGED <<now, grants, entry, tokens, issued, answered, lockedBy, handler, cli, stream, history>>

ReloadClose ==
    /\ reload.step = "close"
    /\ CloseStreams(reload.listed)
    /\ revokedHere' = revokedHere \union reload.listed
                         \union {g \in overlooked : entry[g].link = reload.link}
    /\ reload' = NoReload
    /\ Release
    /\ UNCHANGED <<now, tables, handler, cli, used, late, pruned, revokedByCli, overlooked>>

ReloadFails ==
    /\ reload.step \in {"grants", "tokens", "close"}
    /\ reload' = NoReload
    /\ Release
    /\ UNCHANGED <<now, tables, handler, cli, stream, history>>

-----------------------------------------------------------------------------
(* The other process: porchlight tokens create, tokens revoke, clients     *)
(* revoke and clients revoke --all. Its Auth has its own code_lock and no  *)
(* streams.                                                                *)

CliGrant(g, l) ==
    /\ cli.step = "idle"
    /\ InsertGrant(g, l)
    /\ cli' = [step |-> "static", grant |-> g]
    /\ UNCHANGED <<now, tokens, revoked, issued, answered, lockedBy, handler, reload, stream, history>>

CliToken ==
    LET t == Fresh(cli.grant, "static", now + StaticTTL) IN
    /\ cli.step = "static"
    /\ Insert(t)
    /\ answered' = answered \union {t}
    /\ late' = IF Slow(cli.grant) THEN late \union {t} ELSE late
    /\ cli' = NoCommand
    /\ UNCHANGED <<now, grants, entry, revoked, lockedBy, handler, reload, stream,
                   used, pruned, revokedHere, revokedByCli, overlooked>>

CliRevoke(g) ==
    /\ cli.step = "idle"
    /\ g \in grants
    /\ revoked' = revoked \union TokensOf(g)
    /\ cli' = [step |-> "drop", grant |-> g]
    /\ UNCHANGED <<now, grants, entry, tokens, issued, answered, lockedBy, handler, reload, stream, history>>

CliRevokeAll ==
    /\ cli.step = "idle"
    /\ revoked' = tokens
    /\ cli' = [step |-> "dropall", grant |-> NoGrant]
    /\ UNCHANGED <<now, grants, entry, tokens, issued, answered, lockedBy, handler, reload, stream, history>>

CliDrop ==
    LET gs == IF cli.step = "drop" THEN {cli.grant} ELSE grants IN
    /\ cli.step \in {"drop", "dropall"}
    /\ grants' = grants \ gs
    /\ revokedByCli' = revokedByCli \union gs
    /\ cli' = NoCommand
    /\ UNCHANGED <<now, entry, tokens, revoked, issued, answered, lockedBy, handler, reload, stream,
                   used, late, pruned, revokedHere, overlooked>>

\* Killed, or a statement failed.
CliStops ==
    /\ cli.step # "idle"
    /\ cli' = NoCommand
    /\ UNCHANGED <<now, tables, lockedBy, handler, reload, stream, history>>

-----------------------------------------------------------------------------
(* A request on a link: gateway.rs serve_link. still_allowed reads the     *)
(* token and then its grant; it runs once before the stream of the grant   *)
(* is opened and once after.                                               *)

Usable(t) == t \in tokens \ revoked /\ t.kind # "refresh" /\ t.expires_at > now

GrantIgnored(g) == TRUE                 \* mutated form: grant_exists is not asked
GrantExists(g) == g \in grants

Arrive(s, t) ==
    /\ stream[s].step = "idle"
    /\ Usable(t)
    /\ stream' = [stream EXCEPT ![s] = [NoStream EXCEPT !.step = "grant", !.token = t]]
    /\ UNCHANGED <<now, tables, lockedBy, handler, reload, cli, history>>

Authorize(s) ==
    /\ stream[s].step = "grant"
    /\ stream' = [stream EXCEPT ![s] =
         IF GrantExists(@.token.grant) THEN [@ EXCEPT !.step = "open"] ELSE NoStream]
    /\ UNCHANGED <<now, tables, lockedBy, handler, reload, cli, history>>

OpenUnchecked(s) ==                     \* mutated form: no second look
    /\ stream[s].step = "open"
    /\ stream' = [stream EXCEPT ![s].step = "serving"]
    /\ UNCHANGED <<now, tables, lockedBy, handler, reload, cli, history>>

OpenStream(s) ==
    /\ stream[s].step = "open"
    /\ stream' = [stream EXCEPT ![s].step = "recheck"]
    /\ UNCHANGED <<now, tables, lockedBy, handler, reload, cli, history>>

Recheck(s) ==
    /\ stream[s].step = "recheck"
    /\ stream' = [stream EXCEPT ![s] =
         IF Usable(@.token) THEN [@ EXCEPT !.step = "regrant"] ELSE NoStream]
    /\ UNCHANGED <<now, tables, lockedBy, handler, reload, cli, history>>

RecheckGrant(s) ==
    /\ stream[s].step = "regrant"
    /\ stream' = [stream EXCEPT ![s] =
         IF GrantExists(@.token.grant) THEN [@ EXCEPT !.step = "serving"] ELSE NoStream]
    /\ UNCHANGED <<now, tables, lockedBy, handler, reload, cli, history>>

\* surface.serve returns the head of an event stream: from here its body ends
\* when the stream of the grant is cancelled. Until here, and for a plain
\* answer, a cancel has no effect.
StartEvents(s) ==
    /\ stream[s].step = "serving"
    /\ stream' = [stream EXCEPT ![s].step = "streaming"]
    /\ UNCHANGED <<now, tables, lockedBy, handler, reload, cli, history>>

\* A plain answer, the end of the event stream or its cut, or its client left.
EndStream(s) ==
    /\ stream[s].step \in {"serving", "streaming"}
    /\ stream' = [stream EXCEPT ![s] = NoStream]
    /\ UNCHANGED <<now, tables, lockedBy, handler, reload, cli, history>>

-----------------------------------------------------------------------------
(* serve.rs sweep, the clock, and a daemon that stops and starts.          *)

PrunableRevoked == {t \in tokens : t.expires_at < now \/ t \in revoked}     \* mutated form
Prunable == {t \in tokens : t.expires_at < now \/ (t \in revoked /\ t.kind # "refresh")}

PruneTokens ==
    /\ Prunable # {}
    /\ tokens' = tokens \ Prunable
    /\ revoked' = revoked \ Prunable
    /\ UNCHANGED <<now, grants, entry, issued, answered, lockedBy, handler, reload, cli, stream, history>>

EmptyAtAnyAge == {g \in grants : TokensOf(g) = {}}                          \* mutated form
Empty == {g \in grants : entry[g].created_at + PruneAge < now /\ TokensOf(g) = {}}

PruneGrants ==
    /\ Empty # {}
    /\ grants' = grants \ Empty
    /\ pruned' = pruned \union Empty
    /\ UNCHANGED <<now, entry, tokens, revoked, issued, answered, lockedBy, handler, reload, cli, stream,
                   used, late, revokedHere, revokedByCli, overlooked>>

Tick ==
    /\ now < MaxTime
    /\ now' = now + 1
    /\ UNCHANGED <<tables, lockedBy, handler, reload, cli, stream, history>>

Restart ==
    /\ lockedBy' = Nobody
    /\ handler' = [w \in Workers |-> Idle]
    /\ reload' = NoReload
    /\ stream' = [s \in Streams |-> NoStream]
    /\ UNCHANGED <<now, tables, cli, history>>

-----------------------------------------------------------------------------
AskForTokens(w) ==
    \/ \E g \in Grants, l \in Links : Exchange(w, g, l)
    \/ \E t \in answered \intersect tokens : RefreshFind(w, t)
    \/ IssueAccess(w) \/ IssueRefresh(w) \/ RefreshExists(w) \/ RefreshClaim(w)

Revoke(w) ==
    \/ \E t \in answered \intersect tokens : RevokeFind(w, t)
    \/ RevokeTokens(w) \/ RevokeDrop(w) \/ RevokeClose(w)

Reload ==
    \/ \E l \in Links : ReloadList(l)
    \/ ReloadGrants \/ ReloadTokens \/ ReloadClose \/ ReloadFails

Cli ==
    \/ \E g \in Grants, l \in Links : CliGrant(g, l)
    \/ \E g \in Grants : CliRevoke(g)
    \/ CliToken \/ CliRevokeAll \/ CliDrop \/ CliStops

ServeLink(s) ==
    \/ \E t \in answered : Arrive(s, t)
    \/ Authorize(s) \/ OpenStream(s) \/ Recheck(s) \/ RecheckGrant(s)
    \/ StartEvents(s) \/ EndStream(s)

Next ==
    \/ \E w \in Workers : AskForTokens(w) \/ Revoke(w) \/ StoreFails(w)
    \/ Reload
    \/ Cli
    \/ \E s \in Streams : ServeLink(s)
    \/ PruneTokens
    \/ PruneGrants
    \/ Tick
    \/ Restart

Spec == Init /\ [][Next]_vars

-----------------------------------------------------------------------------
(* Properties                                                              *)

HandlerState ==
    [step : {"idle", "issue", "pair", "exists", "claim", "revoke", "drop", "close"},
     grant : Grants \union {NoGrant}, token : Token \union {NoToken}, now : Nat]

ReloadState ==
    [step : {"idle", "grants", "tokens", "close"}, link : Links \union {NoLink},
     listed : SUBSET Grants]

CliState == [step : {"idle", "static", "drop", "dropall"}, grant : Grants \union {NoGrant}]

StreamState ==
    [step : {"idle", "grant", "open", "recheck", "regrant", "serving", "streaming"},
     token : Token \union {NoToken}, cancelled : BOOLEAN]

\* Every variable has its shape, a row is revoked only while it exists, and a
\* handler is under way exactly while it holds code_lock.
TypeOK ==
    /\ now \in Nat
    /\ grants \in SUBSET Grants
    /\ entry \in [Grants -> [link : Links \union {NoLink}, created_at : Nat]]
    /\ tokens \in SUBSET Token
    /\ revoked \in SUBSET tokens
    /\ issued \in [Grants -> 0..MaxIssued]
    /\ answered \in SUBSET Token
    /\ lockedBy \in Workers \union {Reloader, Nobody}
    /\ handler \in [Workers -> HandlerState]
    /\ \A w \in Workers : ~At(w, "idle") <=> lockedBy = w
    /\ reload \in ReloadState
    /\ reload.step # "idle" <=> lockedBy = Reloader
    /\ cli \in CliState
    /\ stream \in [Streams -> StreamState]
    /\ used \in SUBSET Token
    /\ late \in SUBSET Token
    /\ {pruned, revokedHere, revokedByCli, overlooked} \subseteq SUBSET Grants

\* The client is being sent events; a cancelled body ends by itself.
Streamed(s) == stream[s].step = "streaming" /\ ~stream[s].cancelled

\* Once the daemon has revoked a grant (a token of it was revoked or used
\* twice, or its link changed), no event stream of it goes on, neither one
\* that was open nor one of a request that was being let in, or was already
\* inside surface.serve, meanwhile: the stream is registered before the second
\* look at the token (gateway.rs:494-496 and 505-515, auth.rs:371-376,
\* 423-444, tests/security.rs:133). Two things are not promised: a request
\* inside surface.serve still gets its plain answer, and a reload closes no
\* stream of a grant that the other process made after the reload had listed
\* the link's and that it deleted nevertheless.
NoStreamOutlivesRevocation ==
    \A s \in Streams :
        Streamed(s) => stream[s].token.grant \notin revokedHere \ overlooked

\* A refresh token is good for one pair: at any time at most one refresh token
\* of a grant has not been used, whatever is refreshed, retried, failing or
\* restarted (auth.rs:317-340, store.rs:643-648).
OneRefreshToken ==
    \A g \in Grants :
        Cardinality({t \in TokensOf(g) \ revoked : t.kind = "refresh"}) <= 1

\* Using a refresh token twice is noticed until it expires: the sweep keeps the
\* used ones (store.rs:650-655, tests/security.rs:297).
ReuseIsNoticed ==
    \A t \in used : t.expires_at >= now => t \in revoked

\* The sweep never takes the grant of a token that still works. The hour it
\* waits covers the statements between a grant and its first token; only a
\* handler that stalls longer, or past the expiry of the refresh token it
\* accepted, hands out tokens of a grant that is gone (serve.rs:316,
\* store.rs:673-681).
SweepSparesLiveGrants ==
    \A t \in tokens : Usable(t) /\ t.grant \in pruned => t \in late

\* A request that surface.serve is asked to serve has a grant that neither
\* process has revoked, overlooked ones included, although a refresh that
\* overlaps a revocation by the other process leaves tokens nobody revoked:
\* still_allowed asks for the grant too (auth.rs:342-359).
RevokedIsLockedOut ==
    [][\A s \in Streams :
         stream'[s].step = "serving" /\ stream[s].step # "serving"
           => stream[s].token.grant \notin revokedHere \union revokedByCli]_vars

=============================================================================
