-------------------------------- MODULE Reload --------------------------------
(***************************************************************************)
(* How changed settings reach the links and the people who approved them:  *)
(* Reloader of serve.rs (start, apply, reload_with, reload_if_changed),    *)
(* the plans that registry.rs sync leaves, the signatures of links.rs, and *)
(* the requests of gateway.rs authorize that come in meanwhile.            *)
(*                                                                         *)
(* A link is told apart by its membership, which is what LinkPlan          *)
(* signature encodes. revoke_server is one step here: Approval shows       *)
(* that nothing filed before it survives it.                               *)
(***************************************************************************)
EXTENDS Naturals, FiniteSets

CONSTANTS
    Links,         \* names of links
    Memberships,   \* what a link can consist of
    Absent,        \* the settings or the registry do not have the link
    Broken,        \* the settings name it, but it does not compile
    Unreadable,    \* porchlight.json does not parse
    Never,         \* no fingerprint yet
    Requests,      \* connection requests
    MaxEdits,      \* bound: edits of porchlight.json
    MaxTroubles    \* bound: failing statements and restarts together

ASSUME ReloadAssumption ==
    /\ {Absent, Broken, Unreadable, Never} \intersect Memberships = {}
    /\ Absent # Broken
    /\ Unreadable # Never
    /\ MaxEdits \in Nat
    /\ MaxTroubles \in Nat

Settings == [Links -> Memberships \union {Absent, Broken}]
Contents == Settings \union {Unreadable}

VARIABLES
    file,        \* the contents of porchlight.json
    written,     \* the contents it has had
    edits, troubles,
    plans,       \* Registry.plans: the membership of each link served
    signatures,  \* the row link-signatures of table meta
    seen,        \* Reloader.seen: a fingerprint stands for the contents it is of
    serving,     \* daemon.rs start has come to the gateway and the watcher
    caller,      \* who is in reload_with: the watcher, and start or the control socket
    apply,       \* what the one that holds Reloader.lock is doing
    request,     \* each connection request, and the grant it becomes
    windowed     \* history: requests filed while a reload was changing their link

reloader == <<seen, serving, caller, apply>>
vars == <<file, written, edits, troubles, plans, signatures, reloader, request, windowed>>

-----------------------------------------------------------------------------
Callers == {"watcher", "control"}

NoCall == [step |-> "idle", current |-> Never]
NoApply == [step |-> "idle", by |-> "control", loaded |-> Unreadable, todo |-> {}, failed |-> FALSE]

\* apps.rs compile_links
Compiled(settings) ==
    [l \in Links |-> IF settings[l] \in Memberships THEN settings[l] ELSE Absent]

NoPlans == [l \in Links |-> Absent]

On(l, states) == {r \in Requests : request[r].link = l /\ request[r].state \in states}

\* What revoke_server(l) ends.
Standing(l) == On(l, {"waiting", "approved", "granted"})

EndedAmong(rs) == [r \in Requests |->
    IF r \in rs THEN [request[r] EXCEPT !.state = "ended"] ELSE request[r]]

\* removed_links
Removed(settings) ==
    {l \in Links : settings[l] = Absent
        /\ (signatures[l] # Absent \/ On(l, {"waiting", "granted"}) # {})}

\* new_membership
Changed(settings) == {l \in Links : settings[l] \in Memberships /\ settings[l] # signatures[l]}

RemovedOnly(settings) == Removed(settings)          \* mutated form
ToRevoke(settings) == Removed(settings) \union Changed(settings)

\* A link that does not compile keeps the signature it had.
ForgetBroken(settings) == Compiled(settings)        \* mutated form
NextSignatures(settings) ==
    [l \in Links |-> IF settings[l] = Broken THEN signatures[l] ELSE Compiled(settings)[l]]

Init ==
    /\ file \in Settings
    /\ written = {file}
    /\ edits = 0
    /\ troubles = 0
    /\ plans = NoPlans
    /\ signatures = NoPlans
    /\ seen = Never
    /\ serving = FALSE
    /\ caller = [c \in Callers |-> NoCall]
    /\ apply = NoApply
    /\ request = [r \in Requests |-> [state |-> "new", link |-> Absent, shown |-> Never]]
    /\ windowed = {}

-----------------------------------------------------------------------------
(* The file is edited, by hand or by another porchlight process.           *)

Edit(contents) ==
    /\ edits < MaxEdits
    /\ contents # file
    /\ file' = contents
    /\ written' = written \union {contents}
    /\ edits' = edits + 1
    /\ UNCHANGED <<troubles, plans, signatures, reloader, request, windowed>>

-----------------------------------------------------------------------------
(* Reloading. The fingerprint is taken before Reloader.lock is waited for. *)

\* reload_if_changed, every 250 ms.
Notice ==
    /\ serving
    /\ caller["watcher"].step = "idle"
    /\ file # seen
    /\ caller' = [caller EXCEPT !["watcher"] = [step |-> "queued", current |-> file]]
    /\ UNCHANGED <<file, written, edits, troubles, plans, signatures, seen, serving, apply,
                   request, windowed>>

\* reload_now: Reloader start, and later the control socket.
Order ==
    /\ caller["control"].step = "idle"
    /\ caller' = [caller EXCEPT !["control"] = [step |-> "queued", current |-> file]]
    /\ UNCHANGED <<file, written, edits, troubles, plans, signatures, seen, serving, apply,
                   request, windowed>>

\* reload_with ends: the lock is free, and a daemon that was starting serves.
Finish(c) ==
    /\ apply' = NoApply
    /\ caller' = [caller EXCEPT ![c] = NoCall]
    /\ serving' = TRUE

\* The settings, the grants, the waiting requests and the signatures are read.
Load(c) ==
    /\ caller[c].step = "queued"
    /\ apply.step = "idle"
    /\ IF file = Unreadable
       THEN Finish(c)
       ELSE /\ apply' = [step |-> "revoke", by |-> c, loaded |-> file,
                         todo |-> ToRevoke(file), failed |-> FALSE]
            /\ UNCHANGED <<caller, serving>>
    /\ UNCHANGED <<file, written, edits, troubles, plans, signatures, seen, request, windowed>>

RevokeServer(l) ==
    /\ l \in apply.todo
    /\ request' = EndedAmong(Standing(l))
    /\ apply' = [apply EXCEPT !.todo = @ \ {l}]
    /\ UNCHANGED <<file, written, edits, troubles, plans, signatures, seen, serving, caller, windowed>>

\* It stops part of the way; the other links are still tried.
RevokeFails(l) ==
    /\ l \in apply.todo
    /\ troubles < MaxTroubles
    /\ troubles' = troubles + 1
    /\ \E some \in SUBSET Standing(l) : request' = EndedAmong(some)
    /\ apply' = [apply EXCEPT !.todo = @ \ {l}, !.failed = TRUE]
    /\ UNCHANGED <<file, written, edits, plans, signatures, seen, serving, caller, windowed>>

SaveSignatures ==
    /\ apply.step = "revoke"
    /\ apply.todo = {}
    /\ IF apply.failed
       THEN Finish(apply.by) /\ UNCHANGED signatures
       ELSE /\ signatures' = NextSignatures(apply.loaded)
            /\ apply' = [apply EXCEPT !.step = "sync"]
            /\ UNCHANGED <<caller, serving>>
    /\ UNCHANGED <<file, written, edits, troubles, plans, seen, request, windowed>>

\* meta_set, or one of the reads of Load, fails.
StoreFails ==
    /\ troubles < MaxTroubles
    /\ troubles' = troubles + 1
    /\ apply.step = "revoke"
    /\ apply.todo = {} \/ apply.todo = ToRevoke(apply.loaded)
    /\ Finish(apply.by)
    /\ UNCHANGED <<file, written, edits, plans, signatures, seen, request, windowed>>

SeenAtTheEnd(c) == seen' = file              \* mutated form: the fingerprint is taken last
SeenAtTheStart(c) == seen' = caller[c].current

\* set_rules and sync, which waits for the sources it removes to shut down
\* before it writes the plans.
Sync ==
    /\ apply.step = "sync"
    /\ plans' = Compiled(apply.loaded)
    /\ SeenAtTheStart(apply.by)
    /\ Finish(apply.by)
    /\ UNCHANGED <<file, written, edits, troubles, signatures, request, windowed>>

\* The daemon stops and starts; codes and unfinished handlers are gone.
Restart ==
    /\ troubles < MaxTroubles
    /\ troubles' = troubles + 1
    /\ plans' = NoPlans
    /\ seen' = Never
    /\ serving' = FALSE
    /\ caller' = [c \in Callers |-> NoCall]
    /\ apply' = NoApply
    /\ request' = EndedAmong({r \in Requests : request[r].state \in {"found", "approved"}})
    /\ UNCHANGED <<file, written, edits, signatures, windowed>>

-----------------------------------------------------------------------------
(* Connection requests.                                                    *)

Become(r, state) == request' = [request EXCEPT ![r].state = state]

\* gateway.rs authorize finds the link, then awaits the client's identity.
Find(r, l) ==
    /\ serving
    /\ request[r].state = "new"
    /\ plans[l] # Absent
    /\ request' = [request EXCEPT ![r].state = "found", ![r].link = l]
    /\ UNCHANGED <<file, written, edits, troubles, plans, signatures, reloader, windowed>>

\* A reload is under way that the link will not come out of as it is.
Outdated(l) == apply.step # "idle" /\ Compiled(apply.loaded)[l] # plans[l]

\* auth.rs begin: the request is in the database.
File(r) ==
    /\ request[r].state = "found"
    /\ Become(r, "waiting")
    /\ windowed' = IF Outdated(request[r].link) THEN windowed \union {r} ELSE windowed
    /\ UNCHANGED <<file, written, edits, troubles, plans, signatures, reloader>>

\* approval.rs summarize: the page names the tools the link has now.
Show(r) ==
    /\ serving
    /\ request[r].state = "waiting"
    /\ request' = [request EXCEPT ![r].shown = plans[request[r].link]]
    /\ UNCHANGED <<file, written, edits, troubles, plans, signatures, reloader, windowed>>

Approve(r) ==
    /\ serving
    /\ request[r].state = "waiting"
    /\ request[r].shown # Never
    /\ Become(r, "approved")
    /\ UNCHANGED <<file, written, edits, troubles, plans, signatures, reloader, windowed>>

Exchange(r) ==
    /\ request[r].state = "approved"
    /\ Become(r, "granted")
    /\ UNCHANGED <<file, written, edits, troubles, plans, signatures, reloader, windowed>>

\* Denied, expired, refused or revoked for another reason.
End(r) ==
    /\ request[r].state \in {"found", "waiting", "approved", "granted"}
    /\ Become(r, "ended")
    /\ UNCHANGED <<file, written, edits, troubles, plans, signatures, reloader, windowed>>

-----------------------------------------------------------------------------
Connect ==
    \E r \in Requests :
        \/ \E l \in Links : Find(r, l)
        \/ File(r) \/ Show(r) \/ Approve(r) \/ Exchange(r) \/ End(r)

Reloading ==
    \/ Notice
    \/ Order
    \/ \E c \in Callers : Load(c)
    \/ \E l \in Links : RevokeServer(l) \/ RevokeFails(l)
    \/ SaveSignatures
    \/ StoreFails
    \/ Sync

Next ==
    \/ \E contents \in Contents : Edit(contents)
    \/ Reloading
    \/ Restart
    \/ Connect

Spec == Init /\ [][Next]_vars

\* The watcher looks every 250 ms, start calls reload_now once, Reloader.lock
\* is fair, and whoever holds it goes on. Nobody has to edit, ask or approve.
Fairness ==
    /\ WF_vars(Notice)
    /\ WF_vars(Order /\ ~serving)
    /\ \A c \in Callers : SF_vars(Load(c))
    /\ \A l \in Links : WF_vars(RevokeServer(l))
    /\ WF_vars(SaveSignatures)
    /\ WF_vars(Sync)

FairSpec == Spec /\ Fairness

-----------------------------------------------------------------------------
(* Properties                                                              *)

RequestState ==
    [state : {"new", "found", "waiting", "approved", "granted", "ended"},
     link : Links \union {Absent},
     shown : Memberships \union {Absent, Never}]

ApplyState ==
    [step : {"idle", "revoke", "sync"}, by : Callers, loaded : Contents,
     todo : SUBSET Links, failed : BOOLEAN]

\* Every variable has its shape, and only settings that parse are applied.
TypeOK ==
    /\ file \in Contents
    /\ written \in SUBSET Contents
    /\ edits \in 0..MaxEdits
    /\ troubles \in 0..MaxTroubles
    /\ plans \in [Links -> Memberships \union {Absent}]
    /\ signatures \in [Links -> Memberships \union {Absent}]
    /\ seen \in Contents \union {Never}
    /\ serving \in BOOLEAN
    /\ caller \in [Callers -> [step : {"idle", "queued"}, current : Contents \union {Never}]]
    /\ apply \in ApplyState
    /\ apply.step # "idle" => apply.loaded \in Settings
    /\ request \in [Requests -> RequestState]
    /\ windowed \in SUBSET Requests

Connected(r) == request[r].state \in {"waiting", "approved", "granted"}

\* A page that named tools named those of the membership the link has.
ShownWhatItGets(r) ==
    request[r].shown \in Memberships =>
        plans[request[r].link] \in {request[r].shown, Absent}

\* Whoever waits for, is approved for or has a grant on a link was shown the
\* link as it is, through edits, failing revocations, links that stop
\* compiling and come back, and restarts, but for the requests filed while a
\* reload was between revoking and serving the new settings
\* (serve.rs:207-251, tests/config.rs:181, 287).
ConsentMatchesLink ==
    \A r \in Requests : Connected(r) /\ r \notin windowed => ShownWhatItGets(r)

\* A reload takes access only from a link whose membership changed or that is
\* gone: one that does not compile now keeps its clients (tests/config.rs:93,
\* 193, 236).
UnchangedLinksKeepClients ==
    [][\A r \in Requests, l \in Links :
         (request[r].state = "granted" /\ request[r].link = l /\ request[r].shown \in Memberships
            /\ r \notin windowed /\ l \in apply.todo /\ request'[r].state = "ended"
            /\ apply'.todo # apply.todo)
           => apply.loaded[l] \notin {request[r].shown, Broken}]_vars

\* porchlight.json has had contents twice.
Reverted == Cardinality(written) < edits + 1

\* The latest settings that parse end up being served, unless an edit brought
\* earlier contents back (serve.rs:283-294).
EveryEditIsApplied == <>[](file = Unreadable \/ plans = Compiled(file) \/ Reverted)

=============================================================================
