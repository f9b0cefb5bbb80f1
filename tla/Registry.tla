------------------------------- MODULE Registry -------------------------------
(***************************************************************************)
(* The apps a daemon shares and what it knows of their tools: registry.rs, *)
(* with the parts of policy.rs and links.rs it calls. A reload (set_rules, *)
(* then sync), the supervisor of each slot (check every few seconds), the  *)
(* gateway's mark_down and the clients that listen for list changes run    *)
(* at the same time over the same slots.                                   *)
(***************************************************************************)
EXTENDS Naturals, FiniteSets

CONSTANTS
    Apps,          \* names of apps
    Tools,         \* names of tools an app can announce
    Invalid,       \* the names policy.rs valid_tool_name refuses
    RunsCode,      \* the tools policy.rs is_dangerous flags
    Specs,         \* what the settings can say of an app
    NoSpec,        \* the settings do not have the app
    Offers,        \* the tools an MCP app can answer with
    Down,          \* an MCP app does not answer
    MaxSlots,      \* bound: slots that are mapped or held at a time
    MaxTasks,      \* bound: supervisor tasks at a time, with the last one of each slot
    Watchers,      \* clients that listen for list changes
    Settings,      \* [specs, off]: what a reload brings
    MaxReloads,    \* bound: reloads
    MaxMarks,      \* bound: requests that find an app down
    MaxChanges     \* bound: times an MCP app changes what it answers

ASSUME RegistryAssumption ==
    /\ Invalid \subseteq Tools /\ RunsCode \subseteq Tools
    /\ Offers \subseteq SUBSET Tools /\ Down \notin Offers
    /\ NoSpec \notin Specs
    /\ \A spec \in Specs :
          /\ spec.kind \in {"http", "stdio", "commands"}
          /\ spec.allowDangerous \in BOOLEAN
          /\ spec.contributes \subseteq Tools
    /\ \A s \in Settings : s.specs \in [Apps -> Specs \union {NoSpec}] /\ s.off \subseteq Apps \X Tools
    /\ MaxSlots \in Nat /\ MaxTasks \in Nat
    /\ MaxReloads \in Nat /\ MaxMarks \in Nat /\ MaxChanges \in Nat

Slots == 1..MaxSlots
NoSlot == 0
Tasks == 1..MaxTasks
NoTask == 0

VARIABLES
    offer,       \* what each MCP app answers at the moment
    rules,       \* Inner.rules, as the pairs that are off
    plans,       \* Inner.plans, as the specs they were compiled from
    slots,       \* Inner.slots
    entry,       \* Slot.entry, with the name of the app
    supervisor,  \* Slot.supervisor
    task,        \* the tasks supervise spawned
    reload,      \* what the reload under way is doing
    marker,      \* what the request that found an app down is doing
    watcher,     \* the streams of list changes
    count,       \* reloads, marks and changes so far
    (* history, read by no action *)
    orphaned     \* slots nobody checks any more after a late abort or a late write

vars == <<offer, rules, plans, slots, entry, supervisor, task, reload, marker, watcher, count, orphaned>>

-----------------------------------------------------------------------------
(* Entries.                                                                *)

Commands(spec) == spec # NoSpec /\ spec.kind = "commands"
Direct(spec) == spec # NoSpec /\ spec.kind # "commands"
Refreshed(spec) == spec.kind = "http"

NoApp == "none"

NoEntry == [app |-> NoApp, spec |-> NoSpec, state |-> "gone", tools |-> {}, allowed |-> {}]

NewEntry(a, spec) == [app |-> a, spec |-> spec, state |-> "starting", tools |-> {}, allowed |-> {}]

\* An app that is down keeps the tools it had.
WaitingEntry(e) == [e EXCEPT !.state = "waiting"]

AllowedNames(tools, off, a) == {t \in tools \ Invalid : <<a, t>> \notin off}

\* checked
StateFor(e, allowed) ==
    IF allowed \intersect RunsCode = {} \/ e.spec.allowDangerous THEN "live" ELSE "refused"

CheckedEntry(e, tools, off) ==
    LET allowed == AllowedNames(tools, off, e.app)
    IN  [e EXCEPT !.tools = tools \ Invalid, !.allowed = allowed, !.state = StateFor(e, allowed)]

\* The apps that answer for themselves: a command app knows its tools.
McpApps == {a \in Apps : \E setting \in Settings : Direct(setting.specs[a])}

Mapped(a) == slots[a] # NoSlot
EntryOf(a) == entry[slots[a]]

-----------------------------------------------------------------------------
(* The list of the link every command app is on, as its clients see it:    *)
(* projected_inventory of LinkPlan::Commands.                              *)

LinkInventory(plan) ==
    {at \in Apps \X Tools :
        /\ Commands(plan[at[1]])
        /\ Mapped(at[1])
        /\ Commands(EntryOf(at[1]).spec)
        /\ EntryOf(at[1]).state = "live"
        /\ at[2] \in EntryOf(at[1]).allowed}

NoStream == [step |-> "none", plan |-> [a \in Apps |-> NoSpec],
             known |-> {}, unseen |-> FALSE]

\* announce wakes the streams that have subscribed. One that is about to misses it, and
\* is not followed any further: it hears of that change only with the next.
Announce == watcher' = [w \in Watchers |->
    CASE watcher[w].step = "computed" -> [NoStream EXCEPT !.step = "missed"]
      [] watcher[w].step = "listening" -> [watcher[w] EXCEPT !.unseen = TRUE]
      [] OTHER -> watcher[w]]

-----------------------------------------------------------------------------
(* Tasks.                                                                  *)

NoWork == [step |-> "none", slot |-> NoSlot, answer |-> Down, off |-> {}, aborted |-> FALSE]

\* A task that can be spawned; somebody may still hold the handle of one that ended.
Idle(t) ==
    /\ task[t].step = "none"
    /\ t \notin {reload.spawned, marker.spawned}
    /\ \A s \in Slots : supervisor[s] # t

\* Identities say nothing: the first that is free is as good as another.
FirstIdle(t) == Idle(t) /\ \A u \in Tasks : Idle(u) => t <= u

\* A spawned task that has not run yet.
Spawned(s) == [NoWork EXCEPT !.step = "sleeping", !.slot = s]

\* Somebody goes on checking the app of s.
Supervised(s) == \E t \in Tasks : task[t].slot = s /\ task[t].step # "none" /\ ~task[t].aborted

\* JoinHandle::abort: a task ends at the await it is at. One that is just being polled
\* goes on to its next await: past the lock if it has it, or gets it at once.
Abort(work) ==
    IF work.step \in {"answered", "locked", "wrote"} THEN [work EXCEPT !.aborted = TRUE] ELSE NoWork

\* A task holds its slot from the upgrade to the end of the check.
Holding == {"listing", "answered", "locked", "wrote"}

Held(s) ==
    \/ \E a \in Apps : slots[a] = s
    \/ \E t \in Tasks : task[t].slot = s /\ task[t].step \in Holding
    \/ reload.slot = s
    \/ marker.slot = s

NoReload == [step |-> "idle", want |-> CHOOSE s \in Settings : TRUE, app |-> NoApp,
             slot |-> NoSlot, then |-> "none", spawned |-> NoTask]

NoMarker == [step |-> "idle", app |-> NoApp, slot |-> NoSlot, spawned |-> NoTask]

\* rules_lock
LockIgnored == TRUE                                 \* mutated form
RulesLockFree ==
    /\ \A t \in Tasks : task[t].step \notin {"locked", "wrote"}
    /\ reload.step # "recheck"

Init ==
    /\ offer \in [McpApps -> Offers \union {Down}]
    /\ rules = {}
    /\ plans = [a \in Apps |-> NoSpec]
    /\ slots = [a \in Apps |-> NoSlot]
    /\ entry = [s \in Slots |-> NoEntry]
    /\ supervisor = [s \in Slots |-> NoTask]
    /\ task = [t \in Tasks |-> NoWork]
    /\ reload = NoReload
    /\ marker = NoMarker
    /\ watcher = [w \in Watchers |-> NoStream]
    /\ count = [reloads |-> 0, marks |-> 0, changes |-> 0]
    /\ orphaned = {}

\* An MCP app starts, stops or changes its tools.
Change(a, answer) ==
    /\ count.changes < MaxChanges
    /\ answer # offer[a]
    /\ offer' = [offer EXCEPT ![a] = answer]
    /\ count' = [count EXCEPT !.changes = @ + 1]
    /\ UNCHANGED <<rules, plans, slots, entry, supervisor, task, reload, marker, watcher, orphaned>>

-----------------------------------------------------------------------------
(* The supervisor of a slot: supervise, check.                             *)

Begin(t) ==
    /\ task[t].step = "sleeping"
    /\ task' = [task EXCEPT ![t] =
           IF Held(@.slot) THEN [NoWork EXCEPT !.step = "listing", !.slot = task[t].slot] ELSE NoWork]
    /\ UNCHANGED <<offer, rules, plans, slots, entry, supervisor, reload, marker, watcher, count, orphaned>>

\* source.list_tools; a command app knows its own tools.
Answer(t) ==
    /\ task[t].step = "listing"
    /\ LET e == entry[task[t].slot]
       IN  task' = [task EXCEPT ![t].step = "answered",
                                ![t].answer = IF Commands(e.spec) THEN e.spec.contributes
                                              ELSE offer[e.app]]
    /\ UNCHANGED <<offer, rules, plans, slots, entry, supervisor, reload, marker, watcher, count, orphaned>>

\* An aborted task that would have to wait for the lock ends instead.
TakeRulesLock(t) ==
    /\ task[t].step = "answered"
    /\ RulesLockFree \/ task[t].aborted
    /\ task' = [task EXCEPT ![t] =
           IF RulesLockFree THEN [@ EXCEPT !.step = "locked", !.off = rules] ELSE NoWork]
    /\ UNCHANGED <<offer, rules, plans, slots, entry, supervisor, reload, marker, watcher, count, orphaned>>

WriteEntry(t) ==
    /\ task[t].step = "locked"
    /\ LET s == task[t].slot
           e == entry[s]
       IN  /\ entry' = [entry EXCEPT ![s] =
                  IF task[t].answer = Down THEN WaitingEntry(e)
                  ELSE CheckedEntry(e, task[t].answer, task[t].off)]
           /\ orphaned' = IF task[t].aborted /\ task[t].answer = Down /\ ~Supervised(s)
                          THEN orphaned \union {s} ELSE orphaned
    /\ task' = [task EXCEPT ![t].step = "wrote"]
    /\ UNCHANGED <<offer, rules, plans, slots, supervisor, reload, marker, watcher, count>>

AlwaysSettled(s) == TRUE                            \* mutated form
Settled(s) == entry[s].state # "waiting"

\* A settled app that is not refreshed needs its supervisor no more.
AfterCheck(t) ==
    /\ task[t].step = "wrote"
    /\ LET s == task[t].slot
       IN  task' = [task EXCEPT ![t] =
               IF @.aborted \/ (Settled(s) /\ ~Refreshed(entry[s].spec)) THEN NoWork
               ELSE [NoWork EXCEPT !.step = "sleeping", !.slot = s]]

EndQuietly(t) ==                                    \* mutated form
    /\ AfterCheck(t)
    /\ UNCHANGED <<offer, rules, plans, slots, entry, supervisor, reload, marker, watcher, count, orphaned>>
EndCheck(t) ==
    /\ AfterCheck(t)
    /\ Announce
    /\ UNCHANGED <<offer, rules, plans, slots, entry, supervisor, reload, marker, count, orphaned>>

\* The second half of supervise: the new task replaces the one stored before it, which
\* may be a younger one.
Store(s, t) ==
    /\ supervisor' = [supervisor EXCEPT ![s] = t]
    /\ orphaned' =
          IF task[t].step = "none" /\ \E u \in Tasks : u = supervisor[s] /\ task[u].step # "none"
          THEN orphaned \union {s} ELSE orphaned
    /\ task' = [u \in Tasks |-> IF u = supervisor[s] THEN Abort(task[u]) ELSE task[u]]

-----------------------------------------------------------------------------
(* mark_down, for a request whose upstream failed.                         *)

MarkDown(a) ==
    /\ marker.step = "idle"
    /\ count.marks < MaxMarks
    /\ Mapped(a)
    /\ EntryOf(a).state = "live"
    /\ entry' = [entry EXCEPT ![slots[a]] = WaitingEntry(@)]
    /\ marker' = [NoMarker EXCEPT !.step = "announce", !.app = a, !.slot = slots[a]]
    /\ count' = [count EXCEPT !.marks = @ + 1]
    /\ UNCHANGED <<offer, rules, plans, slots, supervisor, task, reload, watcher, orphaned>>

\* announce; then supervise looks the slot up by name again.
SpawnForMark(t) ==
    /\ marker.step = "announce"
    /\ FirstIdle(t)
    /\ Announce
    /\ LET s == slots[marker.app]
       IN  IF s = NoSlot
           THEN marker' = NoMarker /\ UNCHANGED <<task, orphaned>>
           ELSE /\ marker' = [marker EXCEPT !.step = "store", !.slot = s, !.spawned = t]
                /\ task' = [task EXCEPT ![t] = Spawned(s)]
                /\ orphaned' = orphaned \ {s}
    /\ UNCHANGED <<offer, rules, plans, slots, entry, supervisor, reload, count>>

NotSupervised ==                                    \* mutated form
    /\ marker.step = "store"
    /\ marker' = NoMarker
    /\ task' = [task EXCEPT ![marker.spawned] = NoWork]
    /\ UNCHANGED <<offer, rules, plans, slots, entry, supervisor, reload, watcher, count, orphaned>>
StoreForMark ==
    /\ marker.step = "store"
    /\ Store(marker.slot, marker.spawned)
    /\ marker' = NoMarker
    /\ UNCHANGED <<offer, rules, plans, slots, entry, reload, watcher, count>>

-----------------------------------------------------------------------------
(* A reload: set_rules, then sync, which removes, adds and writes plans.   *)

SetRules(setting) ==
    /\ reload.step = "idle"
    /\ count.reloads < MaxReloads
    /\ RulesLockFree
    /\ rules' = setting.off
    /\ reload' = [NoReload EXCEPT !.step = "recheck", !.want = setting]
    /\ count' = [count EXCEPT !.reloads = @ + 1]
    /\ UNCHANGED <<offer, plans, slots, entry, supervisor, task, marker, watcher, orphaned>>

\* Only the apps whose tools are known are checked again.
Recheck ==
    /\ reload.step = "recheck"
    /\ entry' = [s \in Slots |->
           IF entry[s].state \in {"live", "refused"} /\ \E a \in Apps : slots[a] = s
           THEN CheckedEntry(entry[s], entry[s].tools, rules) ELSE entry[s]]
    /\ Announce
    /\ reload' = [reload EXCEPT !.step = "sync"]
    /\ UNCHANGED <<offer, rules, plans, slots, supervisor, task, marker, count, orphaned>>

Unwanted == {a \in Apps : Mapped(a) /\ reload.want.specs[a] = NoSpec}

Differing == {a \in Apps : /\ reload.want.specs[a] # NoSpec
                           /\ Mapped(a) => EntryOf(a).spec # reload.want.specs[a]}

\* remove, also at the start of add: the slot leaves the map first.
Unmap(a) ==
    /\ reload.step = "sync"
    /\ a \in Unwanted \/ (Unwanted = {} /\ a \in Differing /\ Mapped(a))
    /\ slots' = [slots EXCEPT ![a] = NoSlot]
    /\ reload' = [reload EXCEPT !.step = "abort", !.app = a, !.slot = slots[a],
                                !.then = IF a \in Unwanted THEN "sync" ELSE "add"]
    /\ UNCHANGED <<offer, rules, plans, entry, supervisor, task, marker, watcher, count, orphaned>>

AbortSupervisor ==
    /\ reload.step = "abort"
    /\ supervisor' = [supervisor EXCEPT ![reload.slot] = NoTask]
    /\ task' = [t \in Tasks |-> IF t = supervisor[reload.slot] THEN Abort(task[t]) ELSE task[t]]
    /\ reload' = [reload EXCEPT !.step = "shutdown"]
    /\ UNCHANGED <<offer, rules, plans, slots, entry, marker, watcher, count, orphaned>>

\* The source has shut down; then the removal is announced.
Shutdown ==
    /\ reload.step = "shutdown"
    /\ Announce
    /\ reload' = [reload EXCEPT !.step = reload.then, !.slot = NoSlot]
    /\ UNCHANGED <<offer, rules, plans, slots, entry, supervisor, task, marker, count, orphaned>>

Insert(a, s) ==
    /\ \/ reload.step = "sync" /\ Unwanted = {} /\ a \in Differing /\ ~Mapped(a)
       \/ reload.step = "add" /\ reload.app = a
    /\ ~Held(s) /\ \A r \in Slots : ~Held(r) => s <= r
    /\ slots' = [slots EXCEPT ![a] = s]
    /\ entry' = [entry EXCEPT ![s] = NewEntry(a, reload.want.specs[a])]
    /\ supervisor' = [supervisor EXCEPT ![s] = NoTask]
    /\ orphaned' = orphaned \ {s}
    /\ reload' = [reload EXCEPT !.step = "supervise", !.app = a]
    /\ UNCHANGED <<offer, rules, plans, task, marker, watcher, count>>

SpawnForAdd(t) ==
    /\ reload.step = "supervise"
    /\ FirstIdle(t)
    /\ task' = [task EXCEPT ![t] = Spawned(slots[reload.app])]
    /\ reload' = [reload EXCEPT !.step = "store", !.spawned = t, !.slot = slots[reload.app]]
    /\ UNCHANGED <<offer, rules, plans, slots, entry, supervisor, marker, watcher, count, orphaned>>

StoreForAdd ==
    /\ reload.step = "store"
    /\ Store(reload.slot, reload.spawned)
    /\ reload' = [reload EXCEPT !.step = "sync", !.slot = NoSlot, !.spawned = NoTask]
    /\ UNCHANGED <<offer, rules, plans, slots, entry, marker, watcher, count>>

WritePlans ==
    /\ reload.step = "sync" /\ Unwanted = {} /\ Differing = {}
    /\ plans' = reload.want.specs
    /\ Announce
    /\ reload' = NoReload
    /\ UNCHANGED <<offer, rules, slots, entry, supervisor, task, marker, count, orphaned>>

-----------------------------------------------------------------------------
(* A client that listens for changes of a command link: link_notices, with *)
(* the plan its request found.                                             *)

ListenToLink(w) ==
    /\ watcher[w].step = "none"
    /\ \E a \in Apps : Commands(plans[a])
    /\ watcher' = [watcher EXCEPT ![w] =
           [NoStream EXCEPT !.step = "computed", !.plan = plans, !.known = LinkInventory(plans)]]
    /\ UNCHANGED <<offer, rules, plans, slots, entry, supervisor, task, reload, marker, count, orphaned>>

Subscribe(w) ==
    /\ watcher[w].step = "computed"
    /\ watcher' = [watcher EXCEPT ![w].step = "listening"]
    /\ UNCHANGED <<offer, rules, plans, slots, entry, supervisor, task, reload, marker, count, orphaned>>

\* The list is computed again after the change was marked as seen.
Tell(w) ==
    /\ watcher[w].step = "listening" /\ watcher[w].unseen
    /\ watcher' = [watcher EXCEPT ![w].unseen = FALSE,
                                  ![w].known = LinkInventory(watcher[w].plan)]
    /\ UNCHANGED <<offer, rules, plans, slots, entry, supervisor, task, reload, marker, count, orphaned>>

Leave(w) ==
    /\ watcher[w].step # "none"
    /\ watcher' = [watcher EXCEPT ![w] = NoStream]
    /\ UNCHANGED <<offer, rules, plans, slots, entry, supervisor, task, reload, marker, count, orphaned>>

-----------------------------------------------------------------------------
Check(t) == Begin(t) \/ Answer(t) \/ TakeRulesLock(t) \/ WriteEntry(t) \/ EndCheck(t)

Sync ==
    \/ Recheck \/ AbortSupervisor \/ Shutdown \/ StoreForAdd \/ WritePlans
    \/ \E a \in Apps : Unmap(a) \/ \E s \in Slots : Insert(a, s)
    \/ \E t \in Tasks : SpawnForAdd(t)

Mark == StoreForMark \/ \E t \in Tasks : SpawnForMark(t)

Listen(w) == Subscribe(w) \/ Tell(w)

Next ==
    \/ \E a \in McpApps, answer \in Offers \union {Down} : Change(a, answer)
    \/ \E a \in McpApps : MarkDown(a)
    \/ \E setting \in Settings : SetRules(setting)
    \/ \E t \in Tasks : Check(t)
    \/ Sync
    \/ Mark
    \/ \E w \in Watchers :
          ListenToLink(w) \/ Listen(w) \/ Leave(w)

Spec == Init /\ [][Next]_vars

\* Tasks are polled, a reload runs to its end, a request ends its handler.
Fairness ==
    /\ \A t \in Tasks : WF_vars(Check(t))
    /\ WF_vars(Sync)
    /\ WF_vars(Mark)

FairSpec == Spec /\ Fairness

-----------------------------------------------------------------------------
(* Properties.                                                             *)

\* Every variable keeps its type; an app that is gone has no slot, and two apps
\* never share one.
TypeOK ==
    /\ offer \in [McpApps -> Offers \union {Down}]
    /\ rules \subseteq Apps \X Tools
    /\ plans \in [Apps -> Specs \union {NoSpec}]
    /\ slots \in [Apps -> Slots \union {NoSlot}]
    /\ \A a, b \in Apps : Mapped(a) /\ slots[a] = slots[b] => a = b
    /\ \A a \in Apps : Mapped(a) => EntryOf(a).app = a /\ EntryOf(a).spec \in Specs
    /\ \A s \in Slots : /\ entry[s].state \in {"gone", "starting", "waiting", "live", "refused"}
                        /\ entry[s].allowed \subseteq entry[s].tools
                        /\ entry[s].tools \intersect Invalid = {}
    /\ supervisor \in [Slots -> Tasks \union {NoTask}]
    /\ \A t \in Tasks : task[t].slot \in Slots \union {NoSlot}
    /\ \A w \in Watchers : watcher[w].step \in {"none", "computed", "missed", "listening"}

\* While no check and no reload is inside rules_lock (registry.rs:216, 369), every
\* app whose tools are known shares those the rules in force leave on, whatever
\* check raced with set_rules; and it is refused exactly when one of these runs
\* commands or code and the app was not trusted with that.
LiveFollowsRules ==
    RulesLockFree =>
        \A a \in Apps : Mapped(a) /\ EntryOf(a).state \in {"live", "refused"} =>
            LET e == EntryOf(a) IN
            /\ e.allowed = AllowedNames(e.tools, rules, a)
            /\ (e.state = "refused") <=>
                   ~e.spec.allowDangerous /\ \E t \in e.tools \intersect RunsCode : <<a, t>> \notin rules

\* An announcement still to come.
Owed ==
    \/ reload.step # "idle"
    \/ marker.step = "announce"
    \/ \E t \in Tasks : task[t].step = "wrote"

\* A client that listens knows the list of now (link_notices, registry.rs:187): once
\* everybody who changed an entry or the plans has announced it and the stream has
\* nothing left to look at, the list it compared last is the list its plan projects
\* to. A stream that missed a change between its first list and its subscription
\* (registry.rs:197) is left out.
WatchersAreTold ==
    \A w \in Watchers :
        watcher[w].step = "listening" /\ ~watcher[w].unseen /\ ~Owed
        => watcher[w].known = LinkInventory(watcher[w].plan)

\* What is to become of every app: it is served, with the tools it announces if its
\* list is read again and again.
Served(a) ==
    Mapped(a) /\ (Commands(EntryOf(a).spec) \/ offer[a] # Down) =>
        /\ EntryOf(a).state \in {"live", "refused"}
        /\ Refreshed(EntryOf(a).spec) => EntryOf(a).tools = offer[a] \ Invalid

\* An app that answers is found in the end (supervise, registry.rs:230; mark_down,
\* registry.rs:333): however many requests found it down, supervisors were replaced
\* and checks aborted, somebody is left who tries again. Two races are excepted, in
\* which nobody is (orphaned). supervise spawns its task before it stores the handle
\* (registry.rs:235, 252): a task that ends in between, having found the app up, when
\* stored aborts the one that another call has started since, for a request that found
\* the app down. And a check that is aborted in the middle of a poll may still write
\* that the app is down (registry.rs:216) after the one that replaced it has found the
\* app up and ended.
HealthyAppsAreServed ==
    \A a \in Apps : <>[](Served(a) \/ (Mapped(a) /\ slots[a] \in orphaned))
=============================================================================
