--------------------------- MODULE RegistryProofs ---------------------------
(***************************************************************************)
(* Proofs about Registry, for any apps, tools and settings and any number  *)
(* of slots, tasks and streams. One inductive invariant, IInv.             *)
(***************************************************************************)
EXTENDS Registry, TLAPS

NoSetting == CHOOSE s \in Settings : TRUE

EntryState ==
    [app : Apps \union {NoApp}, spec : Specs \union {NoSpec},
     state : {"gone", "starting", "waiting", "live", "refused"},
     tools : SUBSET Tools, allowed : SUBSET Tools]

TaskState ==
    [step : {"none", "sleeping", "listing", "answered", "locked", "wrote"},
     slot : Slots \union {NoSlot}, answer : (SUBSET Tools) \union {Down},
     off : SUBSET (Apps \X Tools), aborted : BOOLEAN]

ReloadState ==
    [step : {"idle", "recheck", "sync", "abort", "shutdown", "add", "supervise", "store"},
     want : Settings \union {NoSetting}, app : Apps \union {NoApp}, slot : Slots \union {NoSlot},
     then : {"none", "sync", "add"}, spawned : Tasks \union {NoTask}]

MarkerState ==
    [step : {"idle", "announce", "store"}, app : Apps \union {NoApp},
     slot : Slots \union {NoSlot}, spawned : Tasks \union {NoTask}]

StreamState ==
    [step : {"none", "computed", "missed", "listening"}, plan : [Apps -> Specs \union {NoSpec}],
     known : SUBSET (Apps \X Tools), unseen : BOOLEAN]

TypeInv ==
    /\ offer \in [McpApps -> Offers \union {Down}]
    /\ rules \in SUBSET (Apps \X Tools)
    /\ plans \in [Apps -> Specs \union {NoSpec}]
    /\ slots \in [Apps -> Slots \union {NoSlot}]
    /\ entry \in [Slots -> EntryState]
    /\ supervisor \in [Slots -> Tasks \union {NoTask}]
    /\ task \in [Tasks -> TaskState]
    /\ reload \in ReloadState
    /\ marker \in MarkerState
    /\ watcher \in [Watchers -> StreamState]

\* Each app has a slot of its own, and an entry that a slot once got is of an
\* app of some setting.
SlotInv ==
    /\ \A a, b \in Apps : Mapped(a) /\ slots[a] = slots[b] => a = b
    /\ \A a \in Apps : Mapped(a) => EntryOf(a).app = a /\ EntryOf(a).spec \in Specs
    /\ \A s \in Slots :
          /\ entry[s].spec \in Specs =>
                entry[s].app \in Apps /\ (~Commands(entry[s].spec) => entry[s].app \in McpApps)
          /\ entry[s].allowed \subseteq entry[s].tools
          /\ entry[s].tools \intersect Invalid = {}

\* What tasks, the reload and the marker are about is there.
WorkInv ==
    /\ \A t \in Tasks : task[t].step # "none" =>
          task[t].slot \in Slots /\ entry[task[t].slot].spec \in Specs
    /\ marker.step # "idle" => marker.app \in Apps
    /\ reload.step # "idle" => reload.want \in Settings
    /\ reload.step \in {"abort", "shutdown"} => reload.then \in {"sync", "add"}
    /\ reload.step = "add" \/ (reload.step \in {"abort", "shutdown"} /\ reload.then = "add") =>
          reload.app \in Apps /\ reload.want.specs[reload.app] # NoSpec
    /\ reload.step \in {"supervise", "store"} => reload.app \in Apps /\ Mapped(reload.app)

\* One task or the reload is inside rules_lock, and a task that is there has
\* the rules in force.
InLock(t) == task[t].step \in {"locked", "wrote"}
LockInv ==
    /\ \A t, u \in Tasks : InLock(t) /\ InLock(u) => t = u
    /\ \A t \in Tasks : InLock(t) => reload.step # "recheck"
    /\ \A t \in Tasks : task[t].step = "locked" => task[t].off = rules

\* But for the reload's own moment between the new rules and the new entries,
\* every entry that is served follows the rules.
Follows(e, off) ==
    e.state \in {"live", "refused"} =>
        /\ e.allowed = AllowedNames(e.tools, off, e.app)
        /\ (e.state = "refused") <=>
               ~e.spec.allowDangerous /\ \E t \in e.tools \intersect RunsCode : <<e.app, t>> \notin off

RulesInv ==
    reload.step # "recheck" => \A a \in Apps : Mapped(a) => Follows(EntryOf(a), rules)

\* WatchersAreTold, and the same of a stream that is about to subscribe: one
\* that misses an announcement then is in another step.
ToldInv ==
    \A w \in Watchers :
        watcher[w].step \in {"computed", "listening"} /\ ~watcher[w].unseen /\ ~Owed
        => watcher[w].known = LinkInventory(watcher[w].plan)

IInv == TypeInv /\ SlotInv /\ WorkInv /\ LockInv /\ RulesInv /\ ToldInv

-----------------------------------------------------------------------------
(* What steps have in common. *)

LEMMA NoSlotIsNone == NoSlot \notin Slots
BY RegistryAssumption DEF Slots, NoSlot

\* Entries and work that never were.
LEMMA Nothings ==
    /\ NoEntry \in EntryState /\ NoEntry.spec = NoSpec /\ NoEntry.tools = {} /\ NoEntry.allowed = {}
    /\ NoWork \in TaskState /\ NoWork.step = "none"
    /\ NoReload \in ReloadState /\ NoReload.step = "idle"
    /\ NoMarker \in MarkerState /\ NoMarker.step = "idle"
    /\ NoStream \in StreamState /\ NoStream.step = "none"
<1>1. NoEntry \in EntryState /\ NoEntry.spec = NoSpec /\ NoEntry.tools = {} /\ NoEntry.allowed = {}
  BY DEF NoEntry, EntryState
<1>2. NoWork \in TaskState /\ NoWork.step = "none"
  BY DEF NoWork, TaskState
<1>3. NoReload \in ReloadState /\ NoReload.step = "idle"
  BY DEF NoReload, ReloadState, NoSetting
<1>4. NoMarker \in MarkerState /\ NoMarker.step = "idle"
  BY DEF NoMarker, MarkerState
<1>5. NoStream \in StreamState /\ NoStream.step = "none"
  BY DEF NoStream, StreamState
<1>6. QED BY <1>1, <1>2, <1>3, <1>4, <1>5

\* What a check makes of an entry keeps its app and follows the rules.
LEMMA ChecksFollow ==
  ASSUME NEW e \in EntryState, NEW tools \in SUBSET Tools, NEW off \in SUBSET (Apps \X Tools)
  PROVE  /\ CheckedEntry(e, tools, off) \in EntryState
         /\ CheckedEntry(e, tools, off).app = e.app
         /\ CheckedEntry(e, tools, off).spec = e.spec
         /\ CheckedEntry(e, tools, off).allowed \subseteq CheckedEntry(e, tools, off).tools
         /\ CheckedEntry(e, tools, off).tools \intersect Invalid = {}
         /\ Follows(CheckedEntry(e, tools, off), off)
<1> DEFINE allowed == AllowedNames(tools, off, e.app)
           state == StateFor(e, allowed)
           c == CheckedEntry(e, tools, off)
<1>1. allowed \in SUBSET Tools /\ tools \ Invalid \in SUBSET Tools /\ state \in {"live", "refused"}
  BY DEF AllowedNames, StateFor
<1>2. c = [e EXCEPT !.tools = tools \ Invalid, !.allowed = allowed, !.state = state]
  BY DEF CheckedEntry
<1>3. allowed = AllowedNames(tools \ Invalid, off, e.app) /\ allowed \subseteq tools \ Invalid
  BY DEF AllowedNames
<1>4. (state = "refused") <=>
         ~e.spec.allowDangerous /\ \E t \in (tools \ Invalid) \intersect RunsCode : <<e.app, t>> \notin off
  BY DEF AllowedNames, StateFor
<1> HIDE DEF allowed, state, c
<1>5. /\ c \in EntryState /\ c.app = e.app /\ c.spec = e.spec
      /\ c.tools = tools \ Invalid /\ c.allowed = allowed /\ c.state = state
  BY <1>1, <1>2 DEF EntryState
<1>6. Follows(c, off)
  BY <1>3, <1>4, <1>5 DEF Follows
<1>7. QED BY <1>3, <1>5, <1>6 DEF c

\* An entry that starts or waits has nothing to follow.
LEMMA WaitsFollow ==
  ASSUME NEW e \in EntryState
  PROVE  /\ WaitingEntry(e) \in EntryState /\ WaitingEntry(e).state = "waiting"
         /\ WaitingEntry(e).app = e.app /\ WaitingEntry(e).spec = e.spec
         /\ WaitingEntry(e).tools = e.tools /\ WaitingEntry(e).allowed = e.allowed
BY DEF WaitingEntry, EntryState

\* A task that is aborted inside the lock stays there.
LEMMA AbortKeeps ==
  ASSUME NEW w \in TaskState
  PROVE  /\ Abort(w) \in TaskState
         /\ Abort(w).step # "none" => Abort(w).slot = w.slot /\ Abort(w).step = w.step
         /\ w.step \in {"locked", "wrote"} => Abort(w).step = w.step /\ Abort(w).off = w.off
<1> DEFINE kept == [w EXCEPT !.aborted = TRUE]
<1>1. kept \in TaskState /\ kept.step = w.step /\ kept.slot = w.slot /\ kept.off = w.off
  BY DEF TaskState
<1>2. Abort(w) \in {kept, NoWork} /\ (w.step \in {"locked", "wrote"} => Abort(w) = kept)
  BY DEF Abort
<1> HIDE DEF kept
<1>3. QED BY <1>1, <1>2, Nothings

\* The tasks change, but nobody enters or leaves the lock.
TasksKeep ==
    /\ task' \in [Tasks -> TaskState]
    /\ \A t \in Tasks :
          /\ task'[t].step \in {"locked", "wrote"} \/ task[t].step \in {"locked", "wrote"} =>
                task'[t].step = task[t].step /\ task'[t].off = task[t].off
          /\ task'[t].step # "none" =>
                task'[t].slot \in Slots /\ entry[task'[t].slot].spec \in Specs

LEMMA TaskBecomes ==
  ASSUME TypeInv, NEW t \in Tasks, NEW w \in TaskState, task' = [task EXCEPT ![t] = w]
  PROVE  /\ task' \in [Tasks -> TaskState] /\ task'[t] = w
         /\ \A u \in Tasks \ {t} : task'[u] = task[u]
BY DEF TypeInv

\* An idle task is spawned for a slot that was ever used.
LEMMA SpawnKeeps ==
  ASSUME IInv, NEW t \in Tasks, FirstIdle(t), NEW s \in Slots, entry[s].spec \in Specs,
         task' = [task EXCEPT ![t] = Spawned(s)]
  PROVE  TasksKeep
<1>1. Spawned(s) \in TaskState /\ Spawned(s).step = "sleeping" /\ Spawned(s).slot = s
  BY Nothings DEF Spawned, TaskState
<1>2. TypeInv /\ WorkInv /\ task[t].step = "none"
  BY DEF IInv, FirstIdle, Idle
<1>3. QED BY <1>1, <1>2, TaskBecomes DEF TasksKeep, WorkInv

LEMMA StoreKeeps ==
  ASSUME IInv, NEW x,
         task' = [u \in Tasks |-> IF u = x THEN Abort(task[u]) ELSE task[u]]
  PROVE  TasksKeep
<1>1. TypeInv /\ WorkInv
  BY DEF IInv
<1>2. \A u \in Tasks : task[u] \in TaskState
  BY <1>1 DEF TypeInv
<1>3. \A u \in Tasks : task'[u] = IF u = x THEN Abort(task[u]) ELSE task[u]
  OBVIOUS
<1>4. task' \in [Tasks -> TaskState]
  BY <1>2, AbortKeeps
<1>5. QED
  <2>1. ASSUME NEW t \in Tasks
        PROVE  /\ task'[t].step \in {"locked", "wrote"} \/ task[t].step \in {"locked", "wrote"} =>
                     task'[t].step = task[t].step /\ task'[t].off = task[t].off
               /\ task'[t].step # "none" => task'[t].step = task[t].step /\ task'[t].slot = task[t].slot
    BY <1>2, <1>3, AbortKeeps
  <2>2. QED BY <1>1, <1>4, <2>1 DEF TasksKeep, WorkInv

\* After an announcement every stream that is still followed has something to look at.
LEMMA AnnounceTells ==
  ASSUME TypeInv, Announce
  PROVE  /\ watcher' \in [Watchers -> StreamState]
         /\ ToldInv'
<1>1. ASSUME NEW w \in Watchers
      PROVE  /\ watcher'[w] \in StreamState
             /\ watcher'[w].step \in {"computed", "listening"} => watcher'[w].unseen
  <2> DEFINE missed == [NoStream EXCEPT !.step = "missed"]
             told == [watcher[w] EXCEPT !.unseen = TRUE]
  <2>1. watcher[w] \in StreamState
    BY DEF TypeInv
  <2>2. missed \in StreamState /\ missed.step = "missed"
    BY Nothings DEF StreamState
  <2>3. told \in StreamState /\ told.unseen
    BY <2>1 DEF StreamState
  <2> HIDE DEF missed, told
  <2>4. watcher'[w] = CASE watcher[w].step = "computed" -> missed
                        [] watcher[w].step = "listening" -> told
                        [] OTHER -> watcher[w]
    BY DEF Announce, missed, told
  <2>5. QED BY <2>1, <2>2, <2>3, <2>4
<1>2. watcher' = [w \in Watchers |-> watcher'[w]]
  BY DEF Announce
<1>3. QED BY <1>1, <1>2 DEF ToldInv

\* An announcement that is owed excuses everybody.
LEMMA OwedTells == Owed' => ToldInv'
BY DEF ToldInv

LEMMA ToldKeep ==
  ASSUME ToldInv, UNCHANGED <<slots, entry, watcher>>, Owed => Owed'
  PROVE  ToldInv'
BY DEF ToldInv, LinkInventory, Mapped, EntryOf

\* Entries, slots and rules stay, and nobody enters or leaves the lock.
LEMMA RulesKeep ==
  ASSUME LockInv, RulesInv, TasksKeep, UNCHANGED <<rules, slots, entry>>,
         reload'.step # "recheck", reload.step # "recheck"
  PROVE  LockInv' /\ RulesInv'
BY DEF LockInv, RulesInv, TasksKeep, InLock, Mapped, EntryOf

-----------------------------------------------------------------------------
(* One lemma for each action. *)

\* What an app answers changes.
LEMMA ChangeStep ==
  ASSUME IInv, NEW a \in McpApps, NEW answer \in Offers \union {Down}, Change(a, answer)
  PROVE  IInv'
<1>0. TypeInv /\ SlotInv /\ WorkInv /\ LockInv /\ RulesInv /\ ToldInv
  BY DEF IInv
<1>a. /\ offer' = [offer EXCEPT ![a] = answer]
      /\ UNCHANGED <<rules, plans, slots, entry, supervisor, task, reload, marker, watcher>>
  BY DEF Change
<1>1. TypeInv'
  BY <1>0, <1>a DEF TypeInv
<1>2. SlotInv'
  BY <1>0, <1>a DEF SlotInv, Mapped, EntryOf
<1>3. WorkInv'
  BY <1>0, <1>a DEF WorkInv, Mapped
<1>4. LockInv'
  BY <1>0, <1>a DEF LockInv, InLock
<1>5. RulesInv'
  BY <1>0, <1>a DEF RulesInv, Mapped, EntryOf
<1>6. ToldInv'
  BY <1>0, <1>a, ToldKeep DEF Owed
<1>9. QED BY <1>1, <1>2, <1>3, <1>4, <1>5, <1>6 DEF IInv

\* A task wakes up and looks whether its slot is still there.
LEMMA BeginStep ==
  ASSUME IInv, NEW t \in Tasks, Begin(t)
  PROVE  IInv'
<1>0. TypeInv /\ SlotInv /\ WorkInv /\ LockInv /\ RulesInv /\ ToldInv
  BY DEF IInv
<1> DEFINE work == IF Held(task[t].slot) THEN [NoWork EXCEPT !.step = "listing", !.slot = task[t].slot] ELSE NoWork
<1>a. /\ UNCHANGED <<offer, rules, plans, slots, entry, supervisor, reload, marker, watcher>>
      /\ task[t].step = "sleeping" /\ task' = [task EXCEPT ![t] = work]
  BY DEF Begin
<1>b. task[t].slot \in Slots /\ entry[task[t].slot].spec \in Specs
  BY <1>0, <1>a DEF WorkInv
<1>c. /\ work \in TaskState /\ work.step \in {"none", "listing"}
      /\ work.step # "none" => work.slot = task[t].slot
  BY <1>b, Nothings DEF NoWork, TaskState
<1> HIDE DEF work
<1>d. TasksKeep
  BY <1>0, <1>a, <1>b, <1>c, TaskBecomes DEF TasksKeep, WorkInv
<1>1. TypeInv'
  BY <1>0, <1>a, <1>d DEF TypeInv, TasksKeep
<1>2. SlotInv'
  BY <1>0, <1>a DEF SlotInv, Mapped, EntryOf
<1>3. WorkInv'
  BY <1>0, <1>a, <1>d DEF WorkInv, TasksKeep, Mapped
<1>4. LockInv'
  BY <1>0, <1>a, <1>d DEF LockInv, TasksKeep, InLock
<1>5. RulesInv'
  BY <1>0, <1>a DEF RulesInv, Mapped, EntryOf
<1>6. ToldInv'
  BY <1>0, <1>a, <1>d, ToldKeep DEF Owed, TasksKeep
<1>9. QED BY <1>1, <1>2, <1>3, <1>4, <1>5, <1>6 DEF IInv

\* The app answers.
LEMMA AnswerStep ==
  ASSUME IInv, NEW t \in Tasks, Answer(t)
  PROVE  IInv'
<1>0. TypeInv /\ SlotInv /\ WorkInv /\ LockInv /\ RulesInv /\ ToldInv
  BY DEF IInv
<1> DEFINE e == entry[task[t].slot]
           answer == IF Commands(e.spec) THEN e.spec.contributes ELSE offer[e.app]
           work == [task[t] EXCEPT !.step = "answered", !.answer = answer]
<1>a. /\ UNCHANGED <<offer, rules, plans, slots, entry, supervisor, reload, marker, watcher>>
      /\ task[t].step = "listing" /\ task' = [task EXCEPT ![t].step = "answered", ![t].answer = answer]
  BY DEF Answer
<1>b. task[t] \in TaskState /\ task[t].slot \in Slots /\ e.spec \in Specs
  BY <1>0, <1>a DEF TypeInv, WorkInv
<1>c. answer \in (SUBSET Tools) \union {Down}
  <2>1. CASE Commands(e.spec)
    BY <1>b, <2>1, RegistryAssumption
  <2>2. CASE ~Commands(e.spec)
    <3>1. e.app \in McpApps
      BY <1>0, <1>b, <2>2 DEF SlotInv
    <3>2. offer[e.app] \in Offers \union {Down}
      BY <1>0, <3>1 DEF TypeInv
    <3>3. QED BY <2>2, <3>2, RegistryAssumption
  <2>3. QED BY <2>1, <2>2
<1> HIDE DEF answer
<1>d. work \in TaskState /\ work.step = "answered" /\ work.slot = task[t].slot
  BY <1>b, <1>c DEF TaskState
<1>e. task' = [task EXCEPT ![t] = work]
  BY <1>0, <1>a DEF TypeInv
<1> HIDE DEF work
<1>f. TasksKeep
  BY <1>0, <1>a, <1>b, <1>d, <1>e, TaskBecomes DEF TasksKeep, WorkInv
<1>1. TypeInv'
  BY <1>0, <1>a, <1>f DEF TypeInv, TasksKeep
<1>2. SlotInv'
  BY <1>0, <1>a DEF SlotInv, Mapped, EntryOf
<1>3. WorkInv'
  BY <1>0, <1>a, <1>f DEF WorkInv, TasksKeep, Mapped
<1>4. LockInv'
  BY <1>0, <1>a, <1>f DEF LockInv, TasksKeep, InLock
<1>5. RulesInv'
  BY <1>0, <1>a DEF RulesInv, Mapped, EntryOf
<1>6. ToldInv'
  BY <1>0, <1>a, <1>f, ToldKeep DEF Owed, TasksKeep
<1>9. QED BY <1>1, <1>2, <1>3, <1>4, <1>5, <1>6 DEF IInv

\* A check takes the lock and the rules, or ends.
LEMMA TakeRulesLockStep ==
  ASSUME IInv, NEW t \in Tasks, TakeRulesLock(t)
  PROVE  IInv'
<1>0. TypeInv /\ SlotInv /\ WorkInv /\ LockInv /\ RulesInv /\ ToldInv
  BY DEF IInv
<1> DEFINE work == IF RulesLockFree THEN [task[t] EXCEPT !.step = "locked", !.off = rules] ELSE NoWork
<1>a. /\ UNCHANGED <<offer, rules, plans, slots, entry, supervisor, reload, marker, watcher>>
      /\ task[t].step = "answered" /\ task' = [task EXCEPT ![t] = work]
  BY DEF TakeRulesLock
<1>b. task[t] \in TaskState /\ task[t].slot \in Slots /\ entry[task[t].slot].spec \in Specs
      /\ rules \in SUBSET (Apps \X Tools)
  BY <1>0, <1>a DEF TypeInv, WorkInv
<1>c. /\ work \in TaskState
      /\ \/ work.step = "none"
         \/ work.step = "locked" /\ work.off = rules /\ work.slot = task[t].slot /\ RulesLockFree
  BY <1>b, Nothings DEF TaskState
<1> HIDE DEF work
<1>d. /\ task' \in [Tasks -> TaskState] /\ task'[t] = work
      /\ \A u \in Tasks \ {t} : task'[u] = task[u]
  BY <1>0, <1>a, <1>c, TaskBecomes
<1>1. TypeInv'
  BY <1>0, <1>a, <1>d DEF TypeInv
<1>2. SlotInv'
  BY <1>0, <1>a DEF SlotInv, Mapped, EntryOf
<1>3. WorkInv'
  BY <1>0, <1>a, <1>b, <1>c, <1>d DEF WorkInv, Mapped
<1>4. LockInv'
  BY <1>0, <1>a, <1>c, <1>d DEF LockInv, InLock, RulesLockFree
<1>5. RulesInv'
  BY <1>0, <1>a DEF RulesInv, Mapped, EntryOf
<1>6. ToldInv'
  BY <1>0, <1>a, <1>c, <1>d, ToldKeep DEF Owed
<1>9. QED BY <1>1, <1>2, <1>3, <1>4, <1>5, <1>6 DEF IInv

\* Under the lock the entry is written, with the rules in force.
LEMMA WriteEntryStep ==
  ASSUME IInv, NEW t \in Tasks, WriteEntry(t)
  PROVE  IInv'
<1>0. TypeInv /\ SlotInv /\ WorkInv /\ LockInv /\ RulesInv /\ ToldInv
  BY DEF IInv
<1> DEFINE s == task[t].slot
           e == entry[s]
           new == IF task[t].answer = Down THEN WaitingEntry(e) ELSE CheckedEntry(e, task[t].answer, task[t].off)
           work == [task[t] EXCEPT !.step = "wrote"]
<1>a. /\ UNCHANGED <<offer, rules, plans, slots, supervisor, reload, marker, watcher>>
      /\ task[t].step = "locked" /\ task' = [task EXCEPT ![t].step = "wrote"]
      /\ entry' = [entry EXCEPT ![s] = new]
  BY DEF WriteEntry
<1>b. /\ task[t] \in TaskState /\ s \in Slots /\ e \in EntryState /\ e.spec \in Specs
      /\ task[t].off = rules /\ rules \in SUBSET (Apps \X Tools) /\ reload.step # "recheck"
      /\ task[t].answer \in (SUBSET Tools) \union {Down}
  BY <1>0, <1>a DEF TypeInv, WorkInv, LockInv, InLock, TaskState
<1>c. /\ new \in EntryState /\ new.app = e.app /\ new.spec = e.spec
      /\ new.allowed \subseteq new.tools /\ new.tools \intersect Invalid = {}
      /\ Follows(new, rules)
  <2>1. CASE task[t].answer = Down
    <3>1. new = WaitingEntry(e) /\ e.allowed \subseteq e.tools /\ e.tools \intersect Invalid = {}
      BY <1>0, <1>b, <2>1 DEF SlotInv
    <3> HIDE DEF new, e
    <3>2. QED BY <1>b, <3>1, WaitsFollow DEF Follows
  <2>2. CASE task[t].answer # Down
    <3>1. new = CheckedEntry(e, task[t].answer, rules) /\ task[t].answer \in SUBSET Tools
      BY <1>b, <2>2
    <3> DEFINE c == CheckedEntry(e, task[t].answer, rules)
    <3>2. e \in EntryState /\ rules \in SUBSET (Apps \X Tools)
      BY <1>b
    <3> HIDE DEF e
    <3>3. /\ c \in EntryState /\ c.app = e.app /\ c.spec = e.spec
          /\ c.allowed \subseteq c.tools /\ c.tools \intersect Invalid = {} /\ Follows(c, rules)
      BY <3>1, <3>2, ChecksFollow, Zenon
    <3> HIDE DEF new
    <3>4. QED BY <3>1, <3>3
  <2>3. QED BY <2>1, <2>2
<1>d. /\ work \in TaskState /\ work.step = "wrote" /\ work.slot = s
      /\ task' = [task EXCEPT ![t] = work]
  BY <1>0, <1>a, <1>b DEF TypeInv, TaskState
<1> HIDE DEF work, new
<1>e. /\ task' \in [Tasks -> TaskState] /\ task'[t] = work
      /\ \A u \in Tasks \ {t} : task'[u] = task[u]
  BY <1>0, <1>d, TaskBecomes
<1>f. /\ entry' \in [Slots -> EntryState] /\ entry'[s] = new
      /\ \A r \in Slots \ {s} : entry'[r] = entry[r]
  BY <1>0, <1>a, <1>b, <1>c DEF TypeInv
<1>g. \A a \in Apps : slots[a] \in Slots \union {NoSlot}
  BY <1>0 DEF TypeInv
<1>1. TypeInv'
  BY <1>0, <1>a, <1>e, <1>f DEF TypeInv
<1>2. SlotInv'
  BY <1>0, <1>a, <1>b, <1>c, <1>f, <1>g DEF SlotInv, Mapped, EntryOf
<1>3. WorkInv'
  BY <1>0, <1>a, <1>b, <1>c, <1>d, <1>e, <1>f DEF WorkInv, Mapped
<1>4. LockInv'
  BY <1>0, <1>a, <1>d, <1>e DEF LockInv, InLock
<1>5. RulesInv'
  BY <1>0, <1>a, <1>b, <1>c, <1>f, <1>g DEF RulesInv, Mapped, EntryOf
<1>6. ToldInv'
  BY <1>d, <1>e, OwedTells DEF Owed
<1>9. QED BY <1>1, <1>2, <1>3, <1>4, <1>5, <1>6 DEF IInv

\* The check leaves the lock and announces.
LEMMA EndCheckStep ==
  ASSUME IInv, NEW t \in Tasks, EndCheck(t)
  PROVE  IInv'
<1>0. TypeInv /\ SlotInv /\ WorkInv /\ LockInv /\ RulesInv /\ ToldInv
  BY DEF IInv
<1> DEFINE s == task[t].slot
           work == IF task[t].aborted \/ (Settled(s) /\ ~Refreshed(entry[s].spec)) THEN NoWork
                   ELSE [NoWork EXCEPT !.step = "sleeping", !.slot = s]
<1>a. /\ UNCHANGED <<offer, rules, plans, slots, entry, supervisor, reload, marker>>
      /\ task[t].step = "wrote" /\ task' = [task EXCEPT ![t] = work] /\ Announce
  BY DEF EndCheck, AfterCheck
<1>b. s \in Slots /\ entry[s].spec \in Specs
  BY <1>0, <1>a DEF WorkInv
<1>c. /\ work \in TaskState /\ work.step \in {"none", "sleeping"}
      /\ work.step # "none" => work.slot = s
  BY <1>b, Nothings DEF NoWork, TaskState
<1> HIDE DEF work
<1>d. /\ task' \in [Tasks -> TaskState] /\ task'[t] = work
      /\ \A u \in Tasks \ {t} : task'[u] = task[u]
  BY <1>0, <1>a, <1>c, TaskBecomes
<1>e. watcher' \in [Watchers -> StreamState] /\ ToldInv'
  BY <1>0, <1>a, AnnounceTells
<1>1. TypeInv'
  BY <1>0, <1>a, <1>d, <1>e DEF TypeInv
<1>2. SlotInv'
  BY <1>0, <1>a DEF SlotInv, Mapped, EntryOf
<1>3. WorkInv'
  BY <1>0, <1>a, <1>b, <1>c, <1>d DEF WorkInv, Mapped
<1>4. LockInv'
  BY <1>0, <1>a, <1>c, <1>d DEF LockInv, InLock
<1>5. RulesInv'
  BY <1>0, <1>a DEF RulesInv, Mapped, EntryOf
<1>6. ToldInv'
  BY <1>e
<1>9. QED BY <1>1, <1>2, <1>3, <1>4, <1>5, <1>6 DEF IInv

\* A request finds an app down.
LEMMA MarkDownStep ==
  ASSUME IInv, NEW a \in McpApps, MarkDown(a)
  PROVE  IInv'
<1>0. TypeInv /\ SlotInv /\ WorkInv /\ LockInv /\ RulesInv /\ ToldInv
  BY DEF IInv
<1> DEFINE s == slots[a]
           new == WaitingEntry(entry[s])
           mark == [NoMarker EXCEPT !.step = "announce", !.app = a, !.slot = s]
<1>a. /\ UNCHANGED <<offer, rules, plans, slots, supervisor, task, reload, watcher>>
      /\ Mapped(a) /\ entry' = [entry EXCEPT ![s] = new] /\ marker' = mark
  BY DEF MarkDown
<1>b. a \in Apps /\ s \in Slots /\ entry[s] \in EntryState
  BY <1>0, <1>a DEF McpApps, TypeInv, Mapped
<1>c. /\ new \in EntryState /\ new.app = entry[s].app /\ new.spec = entry[s].spec
      /\ new.tools = entry[s].tools /\ new.allowed = entry[s].allowed /\ Follows(new, rules)
  BY <1>b, WaitsFollow DEF Follows
<1>d. mark \in MarkerState /\ mark.step = "announce" /\ mark.app = a
  BY <1>b DEF NoMarker, MarkerState, NoTask
<1> HIDE DEF new, mark
<1>e. /\ entry' \in [Slots -> EntryState] /\ entry'[s] = new
      /\ \A r \in Slots \ {s} : entry'[r] = entry[r]
  BY <1>0, <1>a, <1>b, <1>c DEF TypeInv
<1>f. \A b \in Apps : slots[b] \in Slots \union {NoSlot}
  BY <1>0 DEF TypeInv
<1>1. TypeInv'
  BY <1>0, <1>a, <1>d, <1>e DEF TypeInv
<1>2. SlotInv'
  BY <1>0, <1>a, <1>b, <1>c, <1>e, <1>f DEF SlotInv, Mapped, EntryOf
<1>3. WorkInv'
  BY <1>0, <1>a, <1>b, <1>c, <1>d, <1>e DEF WorkInv, Mapped
<1>4. LockInv'
  BY <1>0, <1>a DEF LockInv, InLock
<1>5. RulesInv'
  BY <1>0, <1>a, <1>b, <1>c, <1>e, <1>f DEF RulesInv, Mapped, EntryOf
<1>6. ToldInv'
  BY <1>a, <1>d, OwedTells DEF Owed
<1>9. QED BY <1>1, <1>2, <1>3, <1>4, <1>5, <1>6 DEF IInv

\* It announces that, and spawns a supervisor if the app still has a slot.
LEMMA SpawnForMarkStep ==
  ASSUME IInv, NEW t \in Tasks, SpawnForMark(t)
  PROVE  IInv'
<1>0. TypeInv /\ SlotInv /\ WorkInv /\ LockInv /\ RulesInv /\ ToldInv
  BY DEF IInv
<1> DEFINE s == slots[marker.app]
<1>a. /\ UNCHANGED <<offer, rules, plans, slots, entry, supervisor, reload>>
      /\ marker.step = "announce" /\ FirstIdle(t) /\ Announce
      /\ \/ s = NoSlot /\ marker' = NoMarker /\ UNCHANGED task
         \/ /\ s # NoSlot /\ task' = [task EXCEPT ![t] = Spawned(s)]
            /\ marker' = [marker EXCEPT !.step = "store", !.slot = s, !.spawned = t]
  BY DEF SpawnForMark
<1>b. marker.app \in Apps /\ s \in Slots \union {NoSlot} /\ marker \in MarkerState
  BY <1>0, <1>a DEF WorkInv, TypeInv
<1>c. s # NoSlot => s \in Slots /\ entry[s].spec \in Specs
  BY <1>0, <1>b DEF SlotInv, Mapped, EntryOf
<1>d. TasksKeep
  <2>1. CASE s = NoSlot /\ UNCHANGED task
    BY <1>0, <2>1 DEF TasksKeep, TypeInv, WorkInv
  <2>2. CASE s # NoSlot /\ task' = [task EXCEPT ![t] = Spawned(s)]
    BY <1>a, <1>c, <2>2, SpawnKeeps
  <2>3. QED BY <1>a, <2>1, <2>2
<1>e. marker' \in MarkerState /\ (marker'.step # "idle" => marker'.app \in Apps)
  BY <1>a, <1>b, Nothings DEF MarkerState
<1>f. watcher' \in [Watchers -> StreamState] /\ ToldInv'
  BY <1>0, <1>a, AnnounceTells
<1>1. TypeInv'
  BY <1>0, <1>a, <1>d, <1>e, <1>f DEF TypeInv, TasksKeep
<1>2. SlotInv'
  BY <1>0, <1>a DEF SlotInv, Mapped, EntryOf
<1>3. WorkInv'
  BY <1>0, <1>a, <1>d, <1>e DEF WorkInv, TasksKeep, Mapped
<1>4. LockInv'
  BY <1>0, <1>a, <1>d DEF LockInv, TasksKeep, InLock
<1>5. RulesInv'
  BY <1>0, <1>a DEF RulesInv, Mapped, EntryOf
<1>6. ToldInv'
  BY <1>f
<1>9. QED BY <1>1, <1>2, <1>3, <1>4, <1>5, <1>6 DEF IInv

\* The new supervisor replaces the one before it.
LEMMA StoreForMarkStep ==
  ASSUME IInv, StoreForMark
  PROVE  IInv'
<1>0. TypeInv /\ SlotInv /\ WorkInv /\ LockInv /\ RulesInv /\ ToldInv
  BY DEF IInv
<1>a. /\ UNCHANGED <<offer, rules, plans, slots, entry, reload, watcher>>
      /\ marker.step = "store" /\ marker' = NoMarker
      /\ supervisor' = [supervisor EXCEPT ![marker.slot] = marker.spawned]
      /\ task' = [u \in Tasks |-> IF u = supervisor[marker.slot] THEN Abort(task[u]) ELSE task[u]]
  BY DEF StoreForMark, Store
<1>d. TasksKeep
  BY <1>a, StoreKeeps
<1>e. supervisor' \in [Slots -> Tasks \union {NoTask}]
  BY <1>0, <1>a DEF TypeInv, MarkerState
<1>1. TypeInv'
  BY <1>0, <1>a, <1>d, <1>e, Nothings DEF TypeInv, TasksKeep
<1>2. SlotInv'
  BY <1>0, <1>a DEF SlotInv, Mapped, EntryOf
<1>3. WorkInv'
  BY <1>0, <1>a, <1>d, Nothings DEF WorkInv, TasksKeep, Mapped
<1>4. LockInv'
  BY <1>0, <1>a, <1>d DEF LockInv, TasksKeep, InLock
<1>5. RulesInv'
  BY <1>0, <1>a DEF RulesInv, Mapped, EntryOf
<1>6. ToldInv'
  BY <1>0, <1>a, <1>d, ToldKeep DEF Owed, TasksKeep
<1>9. QED BY <1>1, <1>2, <1>3, <1>4, <1>5, <1>6 DEF IInv

\* New rules: the reload is in the lock alone until it has checked the entries again.
LEMMA SetRulesStep ==
  ASSUME IInv, NEW setting \in Settings, SetRules(setting)
  PROVE  IInv'
<1>0. TypeInv /\ SlotInv /\ WorkInv /\ LockInv /\ RulesInv /\ ToldInv
  BY DEF IInv
<1> DEFINE next == [NoReload EXCEPT !.step = "recheck", !.want = setting]
<1>a. /\ UNCHANGED <<offer, plans, slots, entry, supervisor, task, marker, watcher>>
      /\ RulesLockFree /\ rules' = setting.off /\ reload' = next
  BY DEF SetRules
<1>b. setting.off \in SUBSET (Apps \X Tools)
  BY RegistryAssumption
<1>c. next \in ReloadState /\ next.step = "recheck" /\ next.want = setting
  BY Nothings DEF NoReload, ReloadState
<1> HIDE DEF next
<1>1. TypeInv'
  BY <1>0, <1>a, <1>b, <1>c DEF TypeInv
<1>2. SlotInv'
  BY <1>0, <1>a DEF SlotInv, Mapped, EntryOf
<1>3. WorkInv'
  BY <1>0, <1>a, <1>c DEF WorkInv, Mapped
<1>4. LockInv'
  BY <1>0, <1>a DEF LockInv, InLock, RulesLockFree
<1>5. RulesInv'
  BY <1>a, <1>c DEF RulesInv
<1>6. ToldInv'
  BY <1>a, <1>c, OwedTells DEF Owed
<1>9. QED BY <1>1, <1>2, <1>3, <1>4, <1>5, <1>6 DEF IInv

\* Every entry that is served is checked against the new rules.
LEMMA RecheckStep ==
  ASSUME IInv, Recheck
  PROVE  IInv'
<1>0. TypeInv /\ SlotInv /\ WorkInv /\ LockInv /\ RulesInv /\ ToldInv
  BY DEF IInv
<1> DEFINE next == [reload EXCEPT !.step = "sync"]
           Known(s) == entry[s].state \in {"live", "refused"} /\ \E a \in Apps : slots[a] = s
<1>a. /\ UNCHANGED <<offer, rules, plans, slots, supervisor, task, marker>>
      /\ reload.step = "recheck" /\ Announce /\ reload' = next
      /\ entry' = [s \in Slots |-> IF Known(s) THEN CheckedEntry(entry[s], entry[s].tools, rules) ELSE entry[s]]
  BY DEF Recheck
<1>b. next \in ReloadState /\ next.step = "sync" /\ next.want = reload.want
  BY <1>0 DEF TypeInv, ReloadState
<1>c. rules \in SUBSET (Apps \X Tools) /\ \A s \in Slots : entry[s] \in EntryState /\ entry[s].tools \in SUBSET Tools
  BY <1>0 DEF TypeInv, EntryState
<1>d. ASSUME NEW s \in Slots
      PROVE  /\ entry'[s] \in EntryState /\ entry'[s].app = entry[s].app /\ entry'[s].spec = entry[s].spec
             /\ entry'[s].allowed \subseteq entry'[s].tools /\ entry'[s].tools \intersect Invalid = {}
             /\ Known(s) => Follows(entry'[s], rules)
             /\ ~Known(s) => entry'[s] = entry[s]
  <2>1. entry'[s] = IF Known(s) THEN CheckedEntry(entry[s], entry[s].tools, rules) ELSE entry[s]
    BY <1>a
  <2>2. entry[s].allowed \subseteq entry[s].tools /\ entry[s].tools \intersect Invalid = {}
    BY <1>0 DEF SlotInv
  <2> DEFINE c == CheckedEntry(entry[s], entry[s].tools, rules)
  <2>3. /\ c \in EntryState /\ c.app = entry[s].app /\ c.spec = entry[s].spec
        /\ c.allowed \subseteq c.tools /\ c.tools \intersect Invalid = {} /\ Follows(c, rules)
    <3> DEFINE e == entry[s]
               tools == e.tools
    <3>1. e \in EntryState /\ tools \in SUBSET Tools /\ rules \in SUBSET (Apps \X Tools)
      BY <1>c
    <3>2. c = CheckedEntry(e, tools, rules)
      OBVIOUS
    <3> HIDE DEF e, tools, c
    <3>3. /\ c \in EntryState /\ c.app = e.app /\ c.spec = e.spec
          /\ c.allowed \subseteq c.tools /\ c.tools \intersect Invalid = {} /\ Follows(c, rules)
      BY <3>1, <3>2, ChecksFollow, Zenon
    <3>4. QED BY <3>3 DEF e
  <2> HIDE DEF Known, c
  <2>4. CASE Known(s)
    <3>1. entry'[s] = c
      BY <2>1, <2>4 DEF c
    <3>2. QED BY <2>3, <2>4, <3>1
  <2>5. CASE ~Known(s)
    BY <1>c, <2>1, <2>2, <2>5
  <2>6. QED BY <2>4, <2>5
<1>e. entry' \in [Slots -> EntryState]
  BY <1>a, <1>d
<1>f. watcher' \in [Watchers -> StreamState] /\ ToldInv'
  BY <1>0, <1>a, AnnounceTells
<1>g. \A a \in Apps : slots[a] \in Slots \union {NoSlot}
  BY <1>0 DEF TypeInv
<1> HIDE DEF next
<1>1. TypeInv'
  BY <1>0, <1>a, <1>b, <1>e, <1>f DEF TypeInv
<1>2. SlotInv'
  BY <1>0, <1>a, <1>d, <1>g DEF SlotInv, Mapped, EntryOf
<1>3. WorkInv'
  BY <1>0, <1>a, <1>b, <1>d DEF WorkInv, Mapped
<1>4. LockInv'
  BY <1>0, <1>a, <1>b DEF LockInv, InLock
<1>5. RulesInv'
  <2>1. ASSUME NEW a \in Apps, Mapped(a) PROVE Follows(entry'[slots[a]], rules)
    <3>1. slots[a] \in Slots
      BY <1>g, <2>1 DEF Mapped
    <3>2. Known(slots[a]) => Follows(entry'[slots[a]], rules)
      BY <1>d, <3>1
    <3>3. ~Known(slots[a]) => Follows(entry'[slots[a]], rules)
      BY <1>d, <3>1 DEF Follows
    <3>4. QED BY <3>2, <3>3
  <2>2. QED BY <1>a, <2>1 DEF RulesInv, Mapped, EntryOf
<1>6. ToldInv'
  BY <1>f
<1>9. QED BY <1>1, <1>2, <1>3, <1>4, <1>5, <1>6 DEF IInv

\* A slot leaves the map.
LEMMA UnmapStep ==
  ASSUME IInv, NEW a \in Apps, Unmap(a)
  PROVE  IInv'
<1>0. TypeInv /\ SlotInv /\ WorkInv /\ LockInv /\ RulesInv /\ ToldInv
  BY DEF IInv
<1> DEFINE next == [reload EXCEPT !.step = "abort", !.app = a, !.slot = slots[a],
                              !.then = IF a \in Unwanted THEN "sync" ELSE "add"]
<1>a. /\ UNCHANGED <<offer, rules, plans, entry, supervisor, task, marker, watcher>>
      /\ reload.step = "sync" /\ slots' = [slots EXCEPT ![a] = NoSlot] /\ reload' = next
      /\ a \in Unwanted \/ a \in Differing
  BY DEF Unmap
<1>b. /\ slots' \in [Apps -> Slots \union {NoSlot}]
      /\ \A b \in Apps : slots'[b] = IF b = a THEN NoSlot ELSE slots[b]
  BY <1>0, <1>a DEF TypeInv
<1>c. /\ next \in ReloadState /\ next.step = "abort" /\ next.want = reload.want /\ next.app = a
      /\ next.then \in {"sync", "add"} /\ (next.then = "add" => a \notin Unwanted)
  BY <1>0 DEF TypeInv, ReloadState
<1> HIDE DEF next
<1>1. TypeInv'
  BY <1>0, <1>a, <1>b, <1>c DEF TypeInv
<1>2. SlotInv'
  BY <1>0, <1>a, <1>b DEF SlotInv, Mapped, EntryOf
<1>3. WorkInv'
  <2>1. a \notin Unwanted => reload.want.specs[a] # NoSpec
    BY <1>a DEF Differing
  <2>2. QED BY <1>0, <1>a, <1>c, <2>1 DEF WorkInv
<1>4. LockInv'
  BY <1>0, <1>a, <1>c DEF LockInv, InLock
<1>5. RulesInv'
  BY <1>0, <1>a, <1>b DEF RulesInv, Mapped, EntryOf
<1>6. ToldInv'
  BY <1>a, <1>c, OwedTells DEF Owed
<1>9. QED BY <1>1, <1>2, <1>3, <1>4, <1>5, <1>6 DEF IInv

\* Its supervisor is aborted.
LEMMA AbortSupervisorStep ==
  ASSUME IInv, AbortSupervisor
  PROVE  IInv'
<1>0. TypeInv /\ SlotInv /\ WorkInv /\ LockInv /\ RulesInv /\ ToldInv
  BY DEF IInv
<1> DEFINE next == [reload EXCEPT !.step = "shutdown"]
<1>a. /\ UNCHANGED <<offer, rules, plans, slots, entry, marker, watcher>>
      /\ reload.step = "abort" /\ reload' = next
      /\ supervisor' = [supervisor EXCEPT ![reload.slot] = NoTask]
      /\ task' = [t \in Tasks |-> IF t = supervisor[reload.slot] THEN Abort(task[t]) ELSE task[t]]
  BY DEF AbortSupervisor
<1>c. /\ next \in ReloadState /\ next.step = "shutdown" /\ next.want = reload.want /\ next.app = reload.app
      /\ next.then = reload.then
  BY <1>0 DEF TypeInv, ReloadState
<1> HIDE DEF next
<1>d. TasksKeep
  BY <1>a, StoreKeeps
<1>e. supervisor' \in [Slots -> Tasks \union {NoTask}]
  BY <1>0, <1>a DEF TypeInv
<1>1. TypeInv'
  BY <1>0, <1>a, <1>c, <1>d, <1>e DEF TypeInv, TasksKeep
<1>2. SlotInv'
  BY <1>0, <1>a DEF SlotInv, Mapped, EntryOf
<1>3. WorkInv'
  BY <1>0, <1>a, <1>c, <1>d DEF WorkInv, TasksKeep, Mapped
<1>4. LockInv'
  BY <1>0, <1>a, <1>c, <1>d DEF LockInv, TasksKeep, InLock
<1>5. RulesInv'
  BY <1>0, <1>a, <1>c DEF RulesInv, Mapped, EntryOf
<1>6. ToldInv'
  BY <1>a, <1>c, OwedTells DEF Owed
<1>9. QED BY <1>1, <1>2, <1>3, <1>4, <1>5, <1>6 DEF IInv

\* The removal is announced.
LEMMA ShutdownStep ==
  ASSUME IInv, Shutdown
  PROVE  IInv'
<1>0. TypeInv /\ SlotInv /\ WorkInv /\ LockInv /\ RulesInv /\ ToldInv
  BY DEF IInv
<1> DEFINE next == [reload EXCEPT !.step = reload.then, !.slot = NoSlot]
<1>a. /\ UNCHANGED <<offer, rules, plans, slots, entry, supervisor, task, marker>>
      /\ reload.step = "shutdown" /\ reload' = next /\ Announce
  BY DEF Shutdown
<1>b. reload.then \in {"sync", "add"}
  BY <1>0, <1>a DEF WorkInv
<1>c. /\ next \in ReloadState /\ next.step = reload.then /\ next.want = reload.want /\ next.app = reload.app
  BY <1>0, <1>b DEF TypeInv, ReloadState
<1> HIDE DEF next
<1>d. watcher' \in [Watchers -> StreamState] /\ ToldInv'
  BY <1>0, <1>a, AnnounceTells
<1>1. TypeInv'
  BY <1>0, <1>a, <1>c, <1>d DEF TypeInv
<1>2. SlotInv'
  BY <1>0, <1>a DEF SlotInv, Mapped, EntryOf
<1>3. WorkInv'
  BY <1>0, <1>a, <1>b, <1>c DEF WorkInv, Mapped
<1>4. LockInv'
  BY <1>0, <1>a, <1>b, <1>c DEF LockInv, InLock
<1>5. RulesInv'
  BY <1>0, <1>a, <1>b, <1>c DEF RulesInv, Mapped, EntryOf
<1>6. ToldInv'
  BY <1>d
<1>9. QED BY <1>1, <1>2, <1>3, <1>4, <1>5, <1>6 DEF IInv

\* An app gets a slot that nobody holds.
LEMMA InsertStep ==
  ASSUME IInv, NEW a \in Apps, NEW s \in Slots, Insert(a, s)
  PROVE  IInv'
<1>0. TypeInv /\ SlotInv /\ WorkInv /\ LockInv /\ RulesInv /\ ToldInv
  BY DEF IInv
<1> DEFINE next == [reload EXCEPT !.step = "supervise", !.app = a]
           spec == reload.want.specs[a]
           new == NewEntry(a, spec)
<1>a. /\ UNCHANGED <<offer, rules, plans, task, marker, watcher>>
      /\ \/ reload.step = "sync" /\ a \in Differing
         \/ reload.step = "add" /\ reload.app = a
      /\ ~Held(s) /\ slots' = [slots EXCEPT ![a] = s] /\ entry' = [entry EXCEPT ![s] = new]
      /\ supervisor' = [supervisor EXCEPT ![s] = NoTask] /\ reload' = next
  BY DEF Insert
<1>b. /\ reload.want \in Settings /\ spec \in Specs
      /\ ~Commands(spec) => a \in McpApps
  <2>1. reload.want \in Settings /\ spec # NoSpec
    BY <1>0, <1>a DEF WorkInv, Differing
  <2>2. reload.want.specs \in [Apps -> Specs \union {NoSpec}]
    BY <2>1, RegistryAssumption
  <2>3. QED BY <2>1, <2>2 DEF McpApps, Commands, Direct
<1>c. /\ next \in ReloadState /\ next.step = "supervise" /\ next.want = reload.want /\ next.app = a
  BY <1>0 DEF TypeInv, ReloadState
<1> HIDE DEF spec
<1>d. /\ new \in EntryState /\ new.app = a /\ new.spec = spec /\ new.state = "starting"
      /\ new.tools = {} /\ new.allowed = {}
  BY <1>b DEF NewEntry, EntryState
<1> HIDE DEF next, new
<1>e. /\ slots' \in [Apps -> Slots \union {NoSlot}]
      /\ \A b \in Apps : slots'[b] = IF b = a THEN s ELSE slots[b]
  BY <1>0, <1>a DEF TypeInv
<1>f. /\ entry' \in [Slots -> EntryState] /\ entry'[s] = new
      /\ \A r \in Slots \ {s} : entry'[r] = entry[r]
  BY <1>0, <1>a, <1>d DEF TypeInv
<1>g. /\ s # NoSlot
      /\ \A b \in Apps : slots[b] \in Slots \union {NoSlot} /\ slots[b] # s
  BY <1>0, <1>a, NoSlotIsNone DEF TypeInv, Held
<1>1. TypeInv'
  BY <1>0, <1>a, <1>c, <1>e, <1>f DEF TypeInv
<1>2. SlotInv'
  BY <1>0, <1>b, <1>d, <1>e, <1>f, <1>g DEF SlotInv, Mapped, EntryOf
<1>3. WorkInv'
  BY <1>0, <1>a, <1>b, <1>c, <1>d, <1>e, <1>f, <1>g DEF WorkInv, Mapped
<1>4. LockInv'
  BY <1>0, <1>a, <1>c DEF LockInv, InLock
<1>5. RulesInv'
  <2>1. Follows(new, rules)
    BY <1>d DEF Follows
  <2>2. QED BY <1>0, <1>a, <1>e, <1>f, <1>g, <2>1 DEF RulesInv, Mapped, EntryOf
<1>6. ToldInv'
  BY <1>a, <1>c, OwedTells DEF Owed
<1>9. QED BY <1>1, <1>2, <1>3, <1>4, <1>5, <1>6 DEF IInv

\* And a task to supervise it.
LEMMA SpawnForAddStep ==
  ASSUME IInv, NEW t \in Tasks, SpawnForAdd(t)
  PROVE  IInv'
<1>0. TypeInv /\ SlotInv /\ WorkInv /\ LockInv /\ RulesInv /\ ToldInv
  BY DEF IInv
<1> DEFINE s == slots[reload.app]
           next == [reload EXCEPT !.step = "store", !.spawned = t, !.slot = s]
<1>a. /\ UNCHANGED <<offer, rules, plans, slots, entry, supervisor, marker, watcher>>
      /\ reload.step = "supervise" /\ FirstIdle(t) /\ task' = [task EXCEPT ![t] = Spawned(s)]
      /\ reload' = next
  BY DEF SpawnForAdd
<1>b. reload.app \in Apps /\ s \in Slots /\ entry[s].spec \in Specs
  BY <1>0, <1>a DEF WorkInv, SlotInv, TypeInv, Mapped, EntryOf
<1>c. /\ next \in ReloadState /\ next.step = "store" /\ next.want = reload.want /\ next.app = reload.app
  BY <1>0, <1>b DEF TypeInv, ReloadState
<1> HIDE DEF next, s
<1>d. TasksKeep
  BY <1>a, <1>b, SpawnKeeps
<1>1. TypeInv'
  BY <1>0, <1>a, <1>c, <1>d DEF TypeInv, TasksKeep
<1>2. SlotInv'
  BY <1>0, <1>a DEF SlotInv, Mapped, EntryOf
<1>3. WorkInv'
  BY <1>0, <1>a, <1>c, <1>d DEF WorkInv, TasksKeep, Mapped
<1>4. LockInv'
  BY <1>0, <1>a, <1>c, <1>d DEF LockInv, TasksKeep, InLock
<1>5. RulesInv'
  BY <1>0, <1>a, <1>c DEF RulesInv, Mapped, EntryOf
<1>6. ToldInv'
  BY <1>a, <1>c, OwedTells DEF Owed
<1>9. QED BY <1>1, <1>2, <1>3, <1>4, <1>5, <1>6 DEF IInv

\* The slot gets it for its supervisor.
LEMMA StoreForAddStep ==
  ASSUME IInv, StoreForAdd
  PROVE  IInv'
<1>0. TypeInv /\ SlotInv /\ WorkInv /\ LockInv /\ RulesInv /\ ToldInv
  BY DEF IInv
<1> DEFINE next == [reload EXCEPT !.step = "sync", !.slot = NoSlot, !.spawned = NoTask]
<1>a. /\ UNCHANGED <<offer, rules, plans, slots, entry, marker, watcher>>
      /\ reload.step = "store" /\ reload' = next
      /\ supervisor' = [supervisor EXCEPT ![reload.slot] = reload.spawned]
      /\ task' = [u \in Tasks |-> IF u = supervisor[reload.slot] THEN Abort(task[u]) ELSE task[u]]
  BY DEF StoreForAdd, Store
<1>c. /\ next \in ReloadState /\ next.step = "sync" /\ next.want = reload.want
  BY <1>0 DEF TypeInv, ReloadState
<1> HIDE DEF next
<1>d. TasksKeep
  BY <1>a, StoreKeeps
<1>e. supervisor' \in [Slots -> Tasks \union {NoTask}]
  BY <1>0, <1>a DEF TypeInv, ReloadState
<1>1. TypeInv'
  BY <1>0, <1>a, <1>c, <1>d, <1>e DEF TypeInv, TasksKeep
<1>2. SlotInv'
  BY <1>0, <1>a DEF SlotInv, Mapped, EntryOf
<1>3. WorkInv'
  BY <1>0, <1>a, <1>c, <1>d DEF WorkInv, TasksKeep, Mapped
<1>4. LockInv'
  BY <1>0, <1>a, <1>c, <1>d DEF LockInv, TasksKeep, InLock
<1>5. RulesInv'
  BY <1>0, <1>a, <1>c DEF RulesInv, Mapped, EntryOf
<1>6. ToldInv'
  BY <1>a, <1>c, OwedTells DEF Owed
<1>9. QED BY <1>1, <1>2, <1>3, <1>4, <1>5, <1>6 DEF IInv

\* The reload ends with the plans, and announces.
LEMMA WritePlansStep ==
  ASSUME IInv, WritePlans
  PROVE  IInv'
<1>0. TypeInv /\ SlotInv /\ WorkInv /\ LockInv /\ RulesInv /\ ToldInv
  BY DEF IInv
<1>a. /\ UNCHANGED <<offer, rules, slots, entry, supervisor, task, marker>>
      /\ reload.step = "sync" /\ reload' = NoReload /\ plans' = reload.want.specs /\ Announce
  BY DEF WritePlans
<1>b. plans' \in [Apps -> Specs \union {NoSpec}]
  BY <1>0, <1>a, RegistryAssumption DEF WorkInv
<1>d. watcher' \in [Watchers -> StreamState] /\ ToldInv'
  BY <1>0, <1>a, AnnounceTells
<1>1. TypeInv'
  BY <1>0, <1>a, <1>b, <1>d, Nothings DEF TypeInv
<1>2. SlotInv'
  BY <1>0, <1>a DEF SlotInv, Mapped, EntryOf
<1>3. WorkInv'
  BY <1>0, <1>a, Nothings DEF WorkInv, Mapped
<1>4. LockInv'
  BY <1>0, <1>a, Nothings DEF LockInv, InLock
<1>5. RulesInv'
  BY <1>0, <1>a DEF RulesInv, Mapped, EntryOf
<1>6. ToldInv'
  BY <1>d
<1>9. QED BY <1>1, <1>2, <1>3, <1>4, <1>5, <1>6 DEF IInv

\* A client lists the tools, before it listens.
LEMMA ListenToLinkStep ==
  ASSUME IInv, NEW w \in Watchers, ListenToLink(w)
  PROVE  IInv'
<1>0. TypeInv /\ SlotInv /\ WorkInv /\ LockInv /\ RulesInv /\ ToldInv
  BY DEF IInv
<1>a. UNCHANGED <<offer, rules, plans, slots, entry, supervisor, task, reload, marker>>
  BY DEF ListenToLink
<1>b. /\ watcher' \in [Watchers -> StreamState]
      /\ \A v \in Watchers \ {w} : watcher'[v] = watcher[v]
      /\ watcher'[w].known = LinkInventory(watcher'[w].plan)
  <2> DEFINE next == [NoStream EXCEPT !.step = "computed", !.plan = plans, !.known = LinkInventory(plans)]
  <2>1. watcher' = [watcher EXCEPT ![w] = next]
    BY DEF ListenToLink
  <2>2. next \in StreamState /\ next.plan = plans /\ next.known = LinkInventory(plans)
    <3>1. LinkInventory(plans) \in SUBSET (Apps \X Tools) /\ plans \in [Apps -> Specs \union {NoSpec}]
      BY <1>0 DEF LinkInventory, TypeInv
    <3> HIDE DEF LinkInventory
    <3>2. QED BY <3>1 DEF NoStream, StreamState
  <2> HIDE DEF next
  <2>3. QED BY <1>0, <2>1, <2>2 DEF TypeInv
<1>1. TypeInv'
  BY <1>0, <1>a, <1>b DEF TypeInv
<1>2. SlotInv'
  BY <1>0, <1>a DEF SlotInv, Mapped, EntryOf
<1>3. WorkInv'
  BY <1>0, <1>a DEF WorkInv, Mapped
<1>4. LockInv'
  BY <1>0, <1>a DEF LockInv, InLock
<1>5. RulesInv'
  BY <1>0, <1>a DEF RulesInv, Mapped, EntryOf
<1>6. ToldInv'
  <2>1. Owed' <=> Owed
    BY <1>a DEF Owed
  <2>2. QED BY <1>0, <1>a, <1>b, <2>1 DEF ToldInv, LinkInventory, Mapped, EntryOf
<1>9. QED BY <1>1, <1>2, <1>3, <1>4, <1>5, <1>6 DEF IInv

\* It subscribes.
LEMMA SubscribeStep ==
  ASSUME IInv, NEW w \in Watchers, Subscribe(w)
  PROVE  IInv'
<1>0. TypeInv /\ SlotInv /\ WorkInv /\ LockInv /\ RulesInv /\ ToldInv
  BY DEF IInv
<1>a. UNCHANGED <<offer, rules, plans, slots, entry, supervisor, task, reload, marker>>
  BY DEF Subscribe
<1>b. /\ watcher' \in [Watchers -> StreamState]
      /\ \A v \in Watchers \ {w} : watcher'[v] = watcher[v]
      /\ watcher[w].step = "computed" /\ watcher'[w].unseen = watcher[w].unseen
      /\ watcher'[w].known = watcher[w].known /\ watcher'[w].plan = watcher[w].plan
  <2> DEFINE next == [watcher[w] EXCEPT !.step = "listening"]
  <2>1. watcher[w].step = "computed" /\ watcher[w] \in StreamState
    BY <1>0 DEF Subscribe, TypeInv
  <2>2. watcher' = [watcher EXCEPT ![w] = next]
    BY <1>0 DEF Subscribe, TypeInv
  <2>3. /\ next \in StreamState /\ next.unseen = watcher[w].unseen
        /\ next.known = watcher[w].known /\ next.plan = watcher[w].plan
    BY <2>1 DEF StreamState
  <2> HIDE DEF next
  <2>4. QED BY <1>0, <2>1, <2>2, <2>3 DEF TypeInv
<1>1. TypeInv'
  BY <1>0, <1>a, <1>b DEF TypeInv
<1>2. SlotInv'
  BY <1>0, <1>a DEF SlotInv, Mapped, EntryOf
<1>3. WorkInv'
  BY <1>0, <1>a DEF WorkInv, Mapped
<1>4. LockInv'
  BY <1>0, <1>a DEF LockInv, InLock
<1>5. RulesInv'
  BY <1>0, <1>a DEF RulesInv, Mapped, EntryOf
<1>6. ToldInv'
  <2>1. Owed' <=> Owed
    BY <1>a DEF Owed
  <2>2. QED BY <1>0, <1>a, <1>b, <2>1 DEF ToldInv, LinkInventory, Mapped, EntryOf
<1>9. QED BY <1>1, <1>2, <1>3, <1>4, <1>5, <1>6 DEF IInv

\* It is told, and lists the tools again.
LEMMA TellStep ==
  ASSUME IInv, NEW w \in Watchers, Tell(w)
  PROVE  IInv'
<1>0. TypeInv /\ SlotInv /\ WorkInv /\ LockInv /\ RulesInv /\ ToldInv
  BY DEF IInv
<1>a. UNCHANGED <<offer, rules, plans, slots, entry, supervisor, task, reload, marker>>
  BY DEF Tell
<1>b. /\ watcher' \in [Watchers -> StreamState]
      /\ \A v \in Watchers \ {w} : watcher'[v] = watcher[v]
      /\ watcher'[w].known = LinkInventory(watcher'[w].plan)
  <2> DEFINE known == LinkInventory(watcher[w].plan)
             next == [watcher[w] EXCEPT !.unseen = FALSE, !.known = known]
  <2>1. watcher[w] \in StreamState /\ known \in SUBSET (Apps \X Tools)
    BY <1>0 DEF TypeInv, LinkInventory
  <2>2. watcher' = [watcher EXCEPT ![w] = next]
    BY <1>0 DEF Tell, TypeInv
  <2> HIDE DEF known
  <2>3. next \in StreamState /\ next.known = known /\ next.plan = watcher[w].plan
    BY <2>1 DEF StreamState
  <2> HIDE DEF next
  <2>4. QED BY <1>0, <2>2, <2>3 DEF TypeInv, known
<1>1. TypeInv'
  BY <1>0, <1>a, <1>b DEF TypeInv
<1>2. SlotInv'
  BY <1>0, <1>a DEF SlotInv, Mapped, EntryOf
<1>3. WorkInv'
  BY <1>0, <1>a DEF WorkInv, Mapped
<1>4. LockInv'
  BY <1>0, <1>a DEF LockInv, InLock
<1>5. RulesInv'
  BY <1>0, <1>a DEF RulesInv, Mapped, EntryOf
<1>6. ToldInv'
  <2>1. Owed' <=> Owed
    BY <1>a DEF Owed
  <2>2. QED BY <1>0, <1>a, <1>b, <2>1 DEF ToldInv, LinkInventory, Mapped, EntryOf
<1>9. QED BY <1>1, <1>2, <1>3, <1>4, <1>5, <1>6 DEF IInv

\* It leaves.
LEMMA LeaveStep ==
  ASSUME IInv, NEW w \in Watchers, Leave(w)
  PROVE  IInv'
<1>0. TypeInv /\ SlotInv /\ WorkInv /\ LockInv /\ RulesInv /\ ToldInv
  BY DEF IInv
<1>a. UNCHANGED <<offer, rules, plans, slots, entry, supervisor, task, reload, marker>>
  BY DEF Leave
<1>b. /\ watcher' \in [Watchers -> StreamState]
      /\ \A v \in Watchers \ {w} : watcher'[v] = watcher[v]
      /\ watcher'[w].step = "none"
  BY <1>0, Nothings DEF Leave, TypeInv
<1>1. TypeInv'
  BY <1>0, <1>a, <1>b DEF TypeInv
<1>2. SlotInv'
  BY <1>0, <1>a DEF SlotInv, Mapped, EntryOf
<1>3. WorkInv'
  BY <1>0, <1>a DEF WorkInv, Mapped
<1>4. LockInv'
  BY <1>0, <1>a DEF LockInv, InLock
<1>5. RulesInv'
  BY <1>0, <1>a DEF RulesInv, Mapped, EntryOf
<1>6. ToldInv'
  <2>1. Owed' <=> Owed
    BY <1>a DEF Owed
  <2>2. QED BY <1>0, <1>a, <1>b, <2>1 DEF ToldInv, LinkInventory, Mapped, EntryOf
<1>9. QED BY <1>1, <1>2, <1>3, <1>4, <1>5, <1>6 DEF IInv

-----------------------------------------------------------------------------
LEMMA InitInv == Init => IInv
<1> SUFFICES ASSUME Init PROVE IInv
  OBVIOUS
<1>1. TypeInv
  BY Nothings DEF Init, TypeInv
<1>2. SlotInv
  BY Nothings, RegistryAssumption DEF Init, SlotInv, Mapped, EntryOf
<1>3. WorkInv /\ LockInv
  BY Nothings DEF Init, WorkInv, LockInv, InLock
<1>4. RulesInv /\ ToldInv
  BY Nothings DEF Init, RulesInv, ToldInv, Mapped
<1>5. QED BY <1>1, <1>2, <1>3, <1>4 DEF IInv

LEMMA NextInv == IInv /\ [Next]_vars => IInv'
<1> SUFFICES ASSUME IInv, [Next]_vars PROVE IInv'
  OBVIOUS
<1>1. ASSUME NEW t \in Tasks, Check(t) PROVE IInv'
  BY <1>1, BeginStep, AnswerStep, TakeRulesLockStep, WriteEntryStep, EndCheckStep DEF Check
<1>2. CASE Sync
  BY <1>2, RecheckStep, AbortSupervisorStep, ShutdownStep, StoreForAddStep, WritePlansStep, UnmapStep,
     InsertStep, SpawnForAddStep DEF Sync
<1>3. CASE Mark
  BY <1>3, StoreForMarkStep, SpawnForMarkStep DEF Mark
<1>4. ASSUME NEW w \in Watchers, ListenToLink(w) \/ Listen(w) \/ Leave(w) PROVE IInv'
  BY <1>4, ListenToLinkStep, SubscribeStep, TellStep, LeaveStep DEF Listen
<1>5. CASE UNCHANGED vars
  <2>1. UNCHANGED <<offer, rules, plans, slots, entry, supervisor, task, reload, marker, watcher>>
    BY <1>5 DEF vars
  <2>2. ToldInv'
    BY <2>1, ToldKeep DEF IInv, Owed
  <2>3. QED BY <2>1, <2>2 DEF IInv, TypeInv, SlotInv, WorkInv, LockInv, RulesInv, InLock, Mapped, EntryOf
<1>6. QED BY <1>1, <1>2, <1>3, <1>4, <1>5, ChangeStep, MarkDownStep, SetRulesStep DEF Next

\* The inductive invariant holds in every reachable state.
THEOREM Invariance == Spec => []IInv
<1>1. QED BY InitInv, NextInv, PTL DEF Spec

\* Every variable keeps its type, and no two apps share a slot.
THEOREM TypesHold == Spec => []TypeOK
<1>1. IInv => TypeOK
  BY DEF IInv, TypeInv, SlotInv, TypeOK, EntryState, TaskState, StreamState, Mapped, EntryOf
<1>2. QED BY Invariance, <1>1, PTL

\* Whatever check races with a reload, an app that is served follows the rules in force.
THEOREM ServedFollowRules == Spec => []LiveFollowsRules
<1>1. IInv => LiveFollowsRules
  <2> SUFFICES ASSUME IInv, RulesLockFree, NEW a \in Apps, Mapped(a), EntryOf(a).state \in {"live", "refused"}
               PROVE  /\ EntryOf(a).allowed = AllowedNames(EntryOf(a).tools, rules, a)
                      /\ (EntryOf(a).state = "refused") <=>
                             /\ ~EntryOf(a).spec.allowDangerous
                             /\ \E t \in EntryOf(a).tools \intersect RunsCode : <<a, t>> \notin rules
    BY DEF LiveFollowsRules
  <2>1. Follows(EntryOf(a), rules) /\ EntryOf(a).app = a
    BY DEF IInv, RulesInv, RulesLockFree, SlotInv
  <2>2. QED BY <2>1 DEF Follows
<1>2. QED BY Invariance, <1>1, PTL

\* A client that listens and was told of everything knows the list of now.
THEOREM ListenersAreTold == Spec => []WatchersAreTold
<1>1. IInv => WatchersAreTold
  BY DEF IInv, ToldInv, WatchersAreTold
<1>2. QED BY Invariance, <1>1, PTL
=============================================================================
