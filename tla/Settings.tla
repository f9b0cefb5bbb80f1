------------------------------ MODULE Settings ------------------------------
(* porchlight.json and the porchlight processes that edit it.  A command or  *)
(* a screen loads the file, decides from what it loaded, and then makes one  *)
(* edit or several.  Each edit locks the file, reads it again, changes one   *)
(* place in it and renames a new file over it; nothing holds the lock from   *)
(* one edit to the next.  A process may end between any two steps.           *)
(*                                                                           *)
(* The file is its four sections.  An entry of mcp or commands is a JSON     *)
(* object, a function from keys to values; Text(r) is a command written as   *)
(* a bare string.  Descriptions, environments and the order of keys are left *)
(* out, a link's list of apps is a set.                                      *)
EXTENDS Naturals, Sequences, FiniteSets, FiniteSetsExt, SequencesExt

CONSTANTS
    Procs,      \* porchlight commands and screens on this computer
    Initially,  \* the file before any of them runs
    Jobs,       \* what they may be asked to do
    SplitNames, \* tool -> the names a split may give it, best first
    Nobody,     \* the holder of a free lock
    MaxJobs,    \* bound: actions started in a behaviour
    MaxCrashes  \* bound: processes that end in the middle

VARIABLES
    file,       \* the settings as they stand on disk
    lock,       \* who holds porchlight.json.lock
    snap,       \* process -> the settings it loaded
    job,        \* process -> the action it is carrying out
    todo,       \* process -> the edits it still has to make
    later,      \* process -> whether more edits are computed after these
    text,       \* process -> the new file it has written and not yet renamed
    mixed,      \* history: process -> another wrote since it loaded
    started,    \* counts Choose
    crashes     \* counts Crash

fileVars == <<file, lock, snap, job, todo, later, text, mixed, started, crashes>>

NoFile == << >>
NoJob == << >>
All == {"*"}
Text(r) == [text |-> r]

\* Four sections, each an object.
Sections == {"mcp", "commands", "tools", "links"}
IsSettings(f) ==
    /\ f = [s \in Sections |-> f[s]]
    /\ \A s \in Sections : f[s] = [k \in DOMAIN f[s] |-> f[s][k]] /\ IsFiniteSet(DOMAIN f[s])

ASSUME ProcsAssumption == Nobody \notin Procs
ASSUME JobsAssumption == NoJob \notin Jobs
ASSUME ActsAssumption == \A j \in Jobs :
    /\ j.act \in {"add", "share", "remove", "removeTool", "split", "editTool",
                   "links", "allow", "enable", "rule", "members", "unlink"}
    /\ j.act \in {"add", "links"} => IsFiniteSet(j.wanted)
    /\ j.act = "share" => IsFiniteSet(j.off)
    /\ j.act \in {"remove", "removeTool"} => j.app # "*"
    /\ j.act = "split" => SplitNames[j.tool] \in Seq(STRING)
ASSUME FileAssumption == IsSettings(Initially)
ASSUME BoundsAssumption == MaxJobs \in Nat /\ MaxCrashes \in Nat

-----------------------------------------------------------------------------
(* One edit: a place in the file, and the value to put there or none. *)

Put(at, value) == [at |-> at, put |-> TRUE, value |-> value]
Drop(at) == [at |-> at, put |-> FALSE]

Having(object, key, value) ==
    [k \in DOMAIN object \cup {key} |-> IF k = key THEN value ELSE object[k]]
Without(object, key) == [k \in DOMAIN object \ {key} |-> object[k]]

Changed(object, key, e) == IF e.put THEN Having(object, key, e.value) ELSE Without(object, key)

EntryAt(f, e) ==
    LET section == f[e.at[1]]
    IN IF e.at[2] \in DOMAIN section THEN section[e.at[2]] ELSE << >>

\* A parent that is there has to be an object; one that is not is made.
Editable(f, e) == Len(e.at) = 3 => "text" \notin DOMAIN EntryAt(f, e)

Edited(f, e) ==
    [f EXCEPT ![e.at[1]] =
        IF Len(e.at) = 2
            THEN Changed(@, e.at[2], e)
            ELSE Having(@, e.at[2], Changed(EntryAt(f, e), e.at[3], e))]

-----------------------------------------------------------------------------
(* What an entry of the file means. *)

Single(entry) == {"text", "run"} \cap DOMAIN entry # {}
ToolNames(app, entry) == IF Single(entry) THEN {app} ELSE DOMAIN entry \ {"allowDangerous"}
OneTool(f, app) == Cardinality(ToolNames(app, f.commands[app])) <= 1
Servers(f) == {name \in DOMAIN f.mcp : "command" \in DOMAIN f.mcp[name]}
NameProblem(f, name) == name \in Servers(f) \cup DOMAIN f.commands
Explicit(f) == {link \in DOMAIN f.links : f.links[link] # All}

-----------------------------------------------------------------------------
(* The edits of each action, computed from the settings f it was given. *)

\* A mutated form: the links keep the app.
RemoveEntry(f, app) ==
    <<Drop(<<IF app \in DOMAIN f.commands THEN "commands" ELSE "mcp", app>>)>>

RemoveEdits(f, app) ==
    <<Drop(<<IF app \in DOMAIN f.commands THEN "commands" ELSE "mcp", app>>)>>
    \o SetToSeq({Put(<<"links", link>>, f.links[link] \ {app}) :
                    link \in {l \in Explicit(f) : app \in f.links[l]}})

LinkEdits(f, app, wanted) ==
    LET Wrong == {l \in Explicit(f) : ~(app \in f.links[l] <=> l \in wanted)}
    IN SetToSeq({Put(<<"links", link>>, (f.links[link] \ {app})
                                        \cup (IF link \in wanted THEN {app} ELSE {})) :
                    link \in Wrong})
       \o SetToSeq({Put(<<"links", link>>, {app}) : link \in wanted \ DOMAIN f.links})

\* The bound on split names: where the code tries 999, Len(SplitNames[tool])
\* of them, and only splits that find a free one.
FreeNames(f, tool) == {n \in 1..Len(SplitNames[tool]) : ~NameProblem(f, SplitNames[tool][n])}
SplitName(f, tool) == SplitNames[tool][Min(FreeNames(f, tool))]

Standalone(f, app, tool) ==
    LET entry == f.commands[app]
    IN [key \in {"run"} \cup ({"allowDangerous"} \cap DOMAIN entry) |->
            IF key = "run" THEN entry[tool] ELSE entry[key]]

\* A mutated form: the tool leaves its group before it stands alone.
SplitOffFirst(f, app, tool) ==
    << Drop(<<"commands", app, tool>>),
       Put(<<"commands", SplitName(f, tool)>>, Standalone(f, app, tool)) >>

SplitEdits(f, app, tool) ==
    << Put(<<"commands", SplitName(f, tool)>>, Standalone(f, app, tool)),
       Drop(<<"commands", app, tool>>) >>

\* The standalone tool takes the links its group is on.
SplitLinks(f, app) == {link \in Explicit(f) : app \in f.links[link]}

AllowEdit(f, app) ==
    IF app \in DOMAIN f.commands /\ "text" \in DOMAIN f.commands[app]
        THEN Put(<<"commands", app>>, [run |-> f.commands[app].text, allowDangerous |-> "yes"])
        ELSE Put(<<IF app \in DOMAIN f.commands THEN "commands" ELSE "mcp", app, "allowDangerous">>, "yes")

EditToolEdit(f, app, tool, run) ==
    LET entry == f.commands[app]
    IN IF ~Single(entry) THEN Put(<<"commands", app, tool>>, run)
       ELSE Put(<<"commands", app>>, IF "allowDangerous" \in DOMAIN entry
                                        THEN [entry EXCEPT !.run = run] ELSE Text(run))

MembersEdit(link, apps) ==
    IF apps = {} THEN Drop(<<"links", link>>) ELSE Put(<<"links", link>>, apps)

RuleEdit(rule, on) == Put(<<"tools", rule>>, IF on THEN "yes" ELSE "no")

EnableEdit(app, on) == Put(<<"mcp", app, "enabled">>, IF on THEN "yes" ELSE "no")
CommandEdit(app, run) == Put(<<"commands", app>>, Text(run))
ServerEdit(app, run) == Put(<<"mcp", app>>, [command |-> run])

RemoveToolEdits(f, app, tool) ==
    IF OneTool(f, app) THEN RemoveEdits(f, app) ELSE <<Drop(<<"commands", app, tool>>)>>

-----------------------------------------------------------------------------
(* What a command or a screen checks, against the settings it loaded.        *)

AddAllowed(f, j) == ~NameProblem(f, j.app) /\ j.wanted \cap Servers(f) = {}
ShareAllowed(f, j) == ~NameProblem(f, j.app)
RemoveAllowed(f, j) == NameProblem(f, j.app)
ToolAllowed(f, j) == j.app \in DOMAIN f.commands /\ j.tool \in ToolNames(j.app, f.commands[j.app])
SwitchAllowed(f, j) == IF j.act = "enable" THEN j.app \in Servers(f) ELSE NameProblem(f, j.app)
MembersAllowed(f, j) ==
    /\ j.apps \subseteq DOMAIN f.commands
    /\ j.link \notin Servers(f)
    /\ j.link \in DOMAIN f.links => j.link \in Explicit(f)
UnlinkAllowed(f, j) == j.link \in DOMAIN f.links

Accepted(f, j) ==
    CASE j.act = "add"     -> AddAllowed(f, j)
      [] j.act = "share"   -> ShareAllowed(f, j)
      [] j.act \in {"remove", "allow"} -> RemoveAllowed(f, j)
      [] j.act \in {"editTool", "removeTool"} -> ToolAllowed(f, j)
      [] j.act = "split"   -> ToolAllowed(f, j) /\ FreeNames(f, j.tool) # {}
      [] j.act = "links"   -> j.app \in DOMAIN f.commands
      [] j.act \in {"enable", "rule"} -> SwitchAllowed(f, j)
      [] j.act = "members" -> MembersAllowed(f, j)
      [] j.act = "unlink"  -> UnlinkAllowed(f, j)

FirstEdits(f, j) ==
    CASE j.act = "add"     -> <<CommandEdit(j.app, j.run)>>
      [] j.act = "share"   -> <<ServerEdit(j.app, j.run)>>
      [] j.act = "remove"  -> RemoveEdits(f, j.app)
      [] j.act = "removeTool" -> RemoveToolEdits(f, j.app, j.tool)
      [] j.act = "split"   -> IF Single(f.commands[j.app]) THEN << >> ELSE SplitEdits(f, j.app, j.tool)
      [] j.act = "editTool" -> <<EditToolEdit(f, j.app, j.tool, j.run)>>
      [] j.act = "links"   -> LinkEdits(f, j.app, j.wanted)
      [] j.act = "allow"   -> <<AllowEdit(f, j.app)>>
      [] j.act = "enable"  -> <<EnableEdit(j.app, j.on)>>
      [] j.act = "rule"    -> <<RuleEdit(j.rule, j.on)>>
      [] j.act = "members" -> <<MembersEdit(j.link, j.apps)>>
      [] j.act = "unlink"  -> <<Drop(<<"links", j.link>>)>>

ToolsOff(rules) == SetToSeq({RuleEdit(rule, FALSE) : rule \in rules})

HasMore(f, j) ==
    \/ j.act \in {"add", "share"}
    \/ j.act = "split" /\ ~Single(f.commands[j.app])

\* The second part: the links of a new tool, from settings loaded again, and
\* the tools of a new server that the daemon found to run code.
MoreEdits(old, new, j) ==
    CASE j.act = "add"   -> LinkEdits(new, j.app, j.wanted)
      [] j.act = "split" -> LinkEdits(new, SplitName(old, j.tool), SplitLinks(old, j.app))
      [] j.act = "share" -> ToolsOff(j.off)

-----------------------------------------------------------------------------
FileInit ==
    /\ file = Initially
    /\ lock = Nobody
    /\ snap = [p \in Procs |-> NoFile]
    /\ job = [p \in Procs |-> NoJob]
    /\ todo = [p \in Procs |-> << >>]
    /\ later = [p \in Procs |-> FALSE]
    /\ text = [p \in Procs |-> NoFile]
    /\ mixed = [p \in Procs |-> FALSE]
    /\ started = 0 /\ crashes = 0

\* The command starts, or the screen refreshes.
Load(p) ==
    /\ snap[p] = NoFile
    /\ started < MaxJobs
    /\ started' = started + 1
    /\ snap' = [snap EXCEPT ![p] = file]
    /\ mixed' = [mixed EXCEPT ![p] = FALSE]
    /\ UNCHANGED <<file, lock, job, todo, later, text, crashes>>

\* The person confirms; everything is decided from the loaded settings.
Choose(p) ==
    /\ snap[p] # NoFile /\ job[p] = NoJob
    /\ \E j \in Jobs :
        /\ Accepted(snap[p], j)
        /\ job' = [job EXCEPT ![p] = j]
        /\ todo' = [todo EXCEPT ![p] = FirstEdits(snap[p], j)]
        /\ later' = [later EXCEPT ![p] = HasMore(snap[p], j)]
    /\ UNCHANGED <<file, lock, snap, text, mixed, started, crashes>>

\* A mutated form: the edit does not wait for the lock.
NoLockNeeded == TRUE
LockFree == lock = Nobody

\* Config::edit up to the temporary file: lock, read, change one place.
Prepare(p) ==
    /\ todo[p] # << >> /\ text[p] = NoFile
    /\ LockFree
    /\ Editable(file, Head(todo[p]))
    /\ lock' = p
    /\ text' = [text EXCEPT ![p] = Edited(file, Head(todo[p]))]
    /\ UNCHANGED <<file, snap, job, todo, later, mixed, started, crashes>>

Rename(p) ==
    /\ text[p] # NoFile
    /\ file' = text[p]
    /\ lock' = Nobody
    /\ text' = [text EXCEPT ![p] = NoFile]
    /\ todo' = [todo EXCEPT ![p] = Tail(@)]
    /\ mixed' = [q \in Procs |-> mixed[q] \/ (q # p /\ snap[q] # NoFile)]
    /\ UNCHANGED <<snap, job, later, started, crashes>>

More(p) ==
    /\ job[p] # NoJob /\ todo[p] = << >> /\ later[p]
    /\ later' = [later EXCEPT ![p] = FALSE]
    /\ todo' = [todo EXCEPT ![p] = MoreEdits(snap[p], file, job[p])]
    /\ UNCHANGED <<file, lock, snap, job, text, mixed, started, crashes>>

Over(p) ==
    /\ snap' = [snap EXCEPT ![p] = NoFile]
    /\ job' = [job EXCEPT ![p] = NoJob]
    /\ todo' = [todo EXCEPT ![p] = << >>]
    /\ later' = [later EXCEPT ![p] = FALSE]
    /\ text' = [text EXCEPT ![p] = NoFile]
    /\ mixed' = [mixed EXCEPT ![p] = FALSE]

Done(p) == job[p] # NoJob /\ todo[p] = << >> /\ ~later[p]

Finish(p) ==
    /\ Done(p)
    /\ Over(p)
    /\ UNCHANGED <<file, lock, started, crashes>>

\* An edit is refused; the ones before it stay.
Refuse(p) ==
    /\ todo[p] # << >> /\ text[p] = NoFile
    /\ LockFree
    /\ ~Editable(file, Head(todo[p]))
    /\ Over(p)
    /\ UNCHANGED <<file, lock, started, crashes>>

\* The process ends.  The system frees its lock; a temporary file stays
\* behind, and later edits pass it over.
Crash(p) ==
    /\ crashes < MaxCrashes
    /\ job[p] # NoJob
    /\ crashes' = crashes + 1
    /\ lock' = IF lock = p THEN Nobody ELSE lock
    /\ Over(p)
    /\ UNCHANGED <<file, started>>

FileNext == \E p \in Procs :
    \/ Load(p) \/ Choose(p) \/ Prepare(p) \/ Rename(p)
    \/ More(p) \/ Finish(p) \/ Refuse(p) \/ Crash(p)

FileSpec == FileInit /\ [][FileNext]_fileVars

-----------------------------------------------------------------------------
(* What each action means, as one change of the settings it started from. *)

Placed(links, app, wanted) ==
    [l \in DOMAIN links \cup wanted |->
        IF l \in DOMAIN links /\ links[l] = All THEN All
        ELSE ((IF l \in DOMAIN links THEN links[l] ELSE {}) \ {app})
             \cup (IF l \in wanted THEN {app} ELSE {})]

Removed(f, app) ==
    [f EXCEPT !.commands = Without(@, app),
              !.mcp = IF app \in DOMAIN f.commands THEN @ ELSE Without(@, app),
              !.links = [l \in DOMAIN @ |-> @[l] \ {app}]]

SplitUp(f, app, tool) ==
    LET name == SplitName(f, tool)
    IN [f EXCEPT !.commands = [n \in DOMAIN @ \cup {name} |->
                                  IF n = name THEN Standalone(f, app, tool)
                                  ELSE IF n = app THEN Without(@[n], tool) ELSE @[n]],
                 !.links = Placed(@, name, SplitLinks(f, app))]

Meaning(f, j) ==
    CASE j.act = "add" -> [f EXCEPT !.commands = Having(@, j.app, Text(j.run)),
                                    !.links = Placed(@, j.app, j.wanted)]
      [] j.act = "share" -> [f EXCEPT !.mcp = Having(@, j.app, [command |-> j.run]),
                                      !.tools = [rule \in DOMAIN @ \cup j.off |->
                                                    IF rule \in j.off THEN "no" ELSE @[rule]]]
      [] j.act = "links" -> [f EXCEPT !.links = Placed(@, j.app, j.wanted)]
      [] j.act = "remove" -> Removed(f, j.app)
      [] j.act = "removeTool" /\ OneTool(f, j.app) -> Removed(f, j.app)
      [] j.act = "split" /\ ~Single(f.commands[j.app]) -> SplitUp(f, j.app, j.tool)
      [] OTHER -> IF FirstEdits(f, j) = << >> THEN f ELSE Edited(f, FirstEdits(f, j)[1])

RunsOf(entry) ==
    IF "text" \in DOMAIN entry THEN {entry.text}
    ELSE IF "run" \in DOMAIN entry THEN {entry.run}
    ELSE {entry[tool] : tool \in DOMAIN entry \ {"allowDangerous"}}
AllRuns(f) == UNION {RunsOf(f.commands[app]) : app \in DOMAIN f.commands}

\* The commands a client of each link can run.
Offers(f) ==
    UNION {{<<link, run>> : run \in UNION {RunsOf(f.commands[app]) :
                app \in DOMAIN f.commands \cap (IF f.links[link] = All THEN DOMAIN f.commands
                                                                      ELSE f.links[link])}} :
           link \in DOMAIN f.links}

-----------------------------------------------------------------------------
\* No edit of one process undoes an edit of another: at the moment a new file
\* is renamed into place it is the file on disk with just this one place
\* changed (config.rs edit, the lock around the read and the rename).
NoEditIsLost == \A p \in Procs :
    text[p] # NoFile => text[p] = Edited(file, Head(todo[p]))

\* An action nobody disturbs, however many edits it makes, leaves the file
\* its one-step meaning says: a removed app is on no link, a new or a split
\* tool is on exactly the links it was asked for, and the rest is untouched.
\* (Actions that overlap may undo each other's lists: see the README.)
UndisturbedActionsAreAtomic == \A p \in Procs :
    Done(p) /\ ~mixed[p] => file = Meaning(snap[p], job[p])

\* A link may name an app there is not: a removal that ended in the middle leaves
\* one, or a person with an editor.  The first command that gets this name is
\* on the link the moment it is written, before the action comes to the links.
OnNamingLinks(f, name, run) == {link \in Explicit(f) : name \in f.links[link]} \X {run}
OfferedAtOnce(f, j) ==
    CASE j.act = "add" -> OnNamingLinks(f, j.app, j.run)
      [] j.act = "split" /\ ~Single(f.commands[j.app]) ->
            OnNamingLinks(f, SplitName(f, j.tool), f.commands[j.app][j.tool])
      [] OTHER -> {}

\* Between two edits, where a crash may leave the file for good, no link
\* offers a command that neither the settings before nor the settings after
\* the action offer there, but for the new command on a link that named it
\* before it was there; and a tool that is being split off is still in the
\* file (the order of the edits in remove_app, split_tool and add_command).
HalfDoneIsSafe == \A p \in Procs :
    job[p] # NoJob /\ ~mixed[p] =>
        /\ Offers(file) \subseteq Offers(snap[p]) \cup Offers(Meaning(snap[p], job[p]))
                                \cup OfferedAtOnce(snap[p], job[p])
        /\ job[p].act = "split" => AllRuns(snap[p]) \subseteq AllRuns(file)
=============================================================================
