------------------------------- MODULE Screen -------------------------------
(* The terminal screen.  It works on a snapshot of the settings file and of  *)
(* the store, which it takes again while nothing or a code is open and after *)
(* each of its own changes; a dialog is made from the snapshot and answered  *)
(* against it, while other processes and the daemon go on changing both.     *)
(*                                                                           *)
(* A key is handled to its end before the next one.  Typing and moving are   *)
(* folded into the key that acts: a row is any row of the snapshot, a text   *)
(* any text, a list of boxes any set of ticks.  Each app has one tool here,  *)
(* and a change of several edits is one step (Settings has the groups and    *)
(* the edits between the edits, Switches the rules of the tools).            *)
EXTENDS Naturals, FiniteSets, Functions

CONSTANTS
    Names,      \* what apps may be called
    LinkNames,  \* what links may be called
    Discovered, \* what servers in the settings of other programs come to be called
    Words,      \* command lines
    Code,       \* the ones that hand a client's input to a shell
    Open,       \* the ones with an input of free text
    Effects,    \* the ones that delete or overwrite
    NoRun,      \* what an entry runs that has no command in it
    Clients,    \* remote clients that ask to connect
    Token,      \* who holds a token made by hand
    Initially,  \* the file when the screen starts
    MaxSaves,   \* bound: changes of the file by the screen
    MaxOthers,  \* bound: changes of the file by another process
    MaxAsks     \* bound: requests to connect

VARIABLES
    file,       \* porchlight.json: its mcp, commands and links
    store,      \* waiting requests, each with a number of its own, and as
                \* <<client, link>> the grants and what the audit log has as completed
    snap,       \* what the screen read last: both of them
    mode,       \* what is open on the screen, with the step its answer takes
    job,        \* a change of the tunnel under way: "none", "shown" or "hidden"
    typed,      \* history: the commands a person typed a word for
    ticked,     \* history: the boxes of the answer just given
    saves, others, asks

screenVars == <<file, store, snap, mode, job, typed, ticked, saves, others, asks>>

All == {"*"}
NotTicked == [clean |-> FALSE]

ASSUME DangersAreWords == Code \cup Open \cup Effects \subseteq Words
ASSUME NoRunIsNoCommand == NoRun \notin Words
ASSUME TokenAssumption == Token \notin Clients

\* All apps of a link are written "*", which no app can be called.
ASSUME NamesAssumption == "*" \notin Names

\* A file that porchlight may have written: it keeps no read-only claim of a
\* command that deletes (an entry of its own making says so only if it may).
ASSUME InitiallyAssumption ==
    /\ Initially = [mcp |-> Initially.mcp, commands |-> Initially.commands, links |-> Initially.links]
    /\ "*" \notin DOMAIN Initially.commands
    /\ \A l \in DOMAIN Initially.links : Initially.links[l] = All \/ "*" \notin Initially.links[l]
    /\ \A a \in DOMAIN Initially.commands :
          LET c == Initially.commands[a]
          IN /\ c = [run |-> c.run, reads |-> c.reads, resource |-> c.resource, allow |-> c.allow]
             /\ c.reads => c.run \notin Effects

-----------------------------------------------------------------------------
(* What a command is told to be, and what it is. *)

RunsCode(run) == run \in Code
Reads(run, claimed) == ~RunsCode(run) /\ claimed /\ run \notin Effects
NeedsPerson(run, claimed) == ~RunsCode(run) /\ ~Reads(run, claimed) /\ run \in Open

\* A resource claims to read only too, and of the two claims that one is left alone.
Claims(c) == c.reads \/ c.resource
Honest(c) == IF c.run \in Effects /\ Claims(c) THEN [c EXCEPT !.reads = FALSE] ELSE c

\* A resource that takes an input or deletes is refused when the file is loaded.
Compiles(c) == c.resource => c.run \notin Effects \cup Open

(* What the snapshot says. *)

Apps(f) == DOMAIN f.mcp \cup DOMAIN f.commands
Runnable(f) == {a \in DOMAIN f.commands : f.commands[a].run # NoRun}
AnyAll(f) == \E l \in DOMAIN f.links : f.links[l] = All
OnEveryLink(f, app) == AnyAll(f) /\ app \in DOMAIN f.commands
Direct(f) == {s \in DOMAIN f.mcp : f.mcp[s]}
Composed(f) == DOMAIN f.links \ Direct(f)
LinkRows(f) == Direct(f) \cup Composed(f)
LinksOf(f, app) == {l \in Composed(f) : f.links[l] = All \/ app \in f.links[l]}
                   \cup (Direct(f) \cap {app})
NameProblem(f, name) == name \in Apps(f)

\* Which command is on which link.
Placements(f) == {p \in (DOMAIN f.links) \X (DOMAIN f.commands) :
                    f.links[p[1]] = All \/ p[2] \in f.links[p[1]]}

-----------------------------------------------------------------------------
(* What the answers make of the file; s is the snapshot they were given.    *)

Command(run, claimed, resource, allow) ==
    [run |-> run, reads |-> claimed, resource |-> resource, allow |-> allow]
Draft(run) == Command(run, FALSE, FALSE, FALSE)

\* A section of the file with one entry put there.
Put(section, name, entry) ==
    [n \in DOMAIN section \cup {name} |-> IF n = name THEN entry ELSE section[n]]

SetLinksOf(f, s, app, wanted) ==
    LET old(l) == IF l \in DOMAIN s.links THEN s.links[l] ELSE {}
        Touched == {l \in DOMAIN s.links :
                      s.links[l] # All /\ (app \in s.links[l]) # (l \in wanted)}
                   \cup (wanted \ DOMAIN s.links)
    IN [f EXCEPT !.links =
          [l \in Touched \cup DOMAIN @ |->
              IF l \in Touched THEN (old(l) \ {app}) \cup (IF l \in wanted THEN {app} ELSE {})
              ELSE @[l]]]

AddCommand(f, app, command, wanted) ==
    LET written == [f EXCEPT !.commands = Put(@, app, command)]
    IN SetLinksOf(written, written, app, wanted)

RemoveApp(f, s, app) ==
    LET Touched == {l \in DOMAIN s.links : s.links[l] # All /\ app \in s.links[l]}
        cut == [f EXCEPT !.links = [l \in Touched \cup DOMAIN @ |->
                                    IF l \in Touched THEN s.links[l] \ {app} ELSE @[l]]]
    IN IF app \in DOMAIN s.commands
         THEN [cut EXCEPT !.commands = Restrict(@, DOMAIN @ \ {app})]
         ELSE [cut EXCEPT !.mcp = Restrict(@, DOMAIN @ \ {app})]

WithoutLink(f, l) == [f EXCEPT !.links = Restrict(@, DOMAIN @ \ {l})]
NewLink(f, l, members) == [f EXCEPT !.links = Put(@, l, members)]
SetMembers(f, l, members) == IF members = {} THEN WithoutLink(f, l) ELSE NewLink(f, l, members)
EditTool(f, app, command) == [f EXCEPT !.commands = Put(@, app, command)]

\* An entry that may be written as one line, and one with the key put into it.
Bare(c) == c = Draft(c.run)
WithKey(c) == [c EXCEPT !.allow = TRUE]

\* The entry as the snapshot has it decides: one line is written back whole, with
\* what it ran then; the key goes into any other, as it is in the file by now, or
\* if it has gone into one that has nothing else.
AllowDangerous(f, app, then, line) ==
    EditTool(f, app, IF line THEN WithKey(then)
                     ELSE IF app \in DOMAIN f.commands THEN WithKey(f.commands[app])
                     ELSE WithKey(Draft(NoRun)))

-----------------------------------------------------------------------------
(* The modes of the screen. *)

Normal == [is |-> "Normal"]
Message(text) == [is |-> "Message", text |-> text]
Dialog(is, step, about) == [is |-> is, step |-> step, about |-> about]
CodeOf(r) == [is |-> "Code", request |-> r]

\* The boxes of a checklist: what it shows, what is ticked, what is fixed.
Boxes(shown, start, locked) == [shown |-> shown, start |-> start, locked |-> locked]
Checklist(step, about, boxes) ==
    [is |-> "Checklist", step |-> step, about |-> about, boxes |-> boxes]

LinkChecks(f, app) ==
    LET locked == {l \in DOMAIN f.links : f.links[l] = All}
    IN Boxes(DOMAIN f.links, (LinksOf(f, app) \cap DOMAIN f.links) \cup locked, locked)

LinkAppChecks(f, l) ==
    LET all == f.links[l] = All
        locked == IF all THEN {} ELSE {a \in DOMAIN f.commands : OnEveryLink(f, a)}
    IN Boxes(DOMAIN f.commands,
             IF all THEN DOMAIN f.commands ELSE (f.links[l] \cap DOMAIN f.commands) \cup locked,
             locked)

NewLinkChecks(f, app) ==
    LET locked == {a \in DOMAIN f.commands : OnEveryLink(f, a)}
    IN Boxes(DOMAIN f.commands, locked \cup (app \cap DOMAIN f.commands), locked)

-----------------------------------------------------------------------------
(* Steps of the screen. *)

Taken(f, s) == [file |-> f, store |-> s]

\* Who asks for which link, whichever request it is.
Asker(r) == <<r[1], r[2]>>

\* A mutated form: another request of the same client for the link will do.
SameAsker(m, s) ==
    IF m.is = "Code" /\ \A r \in s.pending : Asker(r) # Asker(m.request) THEN Message("Request ended") ELSE m

\* A code whose request is no longer waiting gives way to what became of it.
AfterRefresh(m, s) ==
    IF m.is = "Code" /\ m.request \notin s.pending
      THEN Message(IF Asker(m.request) \in s.grants \cup s.audit THEN "Connected" ELSE "Request ended")
      ELSE m

Refresh(m) ==
    /\ snap' = Taken(file', store')
    /\ mode' = AfterRefresh(m, store')

Typing == job # "shown"
At(step) == Typing /\ mode.is \in {"Choose", "Input", "Confirm", "Checklist"} /\ mode.step = step

Opens(m) ==
    /\ mode' = m
    /\ ticked' = NotTicked
    /\ UNCHANGED <<file, store, snap, job, typed, saves, others, asks>>

\* A change of the file, and the refresh after it.
Saves(f, m) ==
    /\ saves < MaxSaves
    /\ saves' = saves + 1
    /\ file' = f
    /\ Refresh(m)
    /\ UNCHANGED <<job, others, asks>>

Changes(f) ==
    /\ UNCHANGED <<store, typed>>
    /\ ticked' = NotTicked
    /\ Saves(f, Normal)

\* What ticking S stands for: places on links of one app, or of apps on one link.
Pairs(S) == IF mode.step \in {"CommandLinks", "AppLinks"} THEN S \X {mode.about.app}
                                                        ELSE {mode.about.link} \X S

\* A change from a list of boxes.
Answers(f, picked, m) ==
    /\ UNCHANGED <<store, typed>>
    /\ Saves(f, m)
    /\ ticked' = [clean |-> snap.file = file, before |-> Placements(file),
                  shown |-> Pairs(mode.boxes.shown \ mode.boxes.locked),
                  locked |-> Pairs(mode.boxes.locked),
                  picked |-> Pairs(picked \ mode.boxes.locked)]

Pickings == {mode.boxes.locked \cup free : free \in SUBSET (mode.boxes.shown \ mode.boxes.locked)}

StoreChanges(s, m) ==
    /\ store' = s
    /\ ticked' = NotTicked
    /\ UNCHANGED <<file, job, typed, saves, others, asks>>
    /\ Refresh(m)

-----------------------------------------------------------------------------
ScreenInit ==
    /\ file = Initially
    /\ store = [pending |-> {}, grants |-> {}, audit |-> {}]
    /\ snap = Taken(file, store)
    /\ mode = Normal
    /\ job = "none"
    /\ typed = {Initially.commands[a].run : a \in DOMAIN Initially.commands}
    /\ ticked = NotTicked
    /\ saves = 0 /\ others = 0 /\ asks = 0

(* Keys when nothing is open. *)

Idle == Typing /\ mode.is = "Normal"
CanSave == saves < MaxSaves

PressAdd == Idle /\ CanSave /\ Opens(Dialog("Choose", "AddKind", <<>>))

PressOnApp == Idle /\ CanSave /\ \E a \in Apps(snap.file) :
    \/ Opens(Dialog("Confirm", "RemoveApp", [app |-> a]))
    \/ a \in DOMAIN snap.file.mcp
       /\ Changes([file EXCEPT !.mcp = Put(@, a, ~snap.file.mcp[a])])
    \/ a \in DOMAIN snap.file.commands
       /\ Opens(Checklist("AppLinks", [app |-> a], LinkChecks(snap.file, a)))
    \/ a \in Runnable(snap.file)
       /\ \/ Opens(Dialog("Input", "EditRun", [app |-> a]))
          \/ Opens(Dialog("Choose", "RemoveTool", [app |-> a]))
          \/ RunsCode(snap.file.commands[a].run)
             /\ Opens(Dialog("Confirm", "AllowDangerous", [app |-> a]))

PressTry == Idle /\ \E a \in Runnable(snap.file) : Opens([is |-> "Try", about |-> [app |-> a]])

PressOnLink == Idle /\ CanSave /\
    \/ \E l \in LinkRows(snap.file) :
        IF l \in DOMAIN snap.file.links
          THEN \/ Opens(Dialog("Confirm", "DeleteLink", [link |-> l]))
               \/ l \in Composed(snap.file)
                  /\ Opens(Checklist("LinkApps", [link |-> l], LinkAppChecks(snap.file, l)))
          ELSE Opens(Dialog("Confirm", "RemoveApp", [app |-> l]))
    \/ Opens(Dialog("Input", "NewLinkName", [app |-> {}]))

PressOnClient == Idle /\
    \/ \E r \in snap.store.pending :
        \/ Opens(CodeOf(r))
        \/ StoreChanges([store EXCEPT !.pending = @ \ {r}], Normal)
    \/ \E g \in snap.store.grants : Opens(Dialog("Confirm", "RevokeClient", [grant |-> g]))
    \/ Opens(Dialog("Confirm", "RevokeAll", <<>>))
    \/ \E l \in LinkRows(snap.file) : Opens(Dialog("Choose", "NewToken", [link |-> l]))

\* Starting to share and switching the tunnel run on in a task of their own.
PressTunnel ==
    /\ Idle
    /\ job' = "shown"
    /\ ticked' = NotTicked
    /\ UNCHANGED <<file, store, snap, mode, typed, saves, others, asks>>

PressHelp == Idle /\ Opens([is |-> "Help"])

(* Adding an app or a link. *)

AddKind == At("AddKind") /\
    \/ Opens(Dialog("Input", "CommandRun", <<>>))
    \/ Opens(Dialog("Input", "ServerName", <<>>))
    \/ Opens(Dialog("Checklist", "Found", <<>>))
    \/ Opens(Dialog("Input", "NewLinkName", [app |-> {}]))

ServerName == At("ServerName") /\ \E name \in Names \cup LinkNames :
    IF NameProblem(snap.file, name) THEN Opens(mode)
    ELSE /\ UNCHANGED <<store, typed>>
         /\ ticked' = NotTicked
         /\ Saves([file EXCEPT !.mcp = Put(@, name, TRUE)], Message("Shared"))

\* Servers out of the settings of other programs, each under its name or, if
\* that is taken, under a longer one that nobody looks up.
Found == At("Found") /\ \E names \in SUBSET Discovered :
    /\ UNCHANGED <<store, typed>>
    /\ ticked' = NotTicked
    /\ Saves([file EXCEPT !.mcp = [n \in DOMAIN @ \cup names |-> n \in names \/ @[n]]], Message("Share results"))

CommandRun == At("CommandRun") /\ \E run \in Words :
    Opens(IF RunsCode(run) THEN Dialog("Confirm", "CommandDanger", Draft(run))
                           ELSE Dialog("Input", "CommandName", Draft(run)))

Confirmed(words, m) ==
    /\ typed' = typed \cup words
    /\ mode' = m
    /\ ticked' = NotTicked
    /\ UNCHANGED <<file, store, snap, job, saves, others, asks>>

CommandDanger == At("CommandDanger") /\
    Confirmed({mode.about.run}, Dialog("Input", "CommandName", WithKey(mode.about)))

CommandName == At("CommandName") /\ \E name \in Names :
    Opens(IF NameProblem(snap.file, name) THEN mode
          ELSE Dialog("Choose", "CommandReadOnly", [app |-> name, draft |-> mode.about]))

LinksChecklist(about) == Checklist("CommandLinks", about, LinkChecks(snap.file, about.app))

CommandReadOnly == At("CommandReadOnly") /\ \E reads \in BOOLEAN :
    LET draft == Honest([mode.about.draft EXCEPT !.reads = reads])
        about == [app |-> mode.about.app, draft |-> draft]
    IN Opens(IF NeedsPerson(draft.run, Claims(draft)) THEN Dialog("Confirm", "CommandOpenInputs", about)
                                                      ELSE LinksChecklist(about))

CommandOpenInputs == At("CommandOpenInputs") /\
    Confirmed({mode.about.draft.run}, LinksChecklist(mode.about))

CommandLinks == At("CommandLinks") /\ \E picked \in Pickings :
    LET d == mode.about
    IN IF picked \cap DOMAIN snap.file.mcp # {} THEN Opens(Message("Couldn't add it"))
       ELSE Answers(AddCommand(file, d.app, d.draft, picked), picked, Message("Added"))

\* From a list of links a new link can be named; a draft is lost then.
NewLinkFromList == Typing /\ mode.is = "Checklist" /\ mode.step \in {"AppLinks", "CommandLinks"} /\
    Opens(Dialog("Input", "NewLinkName", [app |-> {mode.about.app}]))

NewLinkName == At("NewLinkName") /\ \E name \in LinkNames \cup Names :
    Opens(IF name \in DOMAIN snap.file.links \cup DOMAIN snap.file.mcp THEN mode
          ELSE Checklist("NewLinkApps", [link |-> name], NewLinkChecks(snap.file, mode.about.app)))

NewLinkApps == At("NewLinkApps") /\ \E picked \in Pickings :
    LET members == {a \in picked : ~OnEveryLink(snap.file, a)}
    IN Answers(NewLink(file, mode.about.link, members), picked, Normal)

(* Changing what is there. *)

AppLinks == At("AppLinks") /\ \E picked \in Pickings :
    IF picked = mode.boxes.start THEN Opens(Normal)
    ELSE Answers(SetLinksOf(file, snap.file, mode.about.app, picked), picked, Normal)

LinkApps == At("LinkApps") /\ \E picked \in Pickings :
    LET l == mode.about.link
        all == l \in DOMAIN snap.file.links /\ snap.file.links[l] = All
        members == {a \in picked : ~OnEveryLink(snap.file, a) \/ all}
    IN IF picked = mode.boxes.start THEN Opens(Normal)
       ELSE Answers(IF all THEN SetMembers(file, l, members) ELSE NewLink(file, l, members),
                    picked, Normal)

EditRun == At("EditRun") /\ \E run \in Words :
    Opens(IF RunsCode(run) THEN mode
          ELSE Dialog("Choose", "EditReads", [app |-> mode.about.app, run |-> run]))

Current == snap.file.commands[mode.about.app]

\* The entry with another command and another answer to what it does; all else
\* in it stays, that it is a resource and that it may run code among it.
Edited(run, reads) == [Current EXCEPT !.run = run, !.reads = reads]

\* A mutated form: whoever was asked about one command is not asked about the next.
AskedOnce(run) == NeedsPerson(Current.run, Claims(Current))
AskedBefore(run) == Current.run = run /\ NeedsPerson(Current.run, Claims(Current))

EditReads == At("EditReads") /\ \E reads \in BOOLEAN :
    LET run == mode.about.run
        draft == Honest(Edited(run, reads))
    IN IF NeedsPerson(run, Claims(draft)) /\ ~AskedBefore(run)
         THEN Opens(Dialog("Confirm", "EditConfirmed", mode.about))
         ELSE Changes(EditTool(file, mode.about.app, draft))

EditConfirmed == At("EditConfirmed") /\
    /\ UNCHANGED store
    /\ typed' = typed \cup {mode.about.run}
    /\ ticked' = NotTicked
    /\ Saves(EditTool(file, mode.about.app, Edited(mode.about.run, FALSE)), Normal)

\* Of an app of one tool: nothing is left to split off, removing it removes the app.
RemoveTool == At("RemoveTool") /\
    \/ Changes(RemoveApp(file, snap.file, mode.about.app))
    \/ Opens(Message("Couldn't move it"))

RemoveAppStep == At("RemoveApp") /\ Changes(RemoveApp(file, snap.file, mode.about.app))

\* There is no place for the key in an entry that has become one line since.
AllowDangerousStep == At("AllowDangerous") /\ \E line \in {Bare(Current), FALSE} :
    LET a == mode.about.app
    IN \/ Changes(AllowDangerous(file, a, Current, line))
       \/ ~line /\ a \in DOMAIN file.commands /\ Bare(file.commands[a])
          /\ StoreChanges(store, Message("Couldn't change that"))

\* The clients of a link lose their grants and requests, then the link goes.
DeleteLink == At("DeleteLink") /\
    LET l == mode.about.link
        Left(who) == {g \in who : g[2] # l}
    IN /\ store' = [store EXCEPT !.grants = Left(@), !.pending = Left(@)]
       /\ Saves(WithoutLink(file, l), Normal)
       /\ ticked' = NotTicked
       /\ UNCHANGED typed

(* Clients and tokens. *)

RevokeClient == At("RevokeClient") /\
    StoreChanges([store EXCEPT !.grants = @ \ {mode.about.grant}], Normal)

RevokeAll == At("RevokeAll") /\
    StoreChanges([store EXCEPT !.grants = {}, !.pending = {}], Normal)

NewToken == At("NewToken") /\
    StoreChanges([store EXCEPT !.grants = @ \cup {<<Token, mode.about.link>>}], Message("Token created"))

DenyShown == Typing /\ mode.is = "Code" /\
    StoreChanges([store EXCEPT !.pending = @ \ {mode.request}], Normal)

(* Leaving what is open. *)

Escape == Typing /\ mode.is # "Normal" /\ Opens(Normal)

HideJob ==
    /\ job = "shown"
    /\ job' = "hidden"
    /\ ticked' = NotTicked
    /\ UNCHANGED <<file, store, snap, mode, typed, saves, others, asks>>

-----------------------------------------------------------------------------
(* The clock of the screen, and the world. *)

\* A mutated form: every two seconds, whatever is open.
AnyMode == TRUE
RefreshesIn == mode.is \in {"Normal", "Code"}

Tick ==
    /\ RefreshesIn
    /\ ticked' = NotTicked
    /\ UNCHANGED <<file, store, job, typed, saves, others, asks>>
    /\ Refresh(mode)

\* The result takes the place of whatever is open.
FinishJob ==
    /\ job # "none"
    /\ job' = "none"
    /\ ticked' = NotTicked
    /\ UNCHANGED <<file, store, typed, saves, others, asks>>
    /\ Refresh(Message("result"))

World == ticked' = NotTicked /\ UNCHANGED <<snap, mode, job, saves>>

\* porchlight's other commands ask as the screen does; an editor may do it all.
OtherEdits ==
    /\ others < MaxOthers
    /\ others' = others + 1
    /\ \/ \E l \in LinkNames, members \in ((SUBSET DOMAIN file.commands) \ {{}}) \cup {All} :
            file' = NewLink(file, l, members) /\ UNCHANGED typed
       \/ \E l \in DOMAIN file.links : file' = WithoutLink(file, l) /\ UNCHANGED typed
       \/ \E a \in Apps(file) : file' = RemoveApp(file, file, a) /\ UNCHANGED typed
       \/ \E a \in (Names \cup DOMAIN file.commands) \ DOMAIN file.mcp, run \in Words :
            file' = EditTool(file, a, Draft(run)) /\ typed' = typed \cup {run}
       \/ \E n \in (Names \cup LinkNames) \ Apps(file) :
            file' = [file EXCEPT !.mcp = Put(@, n, TRUE)] /\ UNCHANGED typed
    /\ World /\ UNCHANGED <<store, asks>>

Asks ==
    /\ asks < MaxAsks
    /\ asks' = asks + 1
    /\ \E c \in Clients, l \in LinkRows(file) :
        store' = [store EXCEPT !.pending = @ \cup {<<c, l, asks>>}]
    /\ World /\ UNCHANGED <<file, typed, others>>

\* The right code, or none until the request expires.
Decided == \E r \in store.pending :
    /\ store' \in {[store EXCEPT !.pending = @ \ {r}],
                   [pending |-> store.pending \ {r}, grants |-> store.grants \cup {Asker(r)},
                    audit |-> store.audit \cup {Asker(r)}]}
    /\ World /\ UNCHANGED <<file, typed, others, asks>>

ScreenNext ==
    \/ PressAdd \/ PressOnApp \/ PressTry \/ PressOnLink \/ PressOnClient
    \/ PressTunnel \/ PressHelp
    \/ AddKind \/ ServerName \/ Found \/ CommandRun \/ CommandDanger \/ CommandName
    \/ CommandReadOnly \/ CommandOpenInputs \/ CommandLinks
    \/ NewLinkFromList \/ NewLinkName \/ NewLinkApps
    \/ AppLinks \/ LinkApps \/ EditRun \/ EditReads \/ EditConfirmed
    \/ RemoveTool \/ RemoveAppStep \/ AllowDangerousStep \/ DeleteLink
    \/ RevokeClient \/ RevokeAll \/ NewToken \/ DenyShown
    \/ Escape \/ HideJob \/ Tick \/ FinishJob
    \/ OtherEdits \/ Asks \/ Decided

ScreenSpec == ScreenInit /\ [][ScreenNext]_screenVars

-----------------------------------------------------------------------------
\* A list of boxes does what it shows and nothing else: if the file is as the
\* screen read it, the answer leaves every box the person could change the way
\* it was ticked and every other command of every link where it was.  It
\* rests on the snapshot standing still while a dialog is open (the screen
\* refreshes in no other mode than Normal and Code, mod.rs event_loop).
AnswersDoWhatWasTicked ==
    ticked.clean =>
        /\ Placements(file) \cap ticked.shown = ticked.picked
        /\ \A p \in (Placements(file) \ ticked.before) \cup (ticked.before \ Placements(file)) :
              p \in ticked.shown \cup ticked.locked

\* No path through the dialogs puts a command that runs code, or one that
\* changes things with free text of a client, into the file without a person
\* having typed a word for just this command, also where the file is no longer as
\* the screen read it (answer.rs, the steps from CommandRun to CommandLinks, from
\* EditRun to EditConfirmed, and AllowDangerous).  And no command that deletes is
\* offered as one that reads: its claim is not kept, but for the one of a resource,
\* which editing leaves in the file (spec.rs honest, actions.rs edit_tool) and which
\* is refused when the file is loaded (apps.rs compile_command).
DangerIsConfirmed == \A a \in DOMAIN file.commands :
    LET c == file.commands[a]
    IN /\ RunsCode(c.run) \/ NeedsPerson(c.run, Claims(c)) => c.run \in typed
       /\ Claims(c) /\ Compiles(c) => c.run \notin Effects

\* The code on the screen is that of a request that waited when the screen
\* last looked: once it has ended the code goes and the person is told.
CodeIsOfARequest == mode.is = "Code" => mode.request \in snap.store.pending
=============================================================================
