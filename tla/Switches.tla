------------------------------- MODULE Switches -------------------------------
(* Turning tools on and off.  The rules are the object `tools` of the        *)
(* settings file: patterns app/tool in the order they were first written,    *)
(* the last one that matches a tool decides.  The screen and the command     *)
(* line write rules; an edit keeps the place of a key that is there and      *)
(* appends one that is not, and a rule stays when its app is removed.        *)
(*                                                                           *)
(* A pattern is a name or "*" here.  A switch is one step, made from the     *)
(* file as it is (Settings has the edits of several processes).              *)
EXTENDS Naturals, Sequences, FiniteSetsExt

CONSTANTS
    Commands,      \* command app -> its tools
    Servers,       \* MCP server -> its tools
    Dangerous,     \* the tools that run code, as <<app, tool>>
    Exposed(_, _), \* the name clients see a command tool under
    Switchers,     \* who switches: "screen" and "cli"
    Handwritten,   \* the rules somebody wrote before
    MaxSwitches    \* bound: switches in a behaviour

VARIABLES
    rules,         \* the object tools: a sequence of [app, tool, on]
    enabled,       \* the servers that are enabled
    apps,          \* what is in the file now
    said,          \* history: what the last switch told the person
    switches       \* counts the actions

vars == <<rules, enabled, apps, said, switches>>

Nothing == [app |-> "", tool |-> "", on |-> TRUE]
Known == DOMAIN Commands \cup DOMAIN Servers
ToolsOf(a) == IF a \in DOMAIN Commands THEN Commands[a] ELSE Servers[a]

-----------------------------------------------------------------------------
(* What the rules say. *)

Matches(pattern, name) == pattern \in {"*", name}
Decision(hits) == hits = {} \/ rules[Max(hits)].on

ToolOn(a, t) == Decision({i \in DOMAIN rules : Matches(rules[i].app, a) /\ Matches(rules[i].tool, t)})
AppDefaultOn(a) == Decision({i \in DOMAIN rules : rules[i].tool = "*" /\ Matches(rules[i].app, a)})

\* One edit of the object.
Edited(rs, a, t, on) ==
    LET rule == [app |-> a, tool |-> t, on |-> on]
        same == {i \in DOMAIN rs : rs[i].app = a /\ rs[i].tool = t}
    IN IF same = {} THEN Append(rs, rule)
       ELSE [i \in DOMAIN rs |-> IF i \in same THEN rule ELSE rs[i]]

-----------------------------------------------------------------------------
Init ==
    /\ rules = Handwritten
    /\ enabled = DOMAIN Servers
    /\ apps = Known
    /\ said = Nothing
    /\ switches = 0

May(who) ==
    /\ who \in Switchers
    /\ switches < MaxSwitches
    /\ switches' = switches + 1

SetTool(a, t, on) ==
    /\ rules' = Edited(rules, a, t, on)
    /\ said' = [app |-> a, tool |-> t, on |-> on]
    /\ UNCHANGED <<enabled, apps>>

SetEnabled(a, on) ==
    /\ enabled' = IF on THEN enabled \cup {a} ELSE enabled \ {a}
    /\ said' = Nothing
    /\ UNCHANGED <<rules, apps>>

SwitchApp(a, on) ==
    IF a \in DOMAIN Servers THEN SetEnabled(a, on) ELSE SetTool(a, "*", on)

(* On the screen. *)

ToggleTool == May("screen") /\ \E a \in apps : \E t \in ToolsOf(a) :
    SetTool(a, t, ~ToolOn(a, t))

ToggleApp == May("screen") /\ \E a \in apps :
    SwitchApp(a, IF a \in DOMAIN Servers THEN a \notin enabled ELSE ~AppDefaultOn(a))

\* "Turn it off instead", offered to who removes a tool.
TurnOffInstead == May("screen") /\ \E a \in apps \cap DOMAIN Commands : \E t \in ToolsOf(a) :
    SetTool(a, t, FALSE)

\* f on a link that is refused: its tools that run code and are on.
ToolsOff(a) == FoldSet(LAMBDA d, rs : Edited(rs, d[1], d[2], FALSE), rules,
                       {d \in Dangerous : d[1] = a /\ ToolOn(a, d[2])})

TurnOffDangerous == May("screen") /\ \E a \in apps :
    /\ rules' = ToolsOff(a)
    /\ said' = Nothing
    /\ UNCHANGED <<enabled, apps>>

(* On the command line. *)

\* The names the tools of an app go by there.
ToolNames(a) ==
    IF a \in DOMAIN Commands THEN {Exposed(a, t) : t \in Commands[a]} ELSE Servers[a]

\* A bare name is an app, or else the tool of the only app that has it; app/name names both.
Resolved ==
    {<<a, "">> : a \in apps}
    \cup {<<a, t>> \in apps \X UNION {ToolNames(a) : a \in apps} : t \in ToolNames(a)}

Switch == May("cli") /\ \E target \in Resolved, on \in BOOLEAN :
    IF target[2] = "" THEN SwitchApp(target[1], on) ELSE SetTool(target[1], target[2], on)

(* Apps that go and come back. *)

RemoveApp == May("screen") /\ \E a \in apps :
    /\ apps' = apps \ {a}
    /\ enabled' = enabled \ {a}
    /\ said' = Nothing
    /\ UNCHANGED rules

\* A server that is added has its dangerous tools turned off.
AddApp == May("screen") /\ \E a \in Known \ apps :
    /\ apps' = apps \cup {a}
    /\ IF a \in DOMAIN Servers
         THEN enabled' = enabled \cup {a} /\ rules' = ToolsOff(a)
         ELSE UNCHANGED <<enabled, rules>>
    /\ said' = Nothing

Next ==
    \/ ToggleTool \/ ToggleApp \/ TurnOffInstead \/ TurnOffDangerous
    \/ Switch \/ RemoveApp \/ AddApp

Spec == Init /\ [][Next]_vars

-----------------------------------------------------------------------------
\* "every tool can be switched off" (README.md): a tool the person was just
\* told is off is off by the rules, whatever was switched before (actions.rs
\* set_tool, config.rs edited, policy.rs tool_on).
SwitchedOffIsOff ==
    ~said.on /\ said.tool # "*" =>
        \A t \in ToolsOf(said.app) :
            said.tool \in {t, Exposed(said.app, t)} => ~ToolOn(said.app, t)
=============================================================================
