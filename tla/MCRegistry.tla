------------------------------ MODULE MCRegistry ------------------------------
(* Registry on small instances: one app that is http, then stdio with a     *)
(* tool turned off, or a command app.                                      *)
EXTENDS Registry, TLC

CONSTANTS web, read, shell, odd

McpSpec(kind, trusted) == [kind |-> kind, allowDangerous |-> trusted, contributes |-> {}]
HttpApp == McpSpec("http", FALSE)
StdioApp == McpSpec("stdio", FALSE)
CommandApp == [kind |-> "commands", allowDangerous |-> FALSE, contributes |-> {read}]

MCSpecs == {HttpApp, StdioApp, CommandApp}
MCOffers == {{read, odd}, {read, shell}}

MCSettings ==
    {[specs |-> (web :> HttpApp), off |-> {}],
     [specs |-> (web :> StdioApp), off |-> {<<web, shell>>}],
     [specs |-> (web :> CommandApp), off |-> {}],
     [specs |-> (web :> CommandApp), off |-> {<<web, read>>}]}

\* bound: while a client listens the app is found down once or changes once, not both.
OneKind == (\A w \in Watchers : watcher[w].step = "none") \/ count.marks + count.changes <= 1
=============================================================================
