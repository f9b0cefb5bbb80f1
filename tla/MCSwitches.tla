------------------------------ MODULE MCSwitches ------------------------------
(* Switches on a group of two tools and a server.                           *)
EXTENDS Switches

MCCommands == [garage |-> {"open", "status"}]
MCServers == [notes |-> {"read", "shell"}]
MCDangerous == {<<"notes", "shell">>}
MCExposed(app, tool) ==
    IF tool = app THEN app
    ELSE CASE tool = "open" -> "garage_open"
           [] tool = "status" -> "garage_status"
           [] OTHER -> tool
MCHandwritten == << >>
===============================================================================
