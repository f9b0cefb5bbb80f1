----------------------------- MODULE MCSettings -----------------------------
(* A single tool, a group of two and a server, on a list, a star and a free  *)
(* link, with one job of every kind and a few that meet.                     *)
EXTENDS Settings, TLC

MCInitially ==
    [mcp      |-> "s" :> [command |-> "serve"],
     commands |-> "a" :> Text("r1") @@ "g" :> [t |-> "r2", u |-> "r3", allowDangerous |-> "yes"],
     tools    |-> << >>,
     links    |-> "l" :> {"a", "g"} @@ "m" :> All]

MCSplitNames == "t" :> <<"g-t", "g-t-2", "g-t-3">> @@ "u" :> <<"g-u", "g-u-2", "g-u-3">> @@ "a" :> <<"a-a">>

Job(act, app) == [act |-> act, app |-> app]
MCJobs ==
    {Job("remove", "a"), Job("remove", "g"), Job("remove", "s"), Job("allow", "a"), Job("allow", "s"),
     [act |-> "removeTool", app |-> "g", tool |-> "t"],
     [act |-> "split", app |-> "g", tool |-> "t"], [act |-> "split", app |-> "a", tool |-> "a"],
     [act |-> "add", app |-> "g-t", run |-> "r4", wanted |-> {"n"}],
     [act |-> "add", app |-> "a", run |-> "r5", wanted |-> {"m", "n"}],
     [act |-> "add", app |-> "g", run |-> "r5", wanted |-> {"l"}],
     [act |-> "share", app |-> "z", run |-> "serve", off |-> {"z/x"}],
     [act |-> "links", app |-> "a", wanted |-> {"n"}],
     [act |-> "editTool", app |-> "g", tool |-> "t", run |-> "r6"],
     [act |-> "editTool", app |-> "a", tool |-> "a", run |-> "r6"],
     [act |-> "enable", app |-> "s", on |-> FALSE],
     [act |-> "rule", app |-> "g", rule |-> "g/t", on |-> FALSE],
     [act |-> "members", link |-> "l", apps |-> {"g"}], [act |-> "members", link |-> "l", apps |-> {}],
     [act |-> "unlink", link |-> "m"]}
MCSymmetry == Permutations(Procs)
=============================================================================
