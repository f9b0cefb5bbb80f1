------------------------------- MODULE MCScreen -------------------------------
(* Screen on a small instance: a command on one of two links and two more on   *)
(* none, one that runs code and a resource, which only an editor writes.       *)
EXTENDS Screen, TLC

MCInitially ==
    [mcp |-> << >>,
     commands |-> ("a" :> Draft("say {text}")
                   @@ "b" :> Command("df", FALSE, TRUE, FALSE)
                   @@ "c" :> Draft("sh {code}")),
     links |-> ("l" :> {"a"})]

\* bound: requests to connect come in runs of their own, with at most one change of
\* the screen beside one of them; the code of a request depends on no file.
OneKind == asks = 0 \/ (others = 0 /\ saves + asks <= 2)
=============================================================================
