------------------------------ MODULE MCSurface ------------------------------
(* Lists and calls of two or three clients, with an app that changes a tool; *)
(* or batches of two whose messages share ids, with an app that does not.    *)
EXTENDS Surface, TLC

CONSTANTS tool, other, odd

Asks(method) == [method |-> method, tool |-> NoTool, id |-> 1]
Call(t, id) == [method |-> "tools/call", tool |-> t, id |-> id]
ListBatches == {{Asks("tools/list")}, {Call(tool, 2)}, {Asks("tools/list"), Call(tool, 1)},
                {Asks("prompts/list")}, {Asks("odd"), Call(tool, 1)}}
LogBatches == {{Asks("tools/list"), Call(tool, 1), Call(other, 2)}, {Call(tool, 1), Call(other, 1)},
               {Call(tool, 1), Call(other, 2)}, {Asks("resources/read"), Call(tool, 2)}}
MCBatches == ListBatches \union LogBatches
MCSettings == {[off |-> {}, defaultOn |-> TRUE], [off |-> {tool}, defaultOn |-> FALSE]}

OfBoth == tool :> "plain" @@ other :> "plain" @@ odd :> "absent"
MCOffers == {tool :> "plain" @@ other :> "absent" @@ odd :> "absent",
             tool :> "runs" @@ other :> "absent" @@ odd :> "plain",
             OfBoth}

\* bound: an app that has both tools keeps them, for two requests of batches of calls;
\* one that has not answers its calls and asks nothing of its own.
OneKind ==
    LET batches == {exch'[x].batch : x \in Exchanges} \ {{}}
        replies == UNION {exch'[x].replies : x \in Exchanges}
    IN IF app = OfBoth
       THEN app' = app /\ batches \subseteq LogBatches /\ count'.requests <= 2
       ELSE /\ app' # OfBoth /\ batches \subseteq ListBatches
            /\ \A r \in replies : r[1].method # "question" /\ r[2] \in {"ok", "none"}

MCSymmetry == Permutations(Exchanges)
=============================================================================
