------------------------------ MODULE MCMeter ------------------------------
(* Small budgets for the meter: every limit can be met exactly, passed by  *)
(* one, and passed by so much that the counter saturates.                  *)
EXTENDS Meter

MCLimit ==
  [c \in StreamCounter |-> CASE c = "events" -> 4
                             [] c = "nodes" -> 2
                             [] c = "scalar_bytes" -> 2
                             [] c = "documents" -> 2
                             [] OTHER -> 1]

MCOthers == {<<"events", 1>>, <<"nodes", 1>>, <<"scalar_bytes", 2>>}

MCCosts == {[nodes |-> 1, text |-> 0, height |-> 0, jump |-> 1],
            [nodes |-> 2, text |-> 1, height |-> 1, jump |-> 2],
            [nodes |-> 4, text |-> 3, height |-> 2, jump |-> 5]}
=============================================================================
