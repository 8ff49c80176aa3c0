------------------------- MODULE MCExecutionRuntime -------------------------
(* A small instance: two requests that compete for one resource of capacity *)
(* one, a third that reuses an id of the first.                             *)
EXTENDS ExecutionRuntime

CONSTANTS g1, g2, g3, r1, r2

MCTasks == 1..3
MCGroups == {g1, g2, g3}
MCResources == {r1, r2}
MCMembers == [g \in MCGroups |-> CASE g = g1 -> {2, 3} [] g = g2 -> {1}
                                   [] g = g3 -> {2}]
MCResourceOf == [t \in MCTasks |-> IF t = 3 THEN r2 ELSE r1]
MCCapacity == [r \in MCResources |-> 1]
=============================================================================
