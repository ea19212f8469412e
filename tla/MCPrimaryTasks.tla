--------------------------- MODULE MCPrimaryTasks ---------------------------
(* Instances for TLC: two interchangeable follow-ups.                      *)
EXTENDS PrimaryTasks, TLC

CONSTANTS t1, t2

Symmetry == Permutations(Tasks)
=============================================================================
