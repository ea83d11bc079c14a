-------------------------- MODULE MCPlanningBackup --------------------------
(* Instances of PlanningBackup for TLC.                                    *)
EXTENDS PlanningBackup, TLC

CONSTANTS p1, p2, k1, k2

\* Of the packages of one second and schema the one made first counts as the
\* newest.
Reversed == [x \in (1 .. Latest) \X Numbers |-> 100 * x[1] + 100 - x[2]]

CommandSymmetry == Permutations(Procs) \cup Permutations(Secrets)
=============================================================================
