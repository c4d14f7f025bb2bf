-------------------------------- MODULE MCGoalRun --------------------------------
(***************************************************************************)
(* A small instance of GoalRun for TLC.                                    *)
(***************************************************************************)
EXTENDS GoalRun, TLC

CONSTANTS p1, p2, w1, w2, b1, b2

\* Two processes, two workers and two batches are alike.
Alike == Permutations({p1, p2}) \cup Permutations({w1, w2}) \cup Permutations({b1, b2})
================================================================================
