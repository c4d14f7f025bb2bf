------------------------------ MODULE MCGoalRounds ------------------------------
(***************************************************************************)
(* A small instance of GoalRounds for TLC.                                 *)
(***************************************************************************)
EXTENDS GoalRounds

CONSTANT s1

ManifestRuns == {1, 2, 3}
CrashAnywhere == StepPC
================================================================================
