----------------------------- MODULE MCMemoryBudget -----------------------------
(***************************************************************************)
(* Small instances of MemoryBudget for TLC.                                *)
(***************************************************************************)
EXTENDS MemoryBudget, TLC

CONSTANTS a, b

Symmetry == Permutations(Owners)
================================================================================
