------------------------------ MODULE MCApprovals ------------------------------
(***************************************************************************)
(* Small instances of Approvals for TLC.                                   *)
(***************************************************************************)
EXTENDS Approvals, TLC

CONSTANTS p1, p2, r1, r2

Symmetry == Permutations({p1, p2}) \cup Permutations({r1, r2})
================================================================================
