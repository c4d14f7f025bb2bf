------------------------------ MODULE MCAppServer ------------------------------
(***************************************************************************)
(* Small instances of AppServer for TLC.                                   *)
(***************************************************************************)
EXTENDS AppServer, TLC

CONSTANTS c1, c2

Symmetry == Permutations(Clients)
================================================================================
