---------------------------- MODULE MCSubagentQueue ----------------------------
(***************************************************************************)
(* A small instance of SubagentQueue for TLC.                              *)
(***************************************************************************)
EXTENDS SubagentQueue

CONSTANTS w1, w2

TwoRuns == {1, 2}

\* One worker admits both runs, the other only the first, so that the second is
\* reached only behind the first.
EligibleSome == [w \in Workers |-> IF w = w1 THEN Runs ELSE {1}]
================================================================================
