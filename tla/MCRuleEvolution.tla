---------------------------- MODULE MCRuleEvolution ----------------------------
(***************************************************************************)
(* Small instances of RuleEvolution for TLC.                               *)
(***************************************************************************)
EXTENDS RuleEvolution

CONSTANTS s1, s2

\* No failure; one that repeats in a turn and one that repeats from turn to turn.
Some == {<<Fine>>, <<s1, s1, s2>>}
Alike == Permutations(Turns) \cup Permutations(Rollbacks)
================================================================================
