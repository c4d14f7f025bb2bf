------------------------------ MODULE MCSkillFiles ------------------------------
(***************************************************************************)
(* Small instances of SkillFiles for TLC.                                  *)
(***************************************************************************)
EXTENDS SkillFiles

\* What no benchmark decides is solidified and evolved in the same way as what
\* passed it, and both kinds of retirement write alike.
Asked == {[op |-> "solidify", gate |-> TRUE], [op |-> "retired", gate |-> FALSE],
          [op |-> "rollback", gate |-> FALSE], [op |-> "evolve", gate |-> TRUE]}
Alike == Permutations(Commands)
================================================================================
