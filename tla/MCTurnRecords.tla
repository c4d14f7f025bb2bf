----------------------------- MODULE MCTurnRecords -----------------------------
(***************************************************************************)
(* Small instances of TurnRecords for TLC.                                 *)
(***************************************************************************)
EXTENDS TurnRecords, TLC

CONSTANTS t1, t2

\* A request for a session, with a closing word or without, for other steps.
Asks(session, closing, others) ==
  [session |-> session, record |-> FALSE, closing |-> closing, worth |-> closing,
   steps |-> {"archive", "diary"} \cup others]

\* Turns that close two sessions, turns of one session, and one of none.
MCRequests ==
  {Asks("s1", TRUE, {}), Asks("s2", TRUE, {}), Asks("s1", FALSE, {"identity", "dispatch"}),
   [session |-> "s1", record |-> TRUE, closing |-> FALSE, worth |-> FALSE,
    steps |-> {"experience", "dispatch"}]}

Symmetry == Permutations({t1, t2})
================================================================================
