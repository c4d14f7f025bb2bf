-------------------------------- MODULE LiveTurn --------------------------------
(***************************************************************************)
(* What the daemon and its clients rely on of a registered turn, whatever  *)
(* goes on inside: it does work step by step (model calls, tools), accepts *)
(* a stop until it is recorded, begins little more once it was stopped,    *)
(* says that it was cancelled only if somebody stopped it, and ends.       *)
(***************************************************************************)
EXTENDS Naturals

CONSTANT WorkAfterStop   \* pieces of work that may still begin after a stop

VARIABLES
  phase,     \* "running", "ended" or "recorded"
  outcome,   \* how it ended
  stopped,   \* a stop was accepted
  late       \* pieces of work begun since

turnVars == <<phase, outcome, stopped, late>>

TurnOutcomes == {"completed", "human_input_required", "provider_error", "failed", "cancelled"}

TurnInit ==
  /\ phase = "running"
  /\ outcome = "active"
  /\ stopped = FALSE
  /\ late = 0

\* turn/interrupt is accepted while the turn is registered.
Stop ==
  /\ phase # "recorded"
  /\ stopped' = TRUE
  /\ UNCHANGED <<phase, outcome, late>>

BeginWork ==
  /\ phase = "running"
  /\ stopped
  /\ late < WorkAfterStop
  /\ late' = late + 1
  /\ UNCHANGED <<phase, outcome, stopped>>

\* Work may fail in the step that begins it.
End ==
  /\ phase = "running"
  /\ phase' = "ended"
  /\ outcome' \in TurnOutcomes
  /\ outcome' = "cancelled" => stopped
  /\ UNCHANGED <<stopped, late>>

Recorded ==
  /\ phase = "ended"
  /\ phase' = "recorded"
  /\ UNCHANGED <<outcome, stopped, late>>

TurnNext == Stop \/ BeginWork \/ End \/ Recorded

TurnSpec == TurnInit /\ [][TurnNext]_turnVars /\ WF_turnVars(End \/ Recorded)
================================================================================
