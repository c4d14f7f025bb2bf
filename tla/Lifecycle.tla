-------------------------------- MODULE Lifecycle --------------------------------
(***************************************************************************)
(* The lifecycle engine: a table of commands by states, a queue of the     *)
(* commands the present state defers, and the checkpoint file an engine is *)
(* reopened from.  The owner of the engine writes its public field `state` *)
(* when a start, pause, checkpoint, drain or restart finishes or fails.    *)
(***************************************************************************)
EXTENDS Naturals, SequencesExt

CONSTANTS
  DeferLimit,   \* DEFERRED_TIMEOUT_SECONDS, in ticks of the clock
  MaxDeferred,  \* bound on the commands that are deferred
  MaxClock,     \* bound on the clock
  MaxCrashes    \* bound on the crashes of the owner

ASSUME LifecycleAssumption ==
  /\ {MaxDeferred, MaxClock, MaxCrashes} \subseteq Nat
  /\ DeferLimit \in 1..MaxClock

VARIABLES
  engine,   \* NoEngine, or the state and the deferred commands in memory
  file,     \* NoCheckpoint, or the checkpoint on disk
  clock,
  crashes,
  log       \* history: of every deferred command its time, answer and end

engineVars == <<engine, file, clock, crashes, log>>

LifecycleState == {"Uninitialized", "Starting", "Running", "Checkpointing", "Pausing",
                   "Paused", "Draining", "Restarting", "Stopped", "Failed"}

LifecycleCommand == {"Start", "Pause", "Resume", "Checkpoint", "Drain", "Stop", "Restart"}

NoEngine == [state |-> "none", deferred |-> <<>>]
NoCheckpoint == NoEngine

Ids(e) == {e.deferred[i].id : i \in DOMAIN e.deferred}

(***************************************************************************)
(* The transition table                                                    *)
(***************************************************************************)

\* The state an accepted command leads to.
Target == [Start |-> "Starting", Pause |-> "Pausing", Resume |-> "Running",
           Checkpoint |-> "Checkpointing", Drain |-> "Draining",
           Stop |-> "Stopped", Restart |-> "Restarting"]

AcceptedIn ==
  [Start |-> {"Uninitialized", "Stopped"}, Pause |-> {"Running"}, Resume |-> {"Paused"},
   Checkpoint |-> {"Running"}, Drain |-> {"Running"},
   Stop |-> {"Uninitialized", "Running", "Pausing", "Paused", "Draining", "Failed"},
   Restart |-> {"Running", "Paused", "Stopped", "Failed"}]

DeferredIn ==
  [Start |-> {"Restarting", "Failed"}, Pause |-> {}, Resume |-> {"Starting", "Pausing"},
   Checkpoint |-> {"Draining"}, Drain |-> {"Checkpointing"},
   Stop |-> {"Starting", "Checkpointing", "Restarting"}, Restart |-> {"Uninitialized"}]

\* What evaluate answers; a no-op and a rejection both change nothing.
Effect(c, s) == IF s \in AcceptedIn[c] THEN "accepted"
                ELSE IF s \in DeferredIn[c] THEN "deferred" ELSE "unchanged"

StateAfter(c, s) == IF Effect(c, s) = "accepted" THEN Target[c] ELSE s

(***************************************************************************)
(* The operations of the engine                                            *)
(***************************************************************************)

NextId == Len(log) + 1

\* handle_command on an engine: the effect is applied, a deferred command joins the queue.
Handled(e, c) ==
  [state |-> StateAfter(c, e.state),
   deferred |-> IF Effect(c, e.state) = "deferred"
                THEN Append(e.deferred, [command |-> c, at |-> clock, id |-> NextId])
                ELSE e.deferred]

Logged(e, c, answer) ==
  IF Effect(c, e.state) = "deferred"
  THEN Append(log, [since |-> clock, answer |-> answer, end |-> "none"])
  ELSE log

\* Every deferred command of a checkpoint that was written is promised to survive.
Promised(l, e) ==
  [i \in DOMAIN l |-> IF i \in Ids(e) THEN [l[i] EXCEPT !.answer = "saved"] ELSE l[i]]

CanTake(c) ==
  /\ engine # NoEngine
  /\ Effect(c, engine.state) = "deferred" => Len(log) < MaxDeferred

HandleCommand(c) ==
  /\ CanTake(c)
  /\ engine' = Handled(engine, c)
  /\ log' = Logged(engine, c, "memory")
  /\ UNCHANGED <<file, clock, crashes>>

\* The checkpoint replaces the file in one rename.
HandleCommandPersisted(c) ==
  /\ CanTake(c)
  /\ engine' = Handled(engine, c)
  /\ file' = engine'
  /\ log' = Promised(Logged(engine, c, "memory"), engine')
  /\ UNCHANGED <<clock, crashes>>

\* Mutant: Only the state is rolled back.
RolledBack_StateOnly(before, after) == [after EXCEPT !.state = before.state]

\* The write fails before the rename: the engine is put back as it was before.
RolledBack(before, after) == before

HandleCommandUnsaved(c) ==
  /\ CanTake(c)
  /\ engine' = RolledBack(engine, Handled(engine, c))
  /\ log' = Logged(engine, c, "refused")
  /\ UNCHANGED <<file, clock, crashes>>

TimedOut(d) == clock - d.at >= DeferLimit

\* Mutant: A command that is deferred again gets the present time.
Redriven_Restamped(e, d) ==
  IF TimedOut(d) THEN e
  ELSE IF Effect(d.command, e.state) = "deferred"
       THEN [e EXCEPT !.deferred = Append(@, [d EXCEPT !.at = clock])]
       ELSE [e EXCEPT !.state = StateAfter(d.command, @)]

\* Mutant: A command that is deferred again is put in front.
Redriven_Front(e, d) ==
  IF TimedOut(d) THEN e
  ELSE IF Effect(d.command, e.state) = "deferred"
       THEN [e EXCEPT !.deferred = <<d>> \o @]
       ELSE [e EXCEPT !.state = StateAfter(d.command, @)]

\* One deferred command: dropped, deferred again with its old time, or applied.
Redriven(e, d) ==
  IF TimedOut(d) THEN e
  ELSE IF Effect(d.command, e.state) = "deferred"
       THEN [e EXCEPT !.deferred = Append(@, d)]
       ELSE [e EXCEPT !.state = StateAfter(d.command, @)]

\* The queue is emptied and its commands are evaluated in order, each in the state the
\* ones before it left behind.
Driven(e) == FoldLeft(Redriven, [e EXCEPT !.deferred = <<>>], e.deferred)

DriveDeferred ==
  /\ engine # NoEngine
  /\ engine.deferred # <<>>
  /\ engine' = Driven(engine)
  /\ log' = [i \in DOMAIN log |->
       IF i \in Ids(engine) \ Ids(engine')
       THEN [log[i] EXCEPT !.end =
               IF \E d \in ToSet(engine.deferred) : d.id = i /\ TimedOut(d) THEN "expired"
               ELSE IF clock < log[i].since + DeferLimit THEN "evaluated" ELSE "late"]
       ELSE log[i]]
  /\ UNCHANGED <<file, clock, crashes>>

\* store.replace or store.append of engine.checkpoint().
SaveCheckpoint ==
  /\ engine # NoEngine
  /\ file # engine
  /\ file' = engine
  /\ log' = Promised(log, engine)
  /\ UNCHANGED <<engine, clock, crashes>>

\* The process ends and the memory is gone.
Crash ==
  /\ engine # NoEngine
  /\ crashes < MaxCrashes
  /\ engine' = NoEngine
  /\ crashes' = crashes + 1
  /\ UNCHANGED <<file, clock, log>>

\* Mutant: The queue is not restored.
Restored_StateOnly(checkpoint) == [checkpoint EXCEPT !.deferred = <<>>]

\* A checkpoint is restored as it is; without one the owner makes a new engine.
Restored(checkpoint) == checkpoint

Reopen ==
  /\ engine = NoEngine
  /\ engine' = IF file = NoCheckpoint
               THEN [state |-> "Uninitialized", deferred |-> <<>>]
               ELSE Restored(file)
  /\ UNCHANGED <<file, clock, crashes, log>>

(***************************************************************************)
(* The owner of the engine and its clock                                   *)
(***************************************************************************)

FinishesIn ==
  [Uninitialized |-> {}, Starting |-> {"Running", "Failed"}, Running |-> {"Failed"},
   Checkpointing |-> {"Running", "Failed"}, Pausing |-> {"Paused", "Failed"}, Paused |-> {},
   Draining |-> {"Stopped", "Running", "Failed"}, Restarting |-> {"Starting", "Failed"},
   Stopped |-> {}, Failed |-> {}]

OwnerSetsState ==
  /\ engine # NoEngine
  /\ \E s \in FinishesIn[engine.state] : engine' = [engine EXCEPT !.state = s]
  /\ UNCHANGED <<file, clock, crashes, log>>

ClockTicks ==
  /\ clock < MaxClock
  /\ clock' = clock + 1
  /\ UNCHANGED <<engine, file, crashes, log>>

EngineInit ==
  /\ engine = [state |-> "Uninitialized", deferred |-> <<>>]
  /\ file = NoCheckpoint
  /\ clock = 0
  /\ crashes = 0
  /\ log = <<>>

EngineNext ==
  \/ \E c \in LifecycleCommand :
       HandleCommand(c) \/ HandleCommandPersisted(c) \/ HandleCommandUnsaved(c)
  \/ DriveDeferred
  \/ SaveCheckpoint
  \/ Crash
  \/ Reopen
  \/ OwnerSetsState
  \/ ClockTicks

EngineSpec == EngineInit /\ [][EngineNext]_engineVars

(***************************************************************************)
(* Properties                                                              *)
(***************************************************************************)

Deferral == [command : LifecycleCommand, at : 0..clock, id : DOMAIN log]
EngineOK(e) == e \in [state : LifecycleState, deferred : Seq(Deferral)]

\* Every variable has its type.
EngineTyped ==
  /\ engine = NoEngine \/ EngineOK(engine)
  /\ file = NoCheckpoint \/ EngineOK(file)
  /\ clock \in 0..MaxClock
  /\ crashes \in 0..MaxCrashes
  /\ log \in Seq([since : 0..clock, answer : {"memory", "saved", "refused"},
                  end : {"none", "evaluated", "expired", "late"}])

InOrder(e) == \A i, j \in DOMAIN e.deferred : i < j => e.deferred[i].id < e.deferred[j].id

\* The queue is first in, first out, through deferring again, rolling back and reopening.
FirstInFirstOut == InOrder(engine) /\ InOrder(file)

\* Engine, checkpoint and log are of their types and both queues in order.
EngineWellFormed == EngineTyped /\ FirstInFirstOut

\* A command that is in a checkpoint is never lost: until it was evaluated or expired it
\* is in the queue of the engine, or in the checkpoint while no engine runs.
PromisesKept ==
  \A i \in DOMAIN log :
    log[i].answer = "saved" /\ log[i].end = "none"
      => i \in Ids(IF engine = NoEngine THEN file ELSE engine)

\* A command answered with a failed save has no later effect: it is in no queue.
RefusedForgotten ==
  \A i \in DOMAIN log : log[i].answer = "refused" => i \notin Ids(engine) \cup Ids(file)

\* No command is evaluated when it was first deferred DeferLimit ago or earlier, however
\* often it was deferred again and whatever was reopened since.
NotEvaluatedLate ==
  \A i \in DOMAIN log : log[i].end # "late"

\* The answer a command was given holds: saved commands are neither lost nor
\* evaluated after their time, a refused one has no later effect.
AnswersHold == PromisesKept /\ RefusedForgotten /\ NotEvaluatedLate

\* Commands, in any number and order and straight or from the queue, never take a failed
\* engine to Running in one step, nor to Starting unless a Stop was waiting in the queue.
FailedRecovers ==
  [][engine # NoEngine /\ engine' # NoEngine /\ engine.state = "Failed" =>
       /\ engine'.state # "Running"
       /\ engine'.state = "Starting"
            => \E d \in ToSet(engine.deferred) : d.command = "Stop"]_engineVars
==================================================================================
