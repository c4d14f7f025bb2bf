-------------------------------- MODULE ToolLoop --------------------------------
(***************************************************************************)
(* The tool loop of a turn (run_governed_turn_with_tools_live): the model  *)
(* is called, its output parsed, a tool run, and so on for a bounded       *)
(* number of rounds.  Clients of the daemon append guidance and stops to a *)
(* file while the turn is registered; the loop reads it at its safe points.*)
(* Each reading of the file, each model call and each tool is a step.      *)
(*                                                                         *)
(* A model answers what it likes; a tool ends as it likes.  The text of    *)
(* prompts, answers and events is left out.                                *)
(***************************************************************************)
EXTENDS Naturals, Sequences, SequencesExt

CONSTANTS
  MaxToolRounds,     \* tool_loop.max_rounds
  MaxModelRetries,   \* MAX_MODEL_AUTO_RETRIES
  MaxNotes           \* bound: controls sent by clients

ASSUME ToolLoopAssumption ==
  /\ MaxToolRounds \in Nat
  /\ MaxModelRetries \in Nat
  /\ MaxNotes \in Nat

\* What the task is recognised to need before an answer counts
\* (should_require_action_for_local_task, should_require_spawn_subagent).
Needs == {"nothing", "action", "spawn"}

\* parse_tool_model_output; of the plain texts, those that look like a tool call
\* (looks_like_tool_intent) and the report of a transient failure are told apart.
TextOutputs == {"plain", "intent", "transient"}
Outputs == TextOutputs \cup {"final", "tool", "spawn", "malformed", "truncated"}

\* action_json_truncated, provider_failure_is_retryable: an ACTION cut off in
\* transit and the report of a transient failure, which otherwise parse as a
\* protocol error and as plain text.
Retryable == {"transient", "truncated"}

\* A tool fails if its record belongs to a class of terminal_tool_failure.
ToolOutcomes == {"ok", "failed", "pending_approval", "human_input_required"}

\* tool_loop_status and the ways out that have none.
Results == {"answer", "implicit_answer", "answer_after_limit", "missing_action", "missing_spawn",
            "terminal_failure", "exhausted", "provider_error", "human_input_required",
            "cancelled", "failed"}

Places == {"start", "check_model", "read_guidance", "model", "check_output", "check_tool",
           "start_tool", "tool", "check_record", "out_of_rounds", "last_guidance",
           "check_final", "start_final", "final_model", "done", "recorded"}

VARIABLES
  need,      \* what the task needs
  observe,   \* whether the screen is looked at before the first model call
  pc,
  round,     \* round_index + 1
  retries,   \* model_retry_count
  output,    \* the model's output of this round
  record,    \* the outcome of the tool of this round
  calls,     \* tool_calls: tool, round and outcome
  plain,     \* round of last_plain_text_answer
  notes,     \* the guidance file: what was written, and in which round
  cursor,    \* live_guidance_cursor
  injected,  \* the notes put before the model
  result,
  late       \* history: model calls and tools begun after a stop was accepted

loopVars == <<need, observe, pc, round, retries, output, record, calls, plain, cursor, injected,
              result, late>>
vars == <<need, observe, pc, round, retries, output, record, calls, plain, notes, cursor,
          injected, result, late>>

Init ==
  /\ need \in Needs
  /\ observe \in BOOLEAN
  /\ pc = "start"
  /\ round = 0
  /\ retries = 0
  /\ output = "plain"
  /\ record = "ok"
  /\ calls = <<>>
  /\ plain = 0
  /\ notes = <<>>
  /\ cursor = 0
  /\ injected = <<>>
  /\ result = "none"
  /\ late = [models |-> 0, tools |-> 0]

--------------------------------------------------------------------------------
StopRequested == \E i \in DOMAIN notes : notes[i].text = "stop"

HasCalled(tool) == \E i \in DOMAIN calls : calls[i].tool = tool

LateModel == late' = IF StopRequested THEN [late EXCEPT !.models = @ + 1] ELSE late
LateTool == late' = IF StopRequested THEN [late EXCEPT !.tools = @ + 1] ELSE late

Finish(how) == pc' = "done" /\ result' = how

\* ensure_turn_not_cancelled: the whole file is searched, whatever was read of
\* it before.
\* Mutant: only what has not been injected yet is searched.
StopSeen_Unread == \E i \in cursor + 1 .. Len(notes) : notes[i].text = "stop"
\* Mutant: any control stops the turn.
StopSeen_Any == notes # <<>>
StopSeen == StopRequested

Cancelled ==
  /\ StopSeen
  /\ Finish("cancelled")
  /\ UNCHANGED <<need, observe, round, retries, output, record, calls, plain, cursor, injected, late>>

\* The loop goes on to the next round, if there is one.
NextRound ==
  /\ IF round < MaxToolRounds
     THEN pc' = "check_model" /\ round' = round + 1 /\ retries' = 0
     ELSE pc' = "out_of_rounds" /\ UNCHANGED <<round, retries>>
  /\ UNCHANGED result

\* execute_or_reject fails, a file cannot be read or written, the kernel
\* refuses: the turn fails wherever it does such a thing.
Fail ==
  /\ pc \in {"start", "read_guidance", "model", "tool", "check_record", "last_guidance"}
  /\ Finish("failed")
  /\ UNCHANGED <<need, observe, round, retries, output, record, calls, plain, cursor, injected,
                 late, notes>>

\* A task about what is on the screen begins with a locate of its own.
Begin ==
  /\ pc = "start"
  /\ IF observe
     THEN \E o \in {"ok", "failed"} :
            calls' = Append(calls, [tool |-> "locate", round |-> 0, outcome |-> o])
     ELSE UNCHANGED calls
  /\ NextRound
  /\ UNCHANGED <<need, observe, output, record, plain, notes, cursor, injected, late>>

CheckModel ==
  /\ pc = "check_model"
  /\ \/ Cancelled
     \/ /\ ~StopSeen
        /\ pc' = "read_guidance"
        /\ UNCHANGED <<need, observe, round, retries, output, record, calls, plain, cursor,
                       injected, result, late>>
  /\ UNCHANGED notes

\* read_new_live_guidance
\* Mutant: the cursor moves past one note at a time.
NewCursor_Next == IF cursor < Len(notes) THEN cursor + 1 ELSE cursor
NewCursor == Len(notes)

ReadNotes ==
  /\ injected' = injected \o SubSeq(notes, cursor + 1, Len(notes))
  /\ cursor' = NewCursor

ReadGuidance ==
  /\ pc = "read_guidance"
  /\ ReadNotes
  /\ pc' = "model"
  /\ LateModel
  /\ UNCHANGED <<need, observe, round, retries, output, record, calls, plain, notes, result>>

MayRetry(o) == calls = <<>> /\ o \in Retryable /\ retries < MaxModelRetries

\* The model is called again at once, with no look at the guidance file.
ModelRetried ==
  /\ pc = "model"
  /\ \E o \in Outputs : MayRetry(o)
  /\ retries' = retries + 1
  /\ LateModel
  /\ UNCHANGED <<need, observe, pc, round, output, record, calls, plain, notes, cursor, injected,
                 result>>

\* The retries are used up and the provider still fails.
ProviderFails ==
  /\ pc = "model"
  /\ retries > 0
  /\ ~MayRetry("transient")
  /\ Finish("provider_error")
  /\ UNCHANGED <<need, observe, round, retries, output, record, calls, plain, notes, cursor,
                 injected, late>>

ModelReturns ==
  /\ pc = "model"
  /\ \E o \in Outputs :
       /\ ~MayRetry(o)
       /\ ~(retries > 0 /\ o = "transient")
       /\ output' = o
  /\ pc' = "check_output"
  /\ UNCHANGED <<need, observe, round, retries, record, calls, plain, notes, cursor, injected,
                 result, late>>

--------------------------------------------------------------------------------
\* The branches on the output stand behind the stop check that follows it.
Unstopped == pc = "check_output" /\ ~StopSeen

CheckOutput ==
  /\ pc = "check_output"
  /\ Cancelled
  /\ UNCHANGED notes

MissingSpawn == need = "spawn" /\ ~HasCalled("spawn")
MissingAction == need # "nothing" /\ calls = <<>>

FinalAnswer ==
  /\ Unstopped
  /\ output = "final"
  /\ IF MissingSpawn \/ MissingAction THEN NextRound
     ELSE Finish("answer") /\ UNCHANGED <<round, retries>>
  /\ UNCHANGED <<need, observe, output, record, calls, plain, notes, cursor, injected, late>>

\* Text is an answer in the first round, before any tool, and is otherwise kept
\* in case that the rounds run out.
PlainText ==
  /\ Unstopped
  /\ output \in TextOutputs
  /\ LET unverified == \/ MissingSpawn
                       \/ MissingAction
                       \/ output = "intent" /\ calls = <<>>
     IN IF calls = <<>> /\ round = 1 /\ ~unverified
        THEN Finish("answer") /\ UNCHANGED <<round, retries, plain>>
        ELSE /\ plain' = IF unverified THEN plain ELSE round
             /\ NextRound
  /\ UNCHANGED <<need, observe, output, record, calls, notes, cursor, injected, late>>

\* Mutant: a protocol error does not use up its round.
ProtocolError_Free ==
  /\ Unstopped
  /\ output \in {"malformed", "truncated"}
  /\ pc' = "check_model"
  /\ retries' = 0
  /\ UNCHANGED <<need, observe, round, output, record, calls, plain, notes, cursor, injected,
                 result, late>>
ProtocolError ==
  /\ Unstopped
  /\ output \in {"malformed", "truncated"}
  /\ NextRound
  /\ UNCHANGED <<need, observe, output, record, calls, plain, notes, cursor, injected, late>>

ToolCall ==
  /\ Unstopped
  /\ output \in {"tool", "spawn"}
  /\ pc' = "check_tool"
  /\ UNCHANGED <<need, observe, round, retries, output, record, calls, plain, notes, cursor,
                 injected, result, late>>

CheckTool ==
  /\ pc = "check_tool"
  /\ \/ Cancelled
     \/ /\ ~StopSeen
        /\ pc' = "start_tool"
        /\ UNCHANGED <<need, observe, round, retries, output, record, calls, plain, cursor,
                       injected, result, late>>
  /\ UNCHANGED notes

StartTool ==
  /\ pc = "start_tool"
  /\ pc' = "tool"
  /\ LateTool
  /\ UNCHANGED <<need, observe, round, retries, output, record, calls, plain, notes, cursor,
                 injected, result>>

ToolEnds ==
  /\ pc = "tool"
  /\ record' \in ToolOutcomes
  /\ pc' = "check_record"
  /\ UNCHANGED <<need, observe, round, retries, output, calls, plain, notes, cursor, injected,
                 result, late>>

\* A tool that needs an approval or an answer of the operator ends the turn.
RecordTool ==
  /\ pc = "check_record"
  /\ \/ Cancelled
     \/ /\ ~StopSeen
        /\ calls' = Append(calls, [tool |-> output, round |-> round, outcome |-> record])
        /\ IF record \in {"pending_approval", "human_input_required"}
           THEN Finish("human_input_required") /\ UNCHANGED <<round, retries>>
           ELSE NextRound
        /\ UNCHANGED <<need, observe, output, record, plain, cursor, injected, late>>
  /\ UNCHANGED notes

--------------------------------------------------------------------------------
\* After the last round.
\* Mutant: the demands on the answer are forgotten with the rounds.
Demanded_Forgotten == FALSE
Demanded == MissingSpawn \/ MissingAction

LastCallFailed == calls # <<>> /\ Last(calls).outcome = "failed"

OutOfRounds ==
  /\ pc = "out_of_rounds"
  /\ \/ round = 0 /\ Finish("failed")
     \/ round > 0 /\ Demanded /\ Finish(IF MissingSpawn THEN "missing_spawn" ELSE "missing_action")
     \/ round > 0 /\ ~Demanded /\ plain # 0 /\ Finish("implicit_answer")
     \/ round > 0 /\ ~Demanded /\ plain = 0 /\ LastCallFailed /\ Finish("terminal_failure")
     \/ /\ round > 0 /\ ~Demanded /\ plain = 0 /\ ~LastCallFailed
        /\ pc' = "last_guidance"
        /\ UNCHANGED result
  /\ UNCHANGED <<need, observe, round, retries, output, record, calls, plain, notes, cursor,
                 injected, late>>

LastGuidance ==
  /\ pc = "last_guidance"
  /\ ReadNotes
  /\ pc' = "check_final"
  /\ UNCHANGED <<need, observe, round, retries, output, record, calls, plain, notes, result, late>>

CheckFinal ==
  /\ pc = "check_final"
  /\ \/ Cancelled
     \/ /\ ~StopSeen
        /\ pc' = "start_final"
        /\ UNCHANGED <<need, observe, round, retries, output, record, calls, plain, cursor,
                       injected, result, late>>
  /\ UNCHANGED notes

\* attempt_tool_loop_finalization: one more call, whose tool calls are refused.
StartFinal ==
  /\ pc = "start_final"
  /\ pc' = "final_model"
  /\ LateModel
  /\ UNCHANGED <<need, observe, round, retries, output, record, calls, plain, notes, cursor,
                 injected, result>>

FinalModel ==
  /\ pc = "final_model"
  /\ \E o \in Outputs \cup {"empty", "error"} :
       Finish(IF o \in TextOutputs \cup {"final"} THEN "answer_after_limit" ELSE "exhausted")
  /\ UNCHANGED <<need, observe, round, retries, output, record, calls, plain, notes, cursor,
                 injected, late>>

\* The daemon records the turn and unregisters it.
Record ==
  /\ pc = "done"
  /\ pc' = "recorded"
  /\ UNCHANGED <<need, observe, round, retries, output, record, calls, plain, notes, cursor,
                 injected, result, late>>

\* turn/guidance, turn/interrupt: accepted while the turn is registered.
Control ==
  /\ pc # "recorded"
  /\ Len(notes) < MaxNotes
  /\ \E text \in {"guidance", "stop"} :
       notes' = Append(notes, [text |-> text, round |-> round])
  /\ UNCHANGED loopVars

Step ==
  \/ Fail \/ Begin \/ CheckModel \/ ReadGuidance \/ ModelRetried \/ ProviderFails
  \/ ModelReturns \/ CheckOutput \/ FinalAnswer \/ PlainText \/ ProtocolError \/ ToolCall
  \/ CheckTool \/ StartTool \/ ToolEnds \/ RecordTool \/ OutOfRounds \/ LastGuidance
  \/ CheckFinal \/ StartFinal \/ FinalModel \/ Record

Next == Step \/ Control

Spec == Init /\ [][Next]_vars

\* Model calls and tools have timeouts: the loop goes on.
FairSpec == Spec /\ WF_vars(Step)
--------------------------------------------------------------------------------
Note == [text : {"guidance", "stop"}, round : 0 .. MaxToolRounds]
Call == [tool : {"locate", "tool", "spawn"}, round : 0 .. MaxToolRounds, outcome : ToolOutcomes]

\* Every variable has its type; the cursor never passes the end of the guidance file.
TypeOK ==
  /\ need \in Needs
  /\ observe \in BOOLEAN
  /\ pc \in Places
  /\ round \in 0 .. MaxToolRounds
  /\ retries \in 0 .. MaxModelRetries
  /\ output \in Outputs
  /\ record \in ToolOutcomes
  /\ calls \in Seq(Call)
  /\ plain \in 0 .. MaxToolRounds
  /\ notes \in Seq(Note)
  /\ cursor \in 0 .. Len(notes)
  /\ injected \in Seq(Note)
  /\ result \in Results \cup {"none"}
  /\ late \in [models : Nat, tools : Nat]

\* Once a stop is accepted at most one tool begins, or else the model call at
\* hand and its retries: never a tool and a model call, never a second round.
StopTakesEffect ==
  /\ late.tools <= 1
  /\ late.models <= 1 + MaxModelRetries
  /\ late.tools = 0 \/ late.models = 0

\* Every note is put before the model once and in order, and at the latest with
\* the first model call of the round after the one in which it was accepted.
GuidanceReachesModel ==
  /\ injected = SubSeq(notes, 1, cursor)
  /\ pc = "model" => \A i \in DOMAIN notes : notes[i].round < round => i <= cursor

\* No way out of the loop, the fallbacks after the last round included, passes
\* on an answer to a task that needed a tool or a subagent and did not get it.
AnswersAreVerified ==
  result \in {"answer", "implicit_answer", "answer_after_limit"} =>
    /\ need # "nothing" => calls # <<>>
    /\ need = "spawn" => \E i \in DOMAIN calls : calls[i].tool = "spawn"

\* How far it is, how it ended and whether it was stopped is all that is visible.
Turn == INSTANCE LiveTurn WITH
  WorkAfterStop <- 1 + MaxModelRetries,
  phase <- IF pc = "recorded" THEN "recorded" ELSE IF pc = "done" THEN "ended" ELSE "running",
  outcome <- CASE result = "none" -> "active"
               [] result \in {"provider_error", "human_input_required", "cancelled", "failed"} -> result
               [] OTHER -> "completed",
  stopped <- StopRequested,
  late <- late.models + late.tools

\* With its retries as the work left after a stop, the loop is a LiveTurn: what the
\* daemon and its clients rely on holds of it.
ImplementsLiveTurn == Turn!TurnSpec
================================================================================
