-------------------------------- MODULE GoalRun --------------------------------
(***************************************************************************)
(* The goal commands (cli_goal.rs) over the two files of a goal: the goal  *)
(* run (goal_run.rs), written by plan, checkpoint and status, and the      *)
(* dispatch manifest (goal_dispatch.rs), written by dispatch after the     *)
(* dispatches of its batch are in the queue, and read by collect.  Every   *)
(* command is a process of its own; the goal run is loaded, changed and    *)
(* written in place by fs::write, which truncates the file and then fills  *)
(* it, without a lock.                                                     *)
(***************************************************************************)
EXTENDS Naturals, Sequences

CONSTANTS
  Procs,        \* processes that run goal commands for this goal
  Workers,      \* worker ids of its plan
  Batches,      \* bound: dispatch tokens that `goal dispatch` may draw
  Ids,          \* checkpoint ids a user gives
  Keys,         \* what a manual checkpoint tells: its blocker key or notes
  MaxRepeated,  \* convergence_policy.max_repeated_blockers
  NoBatch,
  NoCheckpoint,
  MaxCrashes    \* bound: commands that die or whose write fails

ASSUME GoalRunAssumption ==
  /\ NoBatch \notin Batches
  /\ Keys \cap Batches = {}
  /\ MaxRepeated \in Nat
  /\ MaxCrashes \in Nat

Statuses == {"active", "complete", "blocked"}
\* What tells one checkpoint from another; a collected one tells its batch.
Checkpoints == [id : Ids, key : Keys \cup Batches]
GoalRuns == [status : Statuses, log : Seq(Checkpoints)]
Forms == {"absent", "empty", "torn", "whole"}
BatchRuns == Batches \X Workers

VARIABLES
  form,      \* of the goal file: only a whole one can be parsed
  goal,      \* what a whole one says
  manForm,   \* of the manifest file
  manifest,  \* the batch a whole one names
  queued,    \* runs whose dispatch is in the queue
  report,    \* per run: accepted, or none that a collect counts: missing or refused
  accepted,  \* history: runs that had an accepted report at some time
  exhausted, \* budget_state() = Exhausted
  drawn,     \* dispatch tokens already drawn
  crashes,   \* commands that died so far, up to MaxCrashes
  pc,        \* where each command stands
  want,      \* the checkpoint it is about to record
  batch,     \* the batch it collects or publishes
  counted,   \* workers whose reports the collect has read and counts
  copy,      \* the goal run it is about to write
  acked,     \* history: checkpoint ids whose receipt was printed
  decided,   \* history: whether `goal status` has reported success
  raced      \* history: whether two commands held copies to write at once

goalFile == <<form, goal>>
manifestFile == <<manForm, manifest>>
world == <<report, accepted, exhausted>>
locals == <<pc, want, batch, counted, copy>>
history == <<acked, decided, raced>>
vars == <<form, goal, manForm, manifest, queued, report, accepted, exhausted, drawn,
          crashes, pc, want, batch, counted, copy, acked, decided, raced>>

NewGoal == [status |-> "active", log |-> <<>>]

Init ==
  /\ form = "absent"
  /\ goal = NewGoal
  /\ manForm = "absent"
  /\ manifest = NoBatch
  /\ queued = {}
  /\ report = [r \in BatchRuns |-> "none"]
  /\ accepted = {}
  /\ exhausted = FALSE
  /\ drawn = {}
  /\ crashes = 0
  /\ pc = [p \in Procs |-> "idle"]
  /\ want = [p \in Procs |-> NoCheckpoint]
  /\ batch = [p \in Procs |-> NoBatch]
  /\ counted = [p \in Procs |-> {}]
  /\ copy = [p \in Procs |-> NewGoal]
  /\ acked = {}
  /\ decided = FALSE
  /\ raced = FALSE

IdsOf(log) == {log[i].id : i \in DOMAIN log}

\* enforce_convergence_gate: the last checkpoints that tell the same.
RepeatedAtLeast(log, n) ==
  /\ log # <<>>
  /\ n <= Len(log)
  /\ \A i \in Len(log) - n + 1 .. Len(log) : log[i].key = log[Len(log)].key

ConvergenceBlocked(log) == MaxRepeated > 0 /\ RepeatedAtLeast(log, MaxRepeated)

Holding == {"writing", "filling"}

Goto(p, where) == pc' = [pc EXCEPT ![p] = where]

Return(p) ==
  /\ Goto(p, "idle")
  /\ want' = [want EXCEPT ![p] = NoCheckpoint]
  /\ batch' = [batch EXCEPT ![p] = NoBatch]
  /\ counted' = [counted EXCEPT ![p] = {}]
  /\ copy' = [copy EXCEPT ![p] = NewGoal]

\* The command has a goal run in hand and will write it.
HoldCopy(p, run) ==
  /\ Goto(p, "writing")
  /\ copy' = [copy EXCEPT ![p] = run]
  /\ raced' = (raced \/ \E q \in Procs \ {p} : pc[q] \in Holding)

--------------------------------------------------------------------------------
\* `goal plan`: GoalRunStore::create, which looks only whether the path exists.
CreateAllowed == form = "absent"

Plan(p) ==
  /\ pc[p] = "idle"
  /\ CreateAllowed
  /\ HoldCopy(p, NewGoal)
  /\ UNCHANGED <<goalFile, manifestFile, queued, world, drawn, crashes, want, batch,
                 counted, acked, decided>>

\* `goal checkpoint`, manual: the goal is loaded for its evidence plan.
ManualCheckpoint(p) ==
  /\ pc[p] = "idle"
  /\ form = "whole"
  /\ \E id \in Ids, key \in Keys :
       want' = [want EXCEPT ![p] = [id |-> id, key |-> key]]
  /\ Goto(p, "record")
  /\ UNCHANGED <<goalFile, manifestFile, queued, world, drawn, crashes, batch, counted, copy,
                 history>>

MayCollect == form = "whole" /\ manForm = "whole"

\* `goal checkpoint --from-collect`: goal and manifest are loaded.
BeginCollect(p) ==
  /\ pc[p] = "idle"
  /\ MayCollect
  /\ \E id \in Ids : want' = [want EXCEPT ![p] = [id |-> id, key |-> manifest]]
  /\ batch' = [batch EXCEPT ![p] = manifest]
  /\ Goto(p, "collect")
  /\ UNCHANGED <<goalFile, manifestFile, queued, world, drawn, crashes, counted, copy, history>>

\* accepted: a report with a status that the collect counts.
Counts(r) == report[r] = "accepted"

\* The reports are read one after the other, while workers write theirs.
ReadReport(p) ==
  /\ pc[p] = "collect"
  /\ \E w \in Workers \ counted[p] :
       /\ Counts(<<batch[p], w>>)
       /\ counted' = [counted EXCEPT ![p] = @ \cup {w}]
  /\ UNCHANGED <<goalFile, manifestFile, queued, world, drawn, crashes, pc, want, batch, copy,
                 history>>

\* Mutant: one report that counts is enough.
ReadyToCheckpoint_Any(p) == counted[p] # {}

\* ready_to_checkpoint: every report of the manifest counts ...
ReadyToCheckpoint(p) == counted[p] = Workers

\* ... and the acceptance checks, which run after the reports were read, pass.
Collect(p) ==
  /\ pc[p] = "collect"
  /\ ReadyToCheckpoint(p)
  /\ counted' = [counted EXCEPT ![p] = {}]
  /\ Goto(p, "record")
  /\ UNCHANGED <<goalFile, manifestFile, queued, world, drawn, crashes, want, batch, copy,
                 history>>

\* A report is missing or refused, or an acceptance check fails.
NotReady(p) ==
  /\ pc[p] = "collect"
  /\ Return(p)
  /\ UNCHANGED <<goalFile, manifestFile, queued, world, drawn, crashes, history>>

\* GoalRunStore::record_checkpoint loads the goal once more.
\* Mutant: a checkpoint id may be used again.
MayRecord_AnyId(run, checkpoint) == TRUE
MayRecord(run, checkpoint) == checkpoint.id \notin IdsOf(run.log)

Recorded(run, checkpoint) == [run EXCEPT !.log = Append(@, checkpoint)]

Record(p) ==
  /\ pc[p] = "record"
  /\ form = "whole"
  /\ MayRecord(goal, want[p])
  /\ HoldCopy(p, Recorded(goal, want[p]))
  /\ UNCHANGED <<goalFile, manifestFile, queued, world, drawn, crashes, want, batch,
                 counted, acked, decided>>

RecordRefused(p) ==
  /\ pc[p] = "record"
  /\ form # "whole" \/ ~MayRecord(goal, want[p])
  /\ Return(p)
  /\ UNCHANGED <<goalFile, manifestFile, queued, world, drawn, crashes, history>>

\* `goal status --status`: apply_model_control_status.
\* Mutant: active is not reserved to the system.
ControlStatuses_All == Statuses
ControlStatuses == Statuses \ {"active"}

MayMarkComplete(run) == ~exhausted /\ ~ConvergenceBlocked(run.log)

SetStatus(p) ==
  /\ pc[p] = "idle"
  /\ form = "whole"
  /\ \E status \in ControlStatuses :
       /\ status = "complete" => MayMarkComplete(goal)
       /\ HoldCopy(p, [goal EXCEPT !.status = status])
  /\ UNCHANGED <<goalFile, manifestFile, queued, world, drawn, crashes, want, batch,
                 counted, acked, decided>>

\* Mutant: the text is rendered, and may be refused, after the file was opened.
Truncate_RenderLate(p) ==
  /\ pc[p] = "writing"
  /\ form' = "empty"
  /\ goal' = NewGoal
  /\ \/ Goto(p, "filling") /\ UNCHANGED <<want, batch, counted, copy>>
     \/ Return(p)
  /\ UNCHANGED <<manifestFile, queued, world, drawn, crashes, history>>

\* write_run: fs::write opens the file with truncation ...
Truncate(p) ==
  /\ pc[p] = "writing"
  /\ form' = "empty"
  /\ goal' = NewGoal
  /\ Goto(p, "filling")
  /\ UNCHANGED <<manifestFile, queued, world, drawn, crashes, want, batch, counted, copy, history>>

Receipt(p) ==
  /\ acked' = IF want[p] = NoCheckpoint THEN acked ELSE acked \cup {want[p].id}
  /\ decided' = (decided \/ (want[p] = NoCheckpoint /\ copy[p].status # "active"))
  /\ raced' = raced

\* ... and writes from its start: over what another command has filled in since,
\* whose end may stay behind the new text.
Fill(p) ==
  /\ pc[p] = "filling"
  /\ \/ form' = "whole" /\ goal' = copy[p]
     \/ form # "empty" /\ form' = "torn" /\ goal' = NewGoal
  /\ Return(p)
  /\ Receipt(p)
  /\ UNCHANGED <<manifestFile, queued, world, drawn, crashes>>

\* `goal dispatch`: within the budget, every run id carries a fresh token.
Dispatch(p) ==
  /\ pc[p] = "idle"
  /\ form = "whole"
  /\ ~exhausted
  /\ \E b \in Batches \ drawn :
       /\ drawn' = drawn \cup {b}
       /\ batch' = [batch EXCEPT ![p] = b]
  /\ Goto(p, "publish")
  /\ UNCHANGED <<goalFile, manifestFile, queued, world, crashes, want, counted, copy, history>>

\* flush_pending_dispatches writes the dispatches one by one.
Publish(p) ==
  /\ pc[p] = "publish"
  /\ \E w \in Workers :
       /\ <<batch[p], w>> \notin queued
       /\ queued' = queued \cup {<<batch[p], w>>}
  /\ UNCHANGED <<goalFile, manifestFile, world, drawn, crashes, locals, history>>

\* Mutant: the manifest is written before the dispatches.
AllPublished_Early(b) == TRUE
AllPublished(b) == \A w \in Workers : <<b, w>> \in queued

TruncateManifest(p) ==
  /\ pc[p] = "publish"
  /\ AllPublished(batch[p])
  /\ manForm' = "empty"
  /\ manifest' = NoBatch
  /\ Goto(p, "manifest")
  /\ UNCHANGED <<goalFile, queued, world, drawn, crashes, want, batch, counted, copy, history>>

FillManifest(p) ==
  /\ pc[p] = "manifest"
  /\ \/ manForm' = "whole" /\ manifest' = batch[p]
     \/ manForm # "empty" /\ manForm' = "torn" /\ manifest' = NoBatch
  /\ Return(p)
  /\ UNCHANGED <<goalFile, queued, world, drawn, crashes, history>>

\* The process dies or its write fails: a file it was filling keeps a part, or
\* what it held if nothing was written yet.
Crash(p) ==
  /\ pc[p] # "idle"
  /\ crashes < MaxCrashes
  /\ crashes' = crashes + 1
  /\ \/ UNCHANGED <<goalFile, manifestFile>>
     \/ pc[p] = "filling" /\ form' = "torn" /\ goal' = NewGoal /\ UNCHANGED manifestFile
     \/ pc[p] = "manifest" /\ manForm' = "torn" /\ manifest' = NoBatch /\ UNCHANGED goalFile
  /\ Return(p)
  /\ UNCHANGED <<queued, world, drawn, history>>

\* write_report does not look whether the run is reported: a worker whose claim was
\* taken over replaces the report of the other.
Report(r) ==
  /\ r \in queued
  /\ \E outcome \in {"accepted", "none"} :
       /\ report' = [report EXCEPT ![r] = outcome]
       /\ accepted' = IF outcome = "accepted" THEN accepted \cup {r} ELSE accepted
  /\ UNCHANGED <<goalFile, manifestFile, queued, exhausted, drawn, crashes, locals, history>>

BudgetEnds ==
  /\ ~exhausted
  /\ exhausted' = TRUE
  /\ UNCHANGED <<goalFile, manifestFile, queued, report, accepted, drawn, crashes, locals, history>>

GoalCommand(p) ==
  \/ Plan(p)
  \/ ManualCheckpoint(p)
  \/ BeginCollect(p)
  \/ ReadReport(p)
  \/ Collect(p)
  \/ NotReady(p)
  \/ Record(p)
  \/ RecordRefused(p)
  \/ SetStatus(p)
  \/ Truncate(p)
  \/ Fill(p)
  \/ Dispatch(p)
  \/ Publish(p)
  \/ TruncateManifest(p)
  \/ FillManifest(p)

Next ==
  \/ \E p \in Procs : GoalCommand(p) \/ Crash(p)
  \/ \E r \in BatchRuns : Report(r)
  \/ BudgetEnds

Spec == Init /\ [][Next]_vars

--------------------------------------------------------------------------------
\* Every variable has its type.
TypeOK ==
  /\ form \in Forms
  /\ goal \in GoalRuns
  /\ manForm \in Forms
  /\ manifest \in Batches \cup {NoBatch}
  /\ queued \in SUBSET BatchRuns
  /\ report \in [BatchRuns -> {"none", "accepted"}]
  /\ accepted \in SUBSET BatchRuns
  /\ exhausted \in BOOLEAN
  /\ drawn \in SUBSET Batches
  /\ crashes \in 0 .. MaxCrashes
  /\ pc \in [Procs -> {"idle", "collect", "record", "publish", "manifest"} \cup Holding]
  /\ want \in [Procs -> Checkpoints \cup {NoCheckpoint}]
  /\ batch \in [Procs -> Batches \cup {NoBatch}]
  /\ counted \in [Procs -> SUBSET Workers]
  /\ copy \in [Procs -> GoalRuns]
  /\ acked \in SUBSET Ids
  /\ decided \in BOOLEAN
  /\ raced \in BOOLEAN

\* goal_run.rs: checkpoint_id must be unique within a goal run, whoever races.
IdsUnique ==
  form = "whole" =>
    \A i, j \in DOMAIN goal.log : goal.log[i].id = goal.log[j].id => i = j

\* A checkpoint whose receipt was printed is in every goal run that can be read,
\* unless two commands held copies of it to write at the same time.
NothingLost == form = "whole" /\ ~raced => acked \subseteq IdsOf(goal.log)

\* What `goal status` decided stands: no checkpoint makes the goal active again,
\* unless two commands raced.
DecisionStands == form = "whole" /\ ~raced /\ decided => goal.status # "active"

Unreadable == form \in {"empty", "torn"} /\ \A p \in Procs : pc[p] \notin Holding

\* A goal that can no longer be read was left so by a command that died or whose
\* write failed, or by two commands that wrote at once.
UnreadableOnlyByCrash == Unreadable => crashes > 0 \/ raced

\* What a command printed stands: checkpoints and decisions are still in the goal
\* run, and the goal run can still be read.
ReceiptsStand == NothingLost /\ DecisionStands /\ UnreadableOnlyByCrash

\* The manifest names only runs that workers can find in the queue.
ManifestDispatched == manForm = "whole" => \A w \in Workers : <<manifest, w>> \in queued

\* A checkpoint taken from a collect tells of a batch of which every worker has had an
\* accepted report, though a new dispatch replaces the manifest, and workers their
\* reports, while the reports are read one by one and until the checkpoint is recorded.
CollectedIsBacked ==
  form = "whole" =>
    \A i \in DOMAIN goal.log :
      goal.log[i].key \in Batches =>
        \A w \in Workers : <<goal.log[i].key, w>> \in accepted

================================================================================
