------------------------------ MODULE GoalProofs ------------------------------
(***************************************************************************)
(* Proofs about the commands of a goal (GoalRun) and about its steps       *)
(* (GoalRounds), which share the goal and no state of the models.          *)
(*                                                                         *)
(* The commands: for every number of processes, workers, batches and       *)
(* checkpoints.  What a written goal run says of itself and of the queue   *)
(* holds whoever races; that nothing acknowledged is lost needs commands   *)
(* of which one at a time holds a copy to write.                           *)
(*                                                                         *)
(* The steps: for every set of runs and every bound.  That the ledger      *)
(* tells the truth about reports holds for any number of steps; that       *)
(* nothing is sent twice needs steps that do not overlap.                  *)
(***************************************************************************)
EXTENDS GoalRun, GoalRounds, FiniteSetTheorems, TLAPS

--------------------------------------------------------------------------------
(* The commands of a goal. *)

\* A command knows the checkpoint it will record and the batch it works on.
JobsKnown ==
  /\ manForm = "whole" => manifest \in Batches
  /\ \A p \in Procs :
       /\ pc[p] \in {"collect", "record"} => want[p] \in Checkpoints
       /\ pc[p] \in {"publish", "manifest"} => batch[p] \in Batches
       /\ pc[p] = "collect" => batch[p] = want[p].key /\ batch[p] \in Batches

TInv == TypeOK /\ JobsKnown

UniqueIds(log) == \A i, j \in DOMAIN log : log[i].id = log[j].id => i = j

\* Nobody holds a goal run that uses a checkpoint id twice.
AllUnique == UniqueIds(goal.log) /\ \A p \in Procs : UniqueIds(copy[p].log)

\* A batch is named by a command only once it is in the queue.
NamedIsQueued ==
  /\ ManifestDispatched
  /\ \A p \in Procs : pc[p] = "manifest" => AllPublished(batch[p])

Backed(key) == key \in Batches => \A w \in Workers : <<key, w>> \in accepted
LogBacked(log) == \A i \in DOMAIN log : Backed(log[i].key)

\* What a collect counts was accepted when it was read, and belongs to its batch.
CountedInv ==
  /\ \A r \in BatchRuns : report[r] = "accepted" => r \in accepted
  /\ \A p \in Procs : \A w \in counted[p] : pc[p] = "collect" /\ <<batch[p], w>> \in accepted

\* Nobody holds, or is about to record, a collected checkpoint without reports.
AllBacked ==
  /\ LogBacked(goal.log)
  /\ \A p \in Procs : LogBacked(copy[p].log) /\ (pc[p] = "record" => Backed(want[p].key))

\* What was acknowledged is in this goal run.
Covers(run) == acked \subseteq IdsOf(run.log) /\ (decided => run.status # "active")

\* Without a race one command at most holds a copy, and it covers what was
\* acknowledged as the file does.
Serial ==
  /\ \A p \in Procs :
       pc[p] \in {"idle", "publish", "manifest"} => want[p] = NoCheckpoint
  /\ ~raced =>
       /\ form = "absent" => acked = {} /\ ~decided
       /\ form = "whole" => Covers(goal)
       /\ \A p \in Procs : pc[p] \in Holding =>
            /\ Covers(copy[p])
            /\ want[p] # NoCheckpoint => want[p].id \in IdsOf(copy[p].log)
            /\ \A q \in Procs : pc[q] \in Holding => p = q

--------------------------------------------------------------------------------

\* A goal that was just planned is a goal run.
LEMMA NewIsGoalRun == NewGoal \in GoalRuns
  BY DEF NewGoal, GoalRuns, Statuses

\* Recording a checkpoint makes a goal run whose last checkpoint it is.
LEMMA RecordedIsGoalRun ==
  ASSUME NEW run \in GoalRuns, NEW c \in Checkpoints
  PROVE  /\ Recorded(run, c) \in GoalRuns
         /\ Recorded(run, c).status = run.status
         /\ Recorded(run, c).log = Append(run.log, c)
         /\ run.log \in Seq(Checkpoints)
  BY DEF Recorded, GoalRuns

\* A command that returns leaves its own variables typed.
LEMMA ReturnTyped ==
  ASSUME TInv, NEW p \in Procs, Return(p)
  PROVE  /\ pc' \in [Procs -> {"idle", "collect", "record", "publish", "manifest"} \cup Holding]
         /\ want' \in [Procs -> Checkpoints \cup {NoCheckpoint}]
         /\ batch' \in [Procs -> Batches \cup {NoBatch}]
         /\ counted' \in [Procs -> SUBSET Workers]
         /\ copy' \in [Procs -> GoalRuns]
         /\ \A q \in Procs : q # p => pc'[q] = pc[q] /\ want'[q] = want[q] /\ batch'[q] = batch[q]
         /\ pc'[p] = "idle"
  BY NewIsGoalRun DEF TInv, TypeOK, Return, Goto

\* Holding a goal run to write leaves the command's variables typed.
LEMMA HoldTyped ==
  ASSUME TInv, NEW p \in Procs, NEW run \in GoalRuns, HoldCopy(p, run)
  PROVE  /\ pc' \in [Procs -> {"idle", "collect", "record", "publish", "manifest"} \cup Holding]
         /\ copy' \in [Procs -> GoalRuns]
         /\ raced' \in BOOLEAN
         /\ \A q \in Procs : q # p => pc'[q] = pc[q]
         /\ pc'[p] = "writing"
  BY DEF TInv, TypeOK, HoldCopy, Goto, Holding

\* Every variable has its type at the start.
LEMMA TypeInitial == Init => TInv
<1> SUFFICES ASSUME Init PROVE TInv
  OBVIOUS
<1>1. crashes \in 0 .. MaxCrashes
  BY GoalRunAssumption DEF Init
<1>2. /\ form \in Forms /\ goal \in GoalRuns /\ manForm \in Forms
      /\ manifest \in Batches \cup {NoBatch} /\ queued \in SUBSET BatchRuns
      /\ accepted \in SUBSET BatchRuns /\ exhausted \in BOOLEAN /\ drawn \in SUBSET Batches
      /\ acked \in SUBSET Ids /\ decided \in BOOLEAN /\ raced \in BOOLEAN
  BY NewIsGoalRun DEF Init, Forms
<1>3. report \in [BatchRuns -> {"none", "accepted"}]
  BY DEF Init
<1>4. /\ pc \in [Procs -> {"idle", "collect", "record", "publish", "manifest"} \cup Holding]
      /\ want \in [Procs -> Checkpoints \cup {NoCheckpoint}]
      /\ batch \in [Procs -> Batches \cup {NoBatch}]
      /\ counted \in [Procs -> SUBSET Workers]
      /\ copy \in [Procs -> GoalRuns]
  BY NewIsGoalRun DEF Init
<1>5. JobsKnown
  BY DEF Init, JobsKnown
<1> QED
  BY <1>1, <1>2, <1>3, <1>4, <1>5 DEF TInv, TypeOK

\* Every step keeps the type of every variable.
LEMMA TypeStep == TInv /\ [Next]_vars => TInv'
<1> SUFFICES ASSUME TInv, [Next]_vars PROVE TInv'
  OBVIOUS
<1> USE GoalRunAssumption DEF TInv, TypeOK, JobsKnown, goalFile, manifestFile, world, locals,
        history, Forms, Holding
<1>1. ASSUME NEW p \in Procs, GoalCommand(p) PROVE TInv'
  <2>1. CASE Plan(p)
    BY <2>1, HoldTyped, NewIsGoalRun DEF Plan
  <2>2. CASE ManualCheckpoint(p)
    BY <2>2 DEF ManualCheckpoint, Goto, Checkpoints
  <2>3. CASE BeginCollect(p)
    BY <2>3 DEF BeginCollect, MayCollect, Goto, Checkpoints
  <2>4. CASE ReadReport(p)
    <3>1. counted' \in [Procs -> SUBSET Workers]
      BY <2>4 DEF ReadReport
    <3> QED
      BY <2>4, <3>1 DEF ReadReport
  <2>15. CASE Collect(p)
    BY <2>15 DEF Collect, Goto
  <2>5. CASE NotReady(p)
    BY <2>5, ReturnTyped DEF NotReady
  <2>6. CASE Record(p)
    <3>1. Recorded(goal, want[p]) \in GoalRuns
      BY <2>6, RecordedIsGoalRun DEF Record
    <3> QED
      BY <2>6, <3>1, HoldTyped DEF Record
  <2>7. CASE RecordRefused(p)
    BY <2>7, ReturnTyped DEF RecordRefused
  <2>8. CASE SetStatus(p)
    <3>1. PICK status \in ControlStatuses : HoldCopy(p, [goal EXCEPT !.status = status])
      BY <2>8 DEF SetStatus
    <3>2. [goal EXCEPT !.status = status] \in GoalRuns
      BY DEF ControlStatuses, GoalRuns, Statuses
    <3> QED
      BY <2>8, <3>1, <3>2, HoldTyped DEF SetStatus
  <2>9. CASE Truncate(p)
    BY <2>9, NewIsGoalRun DEF Truncate, Goto
  <2>10. CASE Fill(p)
    <3>1. acked' \in SUBSET Ids /\ decided' \in BOOLEAN /\ raced' \in BOOLEAN
      BY <2>10 DEF Fill, Receipt, Checkpoints
    <3> QED
      BY <2>10, <3>1, ReturnTyped, NewIsGoalRun DEF Fill
  <2>11. CASE Dispatch(p)
    BY <2>11 DEF Dispatch, Goto
  <2>12. CASE Publish(p)
    BY <2>12 DEF Publish, BatchRuns
  <2>13. CASE TruncateManifest(p)
    BY <2>13 DEF TruncateManifest, Goto
  <2>14. CASE FillManifest(p)
    BY <2>14, ReturnTyped DEF FillManifest
  <2> QED
    BY <1>1, <2>1, <2>2, <2>3, <2>4, <2>5, <2>6, <2>7, <2>8, <2>9, <2>10, <2>11, <2>12,
       <2>13, <2>14, <2>15 DEF GoalCommand
<1>2. ASSUME NEW p \in Procs, Crash(p) PROVE TInv'
  BY <1>2, ReturnTyped, NewIsGoalRun DEF Crash
<1>3. ASSUME NEW r \in BatchRuns, Report(r) PROVE TInv'
  BY <1>3 DEF Report
<1>4. CASE BudgetEnds
  BY <1>4 DEF BudgetEnds
<1>5. CASE UNCHANGED vars
  BY <1>5 DEF vars
<1> QED
  BY <1>1, <1>2, <1>3, <1>4, <1>5 DEF Next

\* Every variable keeps its type, for every number of commands.
THEOREM TypeCorrect == Spec => []TypeOK
<1>1. TInv => TypeOK
  BY DEF TInv
<1> QED
  BY <1>1, TypeInitial, TypeStep, PTL DEF Spec

--------------------------------------------------------------------------------

\* Appending a checkpoint whose id is new keeps the ids of a log apart.
LEMMA AppendUnique ==
  ASSUME NEW run \in GoalRuns, NEW c \in Checkpoints, UniqueIds(run.log), MayRecord(run, c)
  PROVE  UniqueIds(Recorded(run, c).log)
<1>1. Recorded(run, c).log = Append(run.log, c) /\ run.log \in Seq(Checkpoints)
  BY RecordedIsGoalRun
<1>2. \A i \in DOMAIN run.log : run.log[i].id # c.id
  BY DEF MayRecord, IdsOf
<1> QED
  BY <1>1, <1>2 DEF UniqueIds

\* A goal that was just planned uses no id.
LEMMA NewUnique == UniqueIds(NewGoal.log)
  BY DEF UniqueIds, NewGoal

\* Every step keeps the checkpoint ids of every goal run apart.
LEMMA UniqueStep == TInv /\ AllUnique /\ [Next]_vars => AllUnique'
<1> SUFFICES ASSUME TInv, AllUnique, [Next]_vars PROVE AllUnique'
  OBVIOUS
<1> USE DEF AllUnique
<1> DEFINE Held == \A p \in Procs : UniqueIds(copy'[p].log)
<1>0. ASSUME NEW p \in Procs, NEW run \in GoalRuns, UniqueIds(run.log),
             copy' = [copy EXCEPT ![p] = run]
      PROVE  Held
  BY <1>0 DEF TInv, TypeOK
<1>1. ASSUME NEW p \in Procs, GoalCommand(p) PROVE AllUnique'
  <2>1. CASE Plan(p)
    BY <2>1, <1>0, NewUnique, NewIsGoalRun DEF Plan, HoldCopy, goalFile
  <2>2. CASE ManualCheckpoint(p) \/ BeginCollect(p) \/ ReadReport(p) \/ Collect(p) \/ Dispatch(p)
             \/ Publish(p) \/ TruncateManifest(p)
    BY <2>2 DEF ManualCheckpoint, BeginCollect, ReadReport, Collect, Dispatch, Publish,
                TruncateManifest, goalFile, locals
  <2>3. CASE NotReady(p) \/ RecordRefused(p) \/ FillManifest(p)
    BY <2>3, <1>0, NewUnique, NewIsGoalRun
       DEF NotReady, RecordRefused, FillManifest, Return, goalFile
  <2>4. CASE Record(p)
    <3>1. want[p] \in Checkpoints /\ goal \in GoalRuns
      BY <2>4 DEF Record, TInv, JobsKnown, TypeOK
    <3>2. Recorded(goal, want[p]) \in GoalRuns /\ UniqueIds(Recorded(goal, want[p]).log)
      BY <2>4, <3>1, AppendUnique, RecordedIsGoalRun DEF Record
    <3> QED
      BY <2>4, <3>2, <1>0 DEF Record, HoldCopy, goalFile
  <2>5. CASE SetStatus(p)
    <3>1. PICK status \in ControlStatuses : HoldCopy(p, [goal EXCEPT !.status = status])
      BY <2>5 DEF SetStatus
    <3>2. /\ [goal EXCEPT !.status = status] \in GoalRuns
          /\ [goal EXCEPT !.status = status].log = goal.log
      BY DEF TInv, TypeOK, ControlStatuses, GoalRuns, Statuses
    <3> QED
      BY <2>5, <3>1, <3>2, <1>0 DEF SetStatus, HoldCopy, goalFile
  <2>6. CASE Truncate(p)
    BY <2>6, NewUnique DEF Truncate
  <2>7. CASE Fill(p)
    BY <2>7, <1>0, NewUnique, NewIsGoalRun DEF Fill, Return
  <2> QED
    BY <1>1, <2>1, <2>2, <2>3, <2>4, <2>5, <2>6, <2>7 DEF GoalCommand
<1>2. ASSUME NEW p \in Procs, Crash(p) PROVE AllUnique'
  BY <1>2, <1>0, NewUnique, NewIsGoalRun DEF Crash, Return, goalFile
<1>3. ASSUME NEW r \in BatchRuns, Report(r) PROVE AllUnique'
  BY <1>3 DEF Report, goalFile, locals
<1>4. CASE BudgetEnds
  BY <1>4 DEF BudgetEnds, goalFile, locals
<1>5. CASE UNCHANGED vars
  BY <1>5 DEF vars
<1> QED
  BY <1>1, <1>2, <1>3, <1>4, <1>5 DEF Next

\* goal_run.rs refuses a second use of a checkpoint id; no race gets around it.
THEOREM IdsNeverRepeat == Spec => []IdsUnique
<1>1. Init => AllUnique
  BY NewUnique DEF Init, AllUnique
<1>2. AllUnique => IdsUnique
  BY DEF AllUnique, IdsUnique, UniqueIds
<1> QED
  BY <1>1, <1>2, TypeInitial, TypeStep, UniqueStep, PTL DEF Spec

--------------------------------------------------------------------------------

\* Every step names only batches that are in the queue.
LEMMA NamedStep == TInv /\ NamedIsQueued /\ [Next]_vars => NamedIsQueued'
<1> SUFFICES ASSUME TInv, NamedIsQueued, [Next]_vars PROVE NamedIsQueued'
  OBVIOUS
<1> USE DEF NamedIsQueued, ManifestDispatched, AllPublished, manifestFile, locals
<1>1. ASSUME NEW p \in Procs, GoalCommand(p) PROVE NamedIsQueued'
  <2>1. CASE Plan(p) \/ Record(p)
    BY <2>1 DEF Plan, Record, HoldCopy, Goto, TInv, TypeOK, Holding
  <2>2. CASE SetStatus(p)
    BY <2>2 DEF SetStatus, HoldCopy, Goto, TInv, TypeOK, Holding
  <2>3. CASE ManualCheckpoint(p) \/ BeginCollect(p) \/ ReadReport(p) \/ Collect(p) \/ Dispatch(p)
             \/ Truncate(p)
    BY <2>3 DEF ManualCheckpoint, BeginCollect, ReadReport, Collect, Dispatch, Truncate, Goto, TInv,
                TypeOK, Holding
  <2>4. CASE NotReady(p) \/ RecordRefused(p) \/ Fill(p)
    BY <2>4 DEF NotReady, RecordRefused, Fill, Return, Goto, TInv, TypeOK, Holding
  <2>5. CASE Publish(p)
    BY <2>5 DEF Publish
  <2>6. CASE TruncateManifest(p)
    BY <2>6 DEF TruncateManifest, Goto, TInv, TypeOK, Holding
  <2>7. CASE FillManifest(p)
    BY <2>7 DEF FillManifest, Return, Goto, TInv, TypeOK, Holding
  <2> QED
    BY <1>1, <2>1, <2>2, <2>3, <2>4, <2>5, <2>6, <2>7 DEF GoalCommand
<1>2. ASSUME NEW p \in Procs, Crash(p) PROVE NamedIsQueued'
  BY <1>2 DEF Crash, Return, Goto, TInv, TypeOK, Holding
<1>3. ASSUME NEW r \in BatchRuns, Report(r) PROVE NamedIsQueued'
  BY <1>3 DEF Report
<1>4. CASE BudgetEnds
  BY <1>4 DEF BudgetEnds
<1>5. CASE UNCHANGED vars
  BY <1>5 DEF vars
<1> QED
  BY <1>1, <1>2, <1>3, <1>4, <1>5 DEF Next

\* Whatever dies or is dispatched twice, the manifest names runs workers can find.
THEOREM ManifestIsDispatched == Spec => []ManifestDispatched
<1>1. Init => NamedIsQueued
  BY DEF Init, NamedIsQueued, ManifestDispatched
<1>2. NamedIsQueued => ManifestDispatched
  BY DEF NamedIsQueued
<1> QED
  BY <1>1, <1>2, TypeInitial, TypeStep, NamedStep, PTL DEF Spec

--------------------------------------------------------------------------------

\* Every step leaves what was counted accepted, though a report may be replaced.
LEMMA CountedStep == TInv /\ CountedInv /\ [Next]_vars => CountedInv' /\ accepted \subseteq accepted'
<1> SUFFICES ASSUME TInv, CountedInv, [Next]_vars PROVE CountedInv' /\ accepted \subseteq accepted'
  OBVIOUS
<1> USE DEF CountedInv, TInv, TypeOK, world
<1>1. ASSUME NEW p \in Procs, UNCHANGED <<report, accepted>>, counted' = [counted EXCEPT ![p] = {}],
             \A q \in Procs : q # p => pc'[q] = pc[q] /\ batch'[q] = batch[q]
      PROVE  CountedInv' /\ accepted \subseteq accepted'
  BY <1>1
<1>2. ASSUME NEW p \in Procs, UNCHANGED <<report, accepted, counted>>, pc[p] # "collect",
             \A q \in Procs : q # p => pc'[q] = pc[q] /\ batch'[q] = batch[q]
      PROVE  CountedInv' /\ accepted \subseteq accepted'
  BY <1>2
<1>3. ASSUME NEW p \in Procs, GoalCommand(p) PROVE CountedInv' /\ accepted \subseteq accepted'
  <2>1. CASE Plan(p) \/ Record(p)
    BY <2>1, <1>2 DEF Plan, Record, HoldCopy, Goto
  <2>2. CASE SetStatus(p)
    BY <2>2, <1>2 DEF SetStatus, HoldCopy, Goto
  <2>3. CASE ManualCheckpoint(p) \/ BeginCollect(p) \/ Dispatch(p)
    BY <2>3, <1>2 DEF ManualCheckpoint, BeginCollect, Dispatch, Goto
  <2>4. CASE ReadReport(p)
    <3>1. PICK w \in Workers : /\ report[<<batch[p], w>>] = "accepted"
                               /\ counted' = [counted EXCEPT ![p] = @ \cup {w}]
      BY <2>4 DEF ReadReport, Counts
    <3>2. pc[p] = "collect" /\ batch[p] \in Batches /\ UNCHANGED <<report, accepted, pc, batch>>
      BY <2>4 DEF ReadReport, JobsKnown
    <3>3. <<batch[p], w>> \in accepted
      BY <3>1, <3>2 DEF BatchRuns
    <3> QED
      BY <3>1, <3>2, <3>3
  <2>5. CASE Collect(p)
    BY <2>5, <1>1 DEF Collect, Goto
  <2>6. CASE NotReady(p) \/ RecordRefused(p) \/ Fill(p) \/ FillManifest(p)
    BY <2>6, <1>1 DEF NotReady, RecordRefused, Fill, FillManifest, Return, Goto
  <2>7. CASE Truncate(p) \/ TruncateManifest(p)
    BY <2>7, <1>2 DEF Truncate, TruncateManifest, Goto
  <2>8. CASE Publish(p)
    BY <2>8 DEF Publish, locals
  <2> QED
    BY <1>3, <2>1, <2>2, <2>3, <2>4, <2>5, <2>6, <2>7, <2>8 DEF GoalCommand
<1>4. ASSUME NEW p \in Procs, Crash(p) PROVE CountedInv' /\ accepted \subseteq accepted'
  BY <1>4, <1>1 DEF Crash, Return, Goto
<1>5. ASSUME NEW r \in BatchRuns, Report(r) PROVE CountedInv' /\ accepted \subseteq accepted'
  <2>1. PICK outcome \in {"accepted", "none"} :
          /\ report' = [report EXCEPT ![r] = outcome]
          /\ accepted' = IF outcome = "accepted" THEN accepted \cup {r} ELSE accepted
    BY <1>5 DEF Report
  <2>2. accepted \subseteq accepted' /\ (outcome = "accepted" => r \in accepted')
    BY <2>1
  <2>3. \A q \in BatchRuns : report'[q] = "accepted" => q \in accepted'
    BY <2>1, <2>2
  <2>4. UNCHANGED <<pc, batch, counted>>
    BY <1>5 DEF Report, locals
  <2> QED
    BY <2>2, <2>3, <2>4
<1>6. CASE BudgetEnds
  BY <1>6 DEF BudgetEnds, locals
<1>7. CASE UNCHANGED vars
  BY <1>7 DEF vars
<1> QED
  BY <1>3, <1>4, <1>5, <1>6, <1>7 DEF Next

\* What a log rests on stays: what was accepted once stays so.
LEMMA BackedStays ==
  ASSUME accepted \subseteq accepted', NEW key, Backed(key)
  PROVE  Backed(key)'
  BY DEF Backed

\* A goal that was just planned has no collected checkpoint.
LEMMA NewBacked == LogBacked(NewGoal.log)
  BY DEF LogBacked, NewGoal

\* Appending a backed checkpoint keeps a log backed.
LEMMA AppendBacked ==
  ASSUME NEW run \in GoalRuns, NEW c \in Checkpoints, LogBacked(run.log), Backed(c.key)
  PROVE  LogBacked(Recorded(run, c).log)
<1>1. Recorded(run, c).log = Append(run.log, c) /\ run.log \in Seq(Checkpoints)
  BY RecordedIsGoalRun
<1> QED
  BY <1>1 DEF LogBacked

\* Every step of a command leaves the reports and keeps every log backed.
LEMMA BackedCommand ==
  ASSUME TInv, CountedInv, AllBacked, NEW p \in Procs, GoalCommand(p)
  PROVE  AllBacked'
<1>1. accepted' = accepted
  BY DEF GoalCommand, Plan, ManualCheckpoint, BeginCollect, ReadReport, Collect, NotReady, Record,
         RecordRefused, SetStatus, Truncate, Fill, Dispatch, Publish, TruncateManifest,
         FillManifest, world
<1>2. SUFFICES /\ LogBacked(goal'.log)
               /\ \A q \in Procs : LogBacked(copy'[q].log)
               /\ \A q \in Procs : pc'[q] = "record" => Backed(want'[q].key)
  BY <1>1 DEF AllBacked, LogBacked, Backed
<1>3. ASSUME NEW run \in GoalRuns, LogBacked(run.log), copy' = [copy EXCEPT ![p] = run]
      PROVE  \A q \in Procs : LogBacked(copy'[q].log)
  BY <1>3 DEF TInv, TypeOK, AllBacked
<1>4. CASE Plan(p)
  BY <1>4, <1>3, NewBacked, NewIsGoalRun
     DEF Plan, HoldCopy, Goto, goalFile, AllBacked, TInv, TypeOK, Holding
<1>5. CASE ManualCheckpoint(p)
  <2>1. PICK id \in Ids, key \in Keys : want' = [want EXCEPT ![p] = [id |-> id, key |-> key]]
    BY <1>5 DEF ManualCheckpoint
  <2>2. Backed(key)
    BY GoalRunAssumption DEF Backed
  <2> QED
    BY <1>5, <2>1, <2>2 DEF ManualCheckpoint, Goto, goalFile, AllBacked, TInv, TypeOK, Holding
<1>6. CASE BeginCollect(p) \/ Dispatch(p)
  BY <1>6 DEF BeginCollect, Dispatch, Goto, goalFile, AllBacked, TInv, TypeOK, Holding
<1>7. CASE Collect(p)
  <2>1. Backed(want[p].key)
    BY <1>7 DEF Collect, ReadyToCheckpoint, CountedInv, Backed, TInv, JobsKnown
  <2> QED
    BY <1>7, <2>1 DEF Collect, Goto, goalFile, AllBacked, TInv, TypeOK, Holding
<1>8. CASE NotReady(p) \/ RecordRefused(p) \/ FillManifest(p)
  BY <1>8, <1>3, NewBacked, NewIsGoalRun
     DEF NotReady, RecordRefused, FillManifest, Return, Goto, goalFile, AllBacked, TInv, TypeOK,
         Holding
<1>9. CASE Record(p)
  <2>1. want[p] \in Checkpoints /\ goal \in GoalRuns
    BY <1>9 DEF Record, TInv, JobsKnown, TypeOK
  <2>2. Recorded(goal, want[p]) \in GoalRuns /\ LogBacked(Recorded(goal, want[p]).log)
    BY <1>9, <2>1, AppendBacked, RecordedIsGoalRun DEF Record, AllBacked
  <2> QED
    BY <1>9, <2>2, <1>3 DEF Record, HoldCopy, Goto, goalFile, AllBacked, TInv, TypeOK, Holding
<1>10. CASE SetStatus(p)
  <2>1. PICK status \in ControlStatuses : HoldCopy(p, [goal EXCEPT !.status = status])
    BY <1>10 DEF SetStatus
  <2>2. /\ [goal EXCEPT !.status = status] \in GoalRuns
        /\ [goal EXCEPT !.status = status].log = goal.log
    BY DEF TInv, TypeOK, ControlStatuses, GoalRuns, Statuses
  <2> QED
    BY <1>10, <2>1, <2>2, <1>3
       DEF SetStatus, HoldCopy, Goto, goalFile, AllBacked, TInv, TypeOK, Holding
<1>11. CASE Truncate(p)
  BY <1>11, NewBacked DEF Truncate, Goto, AllBacked, TInv, TypeOK, Holding
<1>12. CASE Fill(p)
  BY <1>12, <1>3, NewBacked, NewIsGoalRun
     DEF Fill, Return, Goto, AllBacked, TInv, TypeOK, Holding
<1>13. CASE ReadReport(p) \/ Publish(p) \/ TruncateManifest(p)
  BY <1>13 DEF ReadReport, Publish, TruncateManifest, Goto, locals, goalFile, AllBacked, TInv,
               TypeOK, Holding
<1> QED
  BY <1>4, <1>5, <1>6, <1>7, <1>8, <1>9, <1>10, <1>11, <1>12, <1>13 DEF GoalCommand

\* So does everything else that happens.
LEMMA BackedStep == TInv /\ CountedInv /\ AllBacked /\ [Next]_vars => AllBacked'
<1> SUFFICES ASSUME TInv, CountedInv, AllBacked, [Next]_vars PROVE AllBacked'
  OBVIOUS
<1>1. ASSUME NEW p \in Procs, Crash(p) PROVE AllBacked'
  <2>1. accepted' = accepted
    BY <1>1 DEF Crash, world
  <2>2. LogBacked(goal'.log) /\ \A q \in Procs : LogBacked(copy'[q].log)
    BY <1>1, NewBacked, NewIsGoalRun DEF Crash, Return, goalFile, AllBacked, TInv, TypeOK
  <2>3. \A q \in Procs : pc'[q] = "record" => Backed(want'[q].key)
    BY <1>1 DEF Crash, Return, Goto, AllBacked, TInv, TypeOK, Holding
  <2> QED
    BY <2>1, <2>2, <2>3 DEF AllBacked, LogBacked, Backed
<1>2. ASSUME NEW r \in BatchRuns, Report(r) PROVE AllBacked'
  <2>1. accepted \subseteq accepted'
    BY <1>2 DEF Report
  <2> QED
    BY <1>2, <2>1, BackedStays DEF Report, goalFile, locals, AllBacked, LogBacked
<1>3. CASE BudgetEnds
  BY <1>3 DEF BudgetEnds, goalFile, locals, AllBacked, LogBacked, Backed
<1>4. CASE UNCHANGED vars
  BY <1>4 DEF vars, AllBacked, LogBacked, Backed
<1> QED
  BY <1>1, <1>2, <1>3, <1>4, BackedCommand DEF Next

\* When a checkpoint is collected, every worker of its batch has had an accepted report,
\* whatever is dispatched, reported or reported again in between.
THEOREM CollectedStandsOnReports == Spec => []CollectedIsBacked
<1>1. Init => CountedInv /\ AllBacked
  BY NewBacked DEF Init, CountedInv, AllBacked
<1>2. AllBacked => CollectedIsBacked
  BY DEF AllBacked, LogBacked, Backed, CollectedIsBacked
<1> QED
  BY <1>1, <1>2, TypeInitial, TypeStep, CountedStep, BackedStep, PTL DEF Spec

--------------------------------------------------------------------------------

\* A command that comes to hold a copy alone holds one that covers what counts.
LEMMA HoldSerial ==
  ASSUME TInv, Serial, NEW p \in Procs, NEW run \in GoalRuns, HoldCopy(p, run),
         pc[p] \in {"idle", "record"},
         UNCHANGED <<form, goal, want, acked, decided>>,
         ~raced => Covers(run),
         want[p] # NoCheckpoint => want[p].id \in IdsOf(run.log)
  PROVE  Serial'
<1>1. /\ pc' = [pc EXCEPT ![p] = "writing"]
      /\ copy' = [copy EXCEPT ![p] = run]
      /\ ~raced' => ~raced /\ \A q \in Procs \ {p} : pc[q] \notin Holding
  BY DEF HoldCopy, Goto, TInv, TypeOK
<1> QED
  BY <1>1 DEF Serial, Covers, TInv, TypeOK, Holding

\* A command that returns without writing leaves the others as they are.
LEMMA ReturnSerial ==
  ASSUME TInv, Serial, NEW p \in Procs, Return(p),
         UNCHANGED <<form, goal, acked, decided, raced>>
  PROVE  Serial'
  BY DEF Return, Goto, Serial, Covers, TInv, TypeOK, Holding

\* Every command keeps what was acknowledged, as long as no two race.
LEMMA SerialCommand ==
  ASSUME TInv, Serial, NEW p \in Procs, GoalCommand(p)
  PROVE  Serial'
<1>1. CASE Plan(p)
  <2>1. ~raced => Covers(NewGoal)
    BY <1>1 DEF Plan, CreateAllowed, Serial, Covers
  <2>2. want[p] = NoCheckpoint
    BY <1>1 DEF Plan, Serial
  <2> QED
    BY <1>1, <2>1, <2>2, HoldSerial, NewIsGoalRun DEF Plan, goalFile
<1>2. CASE ManualCheckpoint(p) \/ BeginCollect(p)
  BY <1>2 DEF ManualCheckpoint, BeginCollect, Goto, goalFile, history, Serial, Covers, TInv,
              TypeOK, Holding
<1>3. CASE ReadReport(p) \/ Collect(p) \/ Dispatch(p) \/ Publish(p) \/ TruncateManifest(p)
  BY <1>3 DEF ReadReport, Collect, Dispatch, Publish, TruncateManifest, Goto, goalFile, locals, history,
              Serial, Covers, TInv, TypeOK, Holding
<1>4. CASE NotReady(p) \/ RecordRefused(p) \/ FillManifest(p)
  BY <1>4, ReturnSerial DEF NotReady, RecordRefused, FillManifest, goalFile, history
<1>5. CASE Record(p)
  <2>1. want[p] \in Checkpoints /\ goal \in GoalRuns /\ form = "whole"
    BY <1>5 DEF Record, TInv, JobsKnown, TypeOK
  <2> DEFINE run == Recorded(goal, want[p])
  <2>2. run \in GoalRuns /\ run.status = goal.status
        /\ run.log = Append(goal.log, want[p]) /\ goal.log \in Seq(Checkpoints)
    BY <2>1, RecordedIsGoalRun
  <2>3. IdsOf(goal.log) \subseteq IdsOf(run.log)
    <3>1. \A i \in DOMAIN goal.log : i \in DOMAIN run.log /\ run.log[i] = goal.log[i]
      BY <2>2
    <3> QED
      BY <3>1 DEF IdsOf
  <2>4. want[p].id \in IdsOf(run.log)
    <3>1. /\ Len(goal.log) + 1 \in DOMAIN run.log
          /\ run.log[Len(goal.log) + 1] = want[p]
      BY <2>1, <2>2
    <3> QED
      BY <3>1 DEF IdsOf
  <2>5. ~raced => Covers(run)
    BY <2>1, <2>2, <2>3 DEF Serial, Covers
  <2> HIDE DEF run
  <2>6. HoldCopy(p, run) /\ pc[p] = "record" /\ UNCHANGED <<form, goal, want, acked, decided>>
    BY <1>5 DEF Record, goalFile, run
  <2> QED
    BY <2>2, <2>4, <2>5, <2>6, HoldSerial
<1>6. CASE SetStatus(p)
  <2>1. PICK status \in ControlStatuses : HoldCopy(p, [goal EXCEPT !.status = status])
    BY <1>6 DEF SetStatus
  <2> DEFINE run == [goal EXCEPT !.status = status]
  <2>2. run \in GoalRuns /\ run.log = goal.log /\ run.status # "active"
    BY DEF TInv, TypeOK, ControlStatuses, GoalRuns, Statuses
  <2>3. ~raced => Covers(run)
    BY <1>6, <2>2 DEF SetStatus, Serial, Covers
  <2>4. want[p] = NoCheckpoint /\ pc[p] = "idle" /\ UNCHANGED <<form, goal, want, acked, decided>>
    BY <1>6 DEF SetStatus, Serial, goalFile
  <2> HIDE DEF run
  <2>5. HoldCopy(p, run)
    BY <2>1 DEF run
  <2> QED
    BY <2>2, <2>3, <2>4, <2>5, HoldSerial
<1>7. CASE Truncate(p)
  BY <1>7 DEF Truncate, Goto, history, Serial, Covers, TInv, TypeOK, Holding
<1>8. CASE Fill(p)
  <2>1. pc[p] = "filling" /\ Return(p) /\ Receipt(p) /\ form' \in {"whole", "torn"}
        /\ (form' = "whole" => goal' = copy[p])
    BY <1>8 DEF Fill
  <2>2. pc' = [pc EXCEPT ![p] = "idle"] /\ want' = [want EXCEPT ![p] = NoCheckpoint]
        /\ \A q \in Procs \ {p} : copy'[q] = copy[q]
    BY <2>1 DEF Return, Goto, TInv, TypeOK
  <2>3. \A q \in Procs : pc'[q] \in {"idle", "publish", "manifest"} => want'[q] = NoCheckpoint
    BY <2>2 DEF Serial, TInv, TypeOK
  <2>4. ASSUME ~raced'
        PROVE  /\ form' = "whole" => Covers(goal)'
               /\ \A q \in Procs : pc'[q] \notin Holding
    <3>1. ~raced /\ Covers(copy[p])
          /\ (want[p] # NoCheckpoint => want[p].id \in IdsOf(copy[p].log))
      BY <2>1, <2>4 DEF Receipt, Serial, Holding
    <3>2. \A q \in Procs \ {p} : pc[q] \notin Holding
      BY <2>1, <3>1 DEF Serial, Holding
    <3>3. acked' \subseteq IdsOf(copy[p].log)
      BY <2>1, <3>1 DEF Receipt, Covers
    <3>4. decided' => copy[p].status # "active"
      BY <2>1, <3>1 DEF Receipt, Covers
    <3> QED
      BY <2>1, <2>2, <3>2, <3>3, <3>4 DEF Covers, Holding, TInv, TypeOK
  <2> QED
    BY <2>1, <2>3, <2>4 DEF Serial
<1> QED
  BY <1>1, <1>2, <1>3, <1>4, <1>5, <1>6, <1>7, <1>8 DEF GoalCommand

\* So does a command that dies, and everything else that happens.
LEMMA SerialStep == TInv /\ Serial /\ [Next]_vars => Serial'
<1> SUFFICES ASSUME TInv, Serial, [Next]_vars PROVE Serial'
  OBVIOUS
<1>1. ASSUME NEW p \in Procs, Crash(p) PROVE Serial'
  <2>1. CASE UNCHANGED goalFile
    BY <1>1, <2>1, ReturnSerial DEF Crash, goalFile, history
  <2>2. CASE form' = "torn"
    BY <1>1, <2>2 DEF Crash, Return, Goto, history, Serial, Covers, TInv, TypeOK, Holding
  <2> QED
    BY <1>1, <2>1, <2>2 DEF Crash, goalFile
<1>2. ASSUME NEW r \in BatchRuns, Report(r) PROVE Serial'
  BY <1>2 DEF Report, goalFile, locals, history, Serial, Covers
<1>3. CASE BudgetEnds
  BY <1>3 DEF BudgetEnds, goalFile, locals, history, Serial, Covers
<1>4. CASE UNCHANGED vars
  BY <1>4 DEF vars, Serial, Covers
<1> QED
  BY <1>1, <1>2, <1>3, <1>4, SerialCommand DEF Next

\* Nothing is acknowledged at the start.
LEMMA SerialInitial == Init => Serial
  BY DEF Init, Serial, Holding

\* Without a race a file that is being filled is empty, and an empty or torn one
\* that nobody fills tells of a command that died.
Legible ==
  ~raced =>
    /\ \A p \in Procs : pc[p] = "filling" => form = "empty"
    /\ crashes = 0 /\ form \in {"empty", "torn"} => \E p \in Procs : pc[p] = "filling"

\* Every command keeps the goal run readable, as long as no two race.
LEMMA LegibleCommand ==
  ASSUME TInv, Serial, Legible, NEW p \in Procs, GoalCommand(p)
  PROVE  Legible'
<1>1. CASE Plan(p) \/ Record(p) \/ SetStatus(p)
  <2>1. pc[p] \in {"idle", "record"} /\ pc' = [pc EXCEPT ![p] = "writing"]
        /\ UNCHANGED <<form, crashes>> /\ (raced => raced')
    BY <1>1 DEF Plan, Record, SetStatus, HoldCopy, Goto, goalFile
  <2> QED
    BY <2>1 DEF Legible, TInv, TypeOK
<1>6. CASE ReadReport(p)
  BY <1>6 DEF ReadReport, goalFile, history, Legible
<1>2. CASE ManualCheckpoint(p) \/ BeginCollect(p) \/ Collect(p) \/ Dispatch(p) \/ Publish(p)
           \/ TruncateManifest(p)
  <2>1. UNCHANGED <<form, crashes, raced>>
    BY <1>2 DEF ManualCheckpoint, BeginCollect, Collect, Dispatch, Publish, TruncateManifest,
                goalFile, history
  <2>2. \A q \in Procs : pc'[q] = "filling" <=> pc[q] = "filling"
    BY <1>2 DEF ManualCheckpoint, BeginCollect, Collect, Dispatch, Publish, TruncateManifest,
                Goto, locals, TInv, TypeOK
  <2> QED
    BY <2>1, <2>2 DEF Legible
<1>3. CASE NotReady(p) \/ RecordRefused(p) \/ FillManifest(p)
  <2>1. UNCHANGED <<form, crashes, raced>>
    BY <1>3 DEF NotReady, RecordRefused, FillManifest, goalFile, history
  <2>2. \A q \in Procs : pc'[q] = "filling" <=> pc[q] = "filling"
    BY <1>3 DEF NotReady, RecordRefused, FillManifest, Return, Goto, TInv, TypeOK
  <2> QED
    BY <2>1, <2>2 DEF Legible
<1>4. CASE Truncate(p)
  BY <1>4 DEF Truncate, Goto, history, Legible, TInv, TypeOK
<1>5. CASE Fill(p)
  <2>1. raced' = raced /\ pc[p] = "filling" /\ pc' = [pc EXCEPT ![p] = "idle"]
    BY <1>5 DEF Fill, Receipt, Return, Goto
  <2>2. ASSUME ~raced PROVE form' = "whole" /\ \A q \in Procs : pc'[q] # "filling"
    <3>1. form = "empty"
      BY <2>1, <2>2 DEF Legible
    <3>2. \A q \in Procs \ {p} : pc[q] # "filling"
      BY <2>1, <2>2 DEF Serial, Holding
    <3> QED
      BY <1>5, <2>1, <3>1, <3>2 DEF Fill, TInv, TypeOK
  <2> QED
    BY <2>1, <2>2 DEF Legible
<1> QED
  BY <1>1, <1>2, <1>3, <1>4, <1>5, <1>6 DEF GoalCommand

\* And so does everything else, unless a command dies.
LEMMA LegibleStep == TInv /\ Serial /\ Legible /\ [Next]_vars => Legible'
<1> SUFFICES ASSUME TInv, Serial, Legible, [Next]_vars PROVE Legible'
  OBVIOUS
<1>1. ASSUME NEW p \in Procs, Crash(p) PROVE Legible'
  <2>1. crashes' # 0 /\ raced' = raced /\ pc' = [pc EXCEPT ![p] = "idle"]
    BY <1>1 DEF Crash, Return, Goto, history, TInv, TypeOK
  <2>2. CASE UNCHANGED form
    BY <2>1, <2>2 DEF Legible, TInv, TypeOK
  <2>3. CASE pc[p] = "filling"
    BY <2>1, <2>3 DEF Legible, Serial, Holding, TInv, TypeOK
  <2> QED
    BY <1>1, <2>2, <2>3 DEF Crash, goalFile
<1>2. ASSUME NEW r \in BatchRuns, Report(r) PROVE Legible'
  BY <1>2 DEF Report, goalFile, locals, history, Legible
<1>3. CASE BudgetEnds
  BY <1>3 DEF BudgetEnds, goalFile, locals, history, Legible
<1>4. CASE UNCHANGED vars
  BY <1>4 DEF vars, Legible
<1> QED
  BY <1>1, <1>2, <1>3, <1>4, LegibleCommand DEF Next

\* What a command printed is lost, undone or made unreadable only by a command
\* that died or by two that held copies at once.
THEOREM ReceiptsKept == Spec => []ReceiptsStand
<1>1. TInv /\ Serial /\ Legible => ReceiptsStand
  <2> SUFFICES ASSUME TInv, Serial, Legible PROVE ReceiptsStand
    OBVIOUS
  <2>1. NothingLost /\ DecisionStands
    BY DEF Serial, Covers, NothingLost, DecisionStands
  <2>2. UnreadableOnlyByCrash
    BY DEF Legible, UnreadableOnlyByCrash, Unreadable, Holding, TInv, TypeOK
  <2> QED
    BY <2>1, <2>2 DEF ReceiptsStand
<1>2. Init => Legible
  BY DEF Init, Legible
<1> QED
  BY <1>1, <1>2, SerialInitial, TypeInitial, TypeStep, SerialStep, LegibleStep, PTL DEF Spec

--------------------------------------------------------------------------------
(* The steps of a goal. *)

\* A step executes a run only while it may still execute one.
ExecHasCap == \A s \in Steps : stage[s] = "exec" => cap[s] > 0

\* Every copy of the ledger and every list of executed runs is backed by reports.
BackedByReports ==
  /\ ledger.completed \subseteq reported
  /\ \A s \in Steps : loaded[s].completed \subseteq reported /\ executed[s] \subseteq reported

\* No two processes step the goal at the same time.
OneStep == \A s, t \in Steps : s = t

\* What a step has loaded for an operation is still what the file says.
CopyCurrent ==
  \A s \in Steps : stage[s] \in {"landing", "settling", "consuming"} => loaded[s] = ledger

\* A claim belongs to the run that its step executes.
OneClaim ==
  /\ \A r \in Runs : holder[r] # Nobody => stage[holder[r]] = "exec" /\ r \in cand[holder[r]]
  /\ \A q, r \in Runs : holder[q] # Nobody /\ holder[r] # Nobody => q = r

\* A run that was started and has no report stays landed; the step at work may
\* touch it only by executing it.
StartedStaysLanded ==
  /\ resent = {}
  /\ started \subseteq ledger.landed \cup reported
  /\ \A s \in Steps :
       /\ stage[s] \in {"run", "exec"} => cand[s] \subseteq ledger.landed
       /\ stage[s] # "idle" =>
            \A r \in cand[s] : r \in started => r \in reported \/ holder[r] = s

\* The control points at which a step has its candidates landed, and those at
\* which it has nothing executed yet.
Marked == {"run", "exec", "settle", "settling"}
Fresh == {"idle", "mark", "landing"}

\* Until a step is aborted, what is landed and not completed is what the step
\* at work has marked, and the ledger has never called one of it completed.
NoPhantoms ==
  aborts = 0 =>
    /\ (\A s \in Steps : stage[s] \notin Marked) => ledger.landed = ledger.completed
    /\ \A s \in Steps :
         /\ executed[s] \subseteq cand[s]
         /\ stage[s] \in Fresh => executed[s] = {}
         /\ stage[s] \in Marked => ledger.landed = ledger.completed \cup cand[s]
         /\ stage[s] \in Marked \cup {"mark", "landing"} => cand[s] \cap ledger.completed = {}

\* A step that takes itself for the wrap-up round and has started nothing yet.
Unspent(s) == stage[s] \in {"mark", "landing"} \/ (stage[s] = "run" /\ cap[s] = 1)

\* A wrap-up round may execute one run, and every wrap-up round but the one that
\* is at work or was consumed has been aborted.
PaidBy(s) ==
  /\ ~ledger.wrapUp /\ (wrapUp[s] => Unspent(s)) => Cardinality(wrapped) <= aborts
  /\ wrapUp[s] => /\ stage[s] # "idle" /\ ~ledger.wrapUp /\ cap[s] <= 1
                  /\ stage[s] \in {"mark", "landing", "exec"} => cap[s] = 1

WrapUpsPaid ==
  /\ IsFiniteSet(wrapped)
  /\ Cardinality(wrapped) <= 1 + aborts
  /\ \A s \in Steps : PaidBy(s)

IInv == RoundsTyped /\ ExecHasCap /\ CopyCurrent /\ OneClaim /\ StartedStaysLanded

--------------------------------------------------------------------------------

\* A goal that was never stepped has a ledger.
LEMMA EmptyIsLedger == EmptyLedger \in Ledgers
  BY DEF EmptyLedger, Ledgers

\* Every variable has its type at the start.
LEMMA RoundsInitially == RoundsInit => RoundsTyped /\ ExecHasCap
<1>1. EmptyLedger \in Ledgers
  BY EmptyIsLedger
<1>2. 0 \in 0 .. MaxRuns /\ 0 \in 0 .. MaxAborts
  BY RoundsAssumption
<1> QED
  BY <1>1, <1>2 DEF RoundsInit, RoundsTyped, ExecHasCap, StepPC

\* A step that returns leaves its own variables typed, and executes nothing.
LEMMA EndStepTyped ==
  ASSUME RoundsTyped, ExecHasCap, NEW s \in Steps, EndStep(s)
  PROVE  /\ stage' \in [Steps -> StepPC] /\ cand' \in [Steps -> SUBSET Runs]
         /\ cap' \in [Steps -> 0 .. MaxRuns] /\ wrapUp' \in [Steps -> BOOLEAN]
         /\ executed' \in [Steps -> SUBSET Runs] /\ loaded' \in [Steps -> Ledgers]
         /\ ExecHasCap'
<1>1. 0 \in 0 .. MaxRuns
  BY RoundsAssumption
<1> QED
  BY <1>1, EmptyIsLedger DEF EndStep, Enter, RoundsTyped, ExecHasCap, StepPC

\* What a ledger operation writes is a ledger.
LEMMA LedgerOperations ==
  ASSUME NEW l \in Ledgers, NEW C \in SUBSET Runs, NEW D \in SUBSET Runs
  PROVE  /\ [l EXCEPT !.landed = @ \cup C] \in Ledgers
         /\ Settled(l, C, D) \in Ledgers
         /\ [l EXCEPT !.wrapUp = TRUE] \in Ledgers
  BY DEF Ledgers, Settled

\* Every step keeps the type of every variable.
LEMMA RoundsTypeStep ==
  RoundsTyped /\ ExecHasCap /\ [RoundsNext]_roundVars => (RoundsTyped /\ ExecHasCap)'
<1> SUFFICES ASSUME RoundsTyped, ExecHasCap, [RoundsNext]_roundVars
             PROVE  (RoundsTyped /\ ExecHasCap)'
  OBVIOUS
<1> USE RoundsAssumption DEF RoundsTyped, ExecHasCap, StepPC, files, stepLocals, roundHistory,
        Enter
<1>1. ASSUME NEW s \in Steps, Work(s) PROVE (RoundsTyped /\ ExecHasCap)'
  <2>1. CASE BeginStep(s)
    BY <2>1 DEF BeginStep, Candidates
  <2>2. CASE LoadToMark(s)
    BY <2>2 DEF LoadToMark, LoadLedger
  <2>3. CASE MarkLanded(s)
    BY <2>3, LedgerOperations DEF MarkLanded
  <2>4. CASE StartRun(s)
    BY <2>4 DEF StartRun, Runnable, MayRunMore
  <2>5. CASE FinishRun(s)
    BY <2>5 DEF FinishRun
  <2>6. CASE EndLoop(s)
    BY <2>6 DEF EndLoop
  <2>7. CASE LoadToSettle(s)
    BY <2>7 DEF LoadToSettle, LoadLedger
  <2>8. CASE Settle(s)
    <3>1. ledger' \in Ledgers
      BY <2>8, LedgerOperations DEF Settle
    <3>2. UNCHANGED <<overBudget, reported, holder, aborts, started, resent, wrapped>>
      BY <2>8 DEF Settle
    <3>3. CASE wrapUp[s]
      BY <2>8, <3>1, <3>2, <3>3 DEF Settle
    <3>4. CASE ~wrapUp[s]
      <4>1. EndStep(s)
        BY <2>8, <3>4 DEF Settle
      <4> QED
        BY <4>1, <3>1, <3>2, EndStepTyped
    <3> QED
      BY <3>3, <3>4
  <2>9. CASE LoadToConsume(s)
    BY <2>9 DEF LoadToConsume, LoadLedger
  <2>10. CASE ConsumeWrapUp(s)
    <3>1. ledger' \in Ledgers
      BY <2>10, LedgerOperations DEF ConsumeWrapUp
    <3> QED
      BY <2>10, <3>1, EndStepTyped DEF ConsumeWrapUp
  <2> QED
    BY <1>1, <2>1, <2>2, <2>3, <2>4, <2>5, <2>6, <2>7, <2>8, <2>9, <2>10 DEF Work
<1>2. ASSUME NEW s \in Steps, RunFails(s) PROVE (RoundsTyped /\ ExecHasCap)'
  BY <1>2, EndStepTyped DEF RunFails, Abort
<1>3. ASSUME NEW s \in Steps, StepDies(s) PROVE (RoundsTyped /\ ExecHasCap)'
  BY <1>3, EndStepTyped DEF StepDies, Abort
<1>4. CASE TimeIsUp
  BY <1>4 DEF TimeIsUp
<1>5. ASSUME NEW r \in Runs, OutsideRun(r) PROVE (RoundsTyped /\ ExecHasCap)'
  BY <1>5 DEF OutsideRun
<1>6. CASE UNCHANGED roundVars
  BY <1>6 DEF roundVars, files, stepLocals, roundHistory
<1> QED
  BY <1>1, <1>2, <1>3, <1>4, <1>5, <1>6 DEF RoundsNext

\* Every step keeps the ledger, and what is to be written to it, backed by reports.
LEMMA CompletedStep ==
  RoundsTyped /\ BackedByReports /\ [RoundsNext]_roundVars => BackedByReports'
<1> SUFFICES ASSUME RoundsTyped, BackedByReports, [RoundsNext]_roundVars PROVE BackedByReports'
  OBVIOUS
<1> USE RoundsAssumption DEF RoundsTyped, BackedByReports, Ledgers, EmptyLedger, files,
        stepLocals, roundHistory, Enter
<1>1. ASSUME NEW s \in Steps, Work(s) PROVE BackedByReports'
  <2>1. CASE BeginStep(s)
    BY <2>1 DEF BeginStep, Candidates
  <2>2. CASE LoadToMark(s)
    BY <2>2 DEF LoadToMark, LoadLedger
  <2>3. CASE MarkLanded(s)
    BY <2>3 DEF MarkLanded
  <2>4. CASE StartRun(s)
    BY <2>4 DEF StartRun, Runnable, MayRunMore
  <2>5. CASE FinishRun(s)
    BY <2>5 DEF FinishRun
  <2>6. CASE EndLoop(s)
    BY <2>6 DEF EndLoop
  <2>7. CASE LoadToSettle(s)
    BY <2>7 DEF LoadToSettle, LoadLedger
  <2>8. CASE Settle(s)
    BY <2>8 DEF Settle, Settled, EndStep
  <2>9. CASE LoadToConsume(s)
    BY <2>9 DEF LoadToConsume, LoadLedger
  <2>10. CASE ConsumeWrapUp(s)
    BY <2>10 DEF ConsumeWrapUp, EndStep
  <2> QED
    BY <1>1, <2>1, <2>2, <2>3, <2>4, <2>5, <2>6, <2>7, <2>8, <2>9, <2>10 DEF Work
<1>2. ASSUME NEW s \in Steps, RunFails(s) PROVE BackedByReports'
  BY <1>2 DEF RunFails, Abort, EndStep
<1>3. ASSUME NEW s \in Steps, StepDies(s) PROVE BackedByReports'
  BY <1>3 DEF StepDies, Abort, EndStep
<1>4. CASE TimeIsUp
  BY <1>4 DEF TimeIsUp
<1>5. ASSUME NEW r \in Runs, OutsideRun(r) PROVE BackedByReports'
  BY <1>5 DEF OutsideRun
<1>6. CASE UNCHANGED roundVars
  BY <1>6 DEF roundVars, files, stepLocals, roundHistory
<1> QED
  BY <1>1, <1>2, <1>3, <1>4, <1>5, <1>6 DEF RoundsNext

\* Between loading the ledger and writing it back a lone step is undisturbed.
LEMMA CopyStep ==
  OneStep /\ RoundsTyped /\ CopyCurrent /\ [RoundsNext]_roundVars => CopyCurrent'
<1> SUFFICES ASSUME OneStep, RoundsTyped, CopyCurrent, [RoundsNext]_roundVars PROVE CopyCurrent'
  OBVIOUS
<1> USE RoundsAssumption DEF RoundsTyped, CopyCurrent, OneStep, Ledgers, files, stepLocals,
        roundHistory, Enter
<1>1. ASSUME NEW s \in Steps, Work(s) PROVE CopyCurrent'
  <2>1. CASE BeginStep(s)
    BY <2>1 DEF BeginStep, Candidates
  <2>2. CASE LoadToMark(s)
    BY <2>2 DEF LoadToMark, LoadLedger
  <2>3. CASE MarkLanded(s)
    BY <2>3 DEF MarkLanded
  <2>4. CASE StartRun(s)
    BY <2>4 DEF StartRun, Runnable, MayRunMore
  <2>5. CASE FinishRun(s)
    BY <2>5 DEF FinishRun
  <2>6. CASE EndLoop(s)
    BY <2>6 DEF EndLoop
  <2>7. CASE LoadToSettle(s)
    BY <2>7 DEF LoadToSettle, LoadLedger
  <2>8. CASE Settle(s)
    BY <2>8 DEF Settle, Settled, EndStep
  <2>9. CASE LoadToConsume(s)
    BY <2>9 DEF LoadToConsume, LoadLedger
  <2>10. CASE ConsumeWrapUp(s)
    BY <2>10 DEF ConsumeWrapUp, EndStep
  <2> QED
    BY <1>1, <2>1, <2>2, <2>3, <2>4, <2>5, <2>6, <2>7, <2>8, <2>9, <2>10 DEF Work
<1>2. ASSUME NEW s \in Steps, RunFails(s) PROVE CopyCurrent'
  BY <1>2 DEF RunFails, Abort, EndStep
<1>3. ASSUME NEW s \in Steps, StepDies(s) PROVE CopyCurrent'
  BY <1>3 DEF StepDies, Abort, EndStep
<1>4. CASE TimeIsUp
  BY <1>4 DEF TimeIsUp
<1>5. ASSUME NEW r \in Runs, OutsideRun(r) PROVE CopyCurrent'
  BY <1>5 DEF OutsideRun
<1>6. CASE UNCHANGED roundVars
  BY <1>6 DEF roundVars, files, stepLocals, roundHistory
<1> QED
  BY <1>1, <1>2, <1>3, <1>4, <1>5, <1>6 DEF RoundsNext

\* A lone step holds at most the claim of the run it executes.
LEMMA ClaimStep == OneStep /\ RoundsTyped /\ OneClaim /\ [RoundsNext]_roundVars => OneClaim'
<1> SUFFICES ASSUME OneStep, RoundsTyped, OneClaim, [RoundsNext]_roundVars PROVE OneClaim'
  OBVIOUS
<1> USE RoundsAssumption DEF RoundsTyped, OneClaim, OneStep, files, stepLocals, roundHistory,
        Enter
<1>1. ASSUME NEW s \in Steps, Work(s) PROVE OneClaim'
  <2>1. CASE BeginStep(s)
    BY <2>1 DEF BeginStep, Candidates
  <2>2. CASE LoadToMark(s)
    BY <2>2 DEF LoadToMark, LoadLedger
  <2>3. CASE MarkLanded(s)
    BY <2>3 DEF MarkLanded
  <2>4. CASE StartRun(s)
    BY <2>4 DEF StartRun, Runnable, MayRunMore
  <2>5. CASE FinishRun(s)
    BY <2>5 DEF FinishRun
  <2>6. CASE EndLoop(s)
    BY <2>6 DEF EndLoop
  <2>7. CASE LoadToSettle(s)
    BY <2>7 DEF LoadToSettle, LoadLedger
  <2>8. CASE Settle(s)
    BY <2>8 DEF Settle, Settled, EndStep
  <2>9. CASE LoadToConsume(s)
    BY <2>9 DEF LoadToConsume, LoadLedger
  <2>10. CASE ConsumeWrapUp(s)
    BY <2>10 DEF ConsumeWrapUp, EndStep
  <2> QED
    BY <1>1, <2>1, <2>2, <2>3, <2>4, <2>5, <2>6, <2>7, <2>8, <2>9, <2>10 DEF Work
<1>2. ASSUME NEW s \in Steps, RunFails(s) PROVE OneClaim'
  BY <1>2 DEF RunFails, Abort, EndStep
<1>3. ASSUME NEW s \in Steps, StepDies(s) PROVE OneClaim'
  BY <1>3 DEF StepDies, Abort, EndStep
<1>4. CASE TimeIsUp
  BY <1>4 DEF TimeIsUp
<1>5. ASSUME NEW r \in Runs, OutsideRun(r) PROVE OneClaim'
  BY <1>5 DEF OutsideRun
<1>6. CASE UNCHANGED roundVars
  BY <1>6 DEF roundVars, files, stepLocals, roundHistory
<1> QED
  BY <1>1, <1>2, <1>3, <1>4, <1>5, <1>6 DEF RoundsNext

\* No step forgets or repeats a run that was started.
LEMMA StartedStep == OneStep /\ IInv /\ [RoundsNext]_roundVars => StartedStaysLanded'
<1> SUFFICES ASSUME OneStep, IInv, [RoundsNext]_roundVars PROVE StartedStaysLanded'
  OBVIOUS
<1> USE RoundsAssumption DEF IInv, ExecHasCap, RoundsTyped, CopyCurrent, OneClaim,
        StartedStaysLanded, OneStep, Ledgers, files, stepLocals, roundHistory, Enter
<1>1. ASSUME NEW s \in Steps, Work(s) PROVE StartedStaysLanded'
  <2>1. CASE BeginStep(s)
    BY <2>1 DEF BeginStep, Candidates
  <2>2. CASE LoadToMark(s)
    BY <2>2 DEF LoadToMark, LoadLedger
  <2>3. CASE MarkLanded(s)
    BY <2>3 DEF MarkLanded
  <2>4. CASE StartRun(s)
    BY <2>4 DEF StartRun, Runnable, MayRunMore
  <2>5. CASE FinishRun(s)
    BY <2>5 DEF FinishRun
  <2>6. CASE EndLoop(s)
    BY <2>6 DEF EndLoop
  <2>7. CASE LoadToSettle(s)
    BY <2>7 DEF LoadToSettle, LoadLedger
  <2>8. CASE Settle(s)
    BY <2>8 DEF Settle, Settled, EndStep
  <2>9. CASE LoadToConsume(s)
    BY <2>9 DEF LoadToConsume, LoadLedger
  <2>10. CASE ConsumeWrapUp(s)
    BY <2>10 DEF ConsumeWrapUp, EndStep
  <2> QED
    BY <1>1, <2>1, <2>2, <2>3, <2>4, <2>5, <2>6, <2>7, <2>8, <2>9, <2>10 DEF Work
<1>2. ASSUME NEW s \in Steps, RunFails(s) PROVE StartedStaysLanded'
  BY <1>2 DEF RunFails, Abort, EndStep
<1>3. ASSUME NEW s \in Steps, StepDies(s) PROVE StartedStaysLanded'
  BY <1>3 DEF StepDies, Abort, EndStep
<1>4. CASE TimeIsUp
  BY <1>4 DEF TimeIsUp
<1>5. ASSUME NEW r \in Runs, OutsideRun(r) PROVE StartedStaysLanded'
  BY <1>5 DEF OutsideRun
<1>6. CASE UNCHANGED roundVars
  BY <1>6 DEF roundVars, files, stepLocals, roundHistory
<1> QED
  BY <1>1, <1>2, <1>3, <1>4, <1>5, <1>6 DEF RoundsNext

\* A lone step leaves nothing landed that it has not completed.
LEMMA PhantomStep == OneStep /\ IInv /\ NoPhantoms /\ [RoundsNext]_roundVars => NoPhantoms'
<1> SUFFICES ASSUME OneStep, IInv, NoPhantoms, [RoundsNext]_roundVars PROVE NoPhantoms'
  OBVIOUS
<1> USE RoundsAssumption DEF IInv, RoundsTyped, CopyCurrent, OneClaim, NoPhantoms, Marked,
        Fresh, StepPC, OneStep, Ledgers, files, stepLocals, roundHistory, Enter
<1>1. ASSUME NEW s \in Steps, Work(s) PROVE NoPhantoms'
  <2>1. CASE BeginStep(s)
    BY <2>1 DEF BeginStep, Candidates
  <2>2. CASE LoadToMark(s)
    BY <2>2 DEF LoadToMark, LoadLedger
  <2>3. CASE MarkLanded(s)
    BY <2>3 DEF MarkLanded
  <2>4. CASE StartRun(s)
    BY <2>4 DEF StartRun, Runnable, MayRunMore
  <2>5. CASE FinishRun(s)
    BY <2>5 DEF FinishRun
  <2>6. CASE EndLoop(s)
    BY <2>6 DEF EndLoop
  <2>7. CASE LoadToSettle(s)
    BY <2>7 DEF LoadToSettle, LoadLedger
  <2>8. CASE Settle(s)
    BY <2>8 DEF Settle, Settled, EndStep
  <2>9. CASE LoadToConsume(s)
    BY <2>9 DEF LoadToConsume, LoadLedger
  <2>10. CASE ConsumeWrapUp(s)
    BY <2>10 DEF ConsumeWrapUp, EndStep
  <2> QED
    BY <1>1, <2>1, <2>2, <2>3, <2>4, <2>5, <2>6, <2>7, <2>8, <2>9, <2>10 DEF Work
<1>2. ASSUME NEW s \in Steps, RunFails(s) PROVE NoPhantoms'
  BY <1>2 DEF RunFails, Abort, EndStep
<1>3. ASSUME NEW s \in Steps, StepDies(s) PROVE NoPhantoms'
  BY <1>3 DEF StepDies, Abort, EndStep
<1>4. CASE TimeIsUp
  BY <1>4 DEF TimeIsUp
<1>5. ASSUME NEW r \in Runs, OutsideRun(r) PROVE NoPhantoms'
  BY <1>5 DEF OutsideRun
<1>6. CASE UNCHANGED roundVars
  BY <1>6 DEF roundVars, files, stepLocals, roundHistory
<1> QED
  BY <1>1, <1>2, <1>3, <1>4, <1>5, <1>6 DEF RoundsNext

\* A lone step starts at most one run in a wrap-up round, and none after a
\* wrap-up round that was consumed.
LEMMA WrapUpStep == OneStep /\ IInv /\ WrapUpsPaid /\ [RoundsNext]_roundVars => WrapUpsPaid'
<1> SUFFICES ASSUME OneStep, IInv, WrapUpsPaid, [RoundsNext]_roundVars PROVE WrapUpsPaid'
  OBVIOUS
<1>n. IsFiniteSet(wrapped) /\ Cardinality(wrapped) \in Nat /\ Cardinality(wrapped) <= 1 + aborts /\ aborts \in Nat
  BY FS_CardinalityType, RoundsAssumption DEF WrapUpsPaid, IInv, RoundsTyped
<1>a. \A r : /\ IsFiniteSet(wrapped \cup {r}) /\ Cardinality(wrapped \cup {r}) \in Nat
             /\ Cardinality(wrapped \cup {r}) <= Cardinality(wrapped) + 1
  BY <1>n, FS_AddElement
<1>1. ASSUME NEW s \in Steps, Work(s) \/ RunFails(s) \/ StepDies(s) PROVE WrapUpsPaid'
  <2>t. /\ Steps = {s} /\ cap[s] \in Nat /\ wrapUp[s] \in BOOLEAN /\ overBudget \in BOOLEAN
        /\ DOMAIN stage = Steps /\ DOMAIN cap = Steps /\ DOMAIN wrapUp = Steps /\ ledger \in Ledgers
        /\ stage[s] = "exec" => cap[s] > 0
        /\ stage[s] \in {"landing", "settling", "consuming"} => loaded[s] = ledger
    BY RoundsAssumption DEF OneStep, IInv, RoundsTyped, ExecHasCap, CopyCurrent
  <2>p. PaidBy(s)
    BY DEF WrapUpsPaid
  <2>s. SUFFICES /\ IsFiniteSet(wrapped') /\ Cardinality(wrapped') <= 1 + aborts'
                 /\ PaidBy(s)'
    BY <2>t DEF WrapUpsPaid
  <2> USE DEF Enter, Ledgers, roundHistory, files
  <2>1. CASE LoadToMark(s)
    BY <1>n, <2>t, <2>p, <2>1 DEF PaidBy, Unspent, LoadToMark, LoadLedger
  <2>2. CASE MarkLanded(s)
    BY <1>n, <2>t, <2>p, <2>2 DEF PaidBy, Unspent, MarkLanded
  <2>3. CASE EndLoop(s)
    BY <1>n, <2>t, <2>p, <2>3 DEF PaidBy, Unspent, EndLoop, MayRunMore
  <2>4. CASE LoadToSettle(s)
    BY <1>n, <2>t, <2>p, <2>4 DEF PaidBy, Unspent, LoadToSettle, LoadLedger
  <2>5. CASE Settle(s)
    BY <1>n, <2>t, <2>p, <2>5 DEF PaidBy, Unspent, Settle, Settled, EndStep
  <2>6. CASE LoadToConsume(s)
    BY <1>n, <2>t, <2>p, <2>6 DEF PaidBy, Unspent, LoadToConsume, LoadLedger
  <2>7. CASE ConsumeWrapUp(s)
    BY <1>n, <2>t, <2>p, <2>7 DEF PaidBy, Unspent, ConsumeWrapUp, EndStep
  <2>8. CASE RunFails(s)
    BY <1>n, <2>t, <2>p, <2>8 DEF PaidBy, Unspent, RunFails, Abort, EndStep
  <2>9. CASE StepDies(s)
    BY <1>n, <2>t, <2>p, <2>9 DEF PaidBy, Unspent, StepDies, Abort, EndStep
  <2>10. CASE BeginStep(s)
    <3>1. /\ ~(overBudget /\ ledger.wrapUp) /\ stage[s] = "idle" /\ wrapUp'[s] = overBudget
          /\ UNCHANGED <<ledger, wrapped, aborts>> /\ stage'[s] \in {"mark", "run"} /\ (overBudget => cap'[s] = 1)
      BY <2>t, <2>10 DEF BeginStep
    <3> QED
      BY <1>n, <2>t, <2>p, <3>1 DEF PaidBy, Unspent
  <2>11. CASE StartRun(s)
    <3>1. PICK r \in Runs : wrapped' = IF wrapUp[s] THEN wrapped \cup {r} ELSE wrapped
      BY <2>11 DEF StartRun
    <3>2. stage'[s] = "exec" /\ stage[s] = "run" /\ cap[s] > 0 /\ UNCHANGED <<ledger, cap, wrapUp, aborts>>
      BY <2>t, <2>11 DEF StartRun, MayRunMore
    <3>3. CASE wrapUp[s]
      <4>1. cap[s] = 1 /\ ~ledger.wrapUp /\ Cardinality(wrapped) <= aborts
        BY <2>t, <2>p, <3>2, <3>3 DEF PaidBy, Unspent
      <4>2. wrapped' = wrapped \cup {r}
        BY <3>1, <3>3
      <4>3. IsFiniteSet(wrapped') /\ Cardinality(wrapped') \in Nat /\ Cardinality(wrapped') <= Cardinality(wrapped) + 1
        BY <1>a, <4>2
      <4> QED
        BY <1>n, <3>2, <3>3, <4>1, <4>3 DEF PaidBy, Unspent
    <3>4. CASE ~wrapUp[s]
      BY <1>n, <2>t, <2>p, <3>1, <3>2, <3>4 DEF PaidBy, Unspent
    <3> QED
      BY <3>3, <3>4
  <2>12. CASE FinishRun(s)
    <3>1. /\ stage[s] = "exec" /\ stage'[s] = "run" /\ cap'[s] = cap[s] - 1
          /\ UNCHANGED <<ledger, wrapUp, wrapped, aborts>>
      BY <2>t, <2>12 DEF FinishRun
    <3> QED
      BY <1>n, <2>t, <2>p, <3>1 DEF PaidBy, Unspent
  <2> QED
    BY <1>1, <2>1, <2>2, <2>3, <2>4, <2>5, <2>6, <2>7, <2>8, <2>9, <2>10, <2>11, <2>12 DEF Work
<1>2. CASE UNCHANGED <<ledger, stage, cap, wrapUp, wrapped, aborts>>
  BY <1>2 DEF WrapUpsPaid, PaidBy, Unspent
<1>3. CASE TimeIsUp \/ (\E r \in Runs : OutsideRun(r)) \/ UNCHANGED roundVars
  BY <1>2, <1>3 DEF TimeIsUp, OutsideRun, roundVars, files, stepLocals, roundHistory
<1> QED
  BY <1>1, <1>3 DEF RoundsNext

\* The parts of the invariant hold at the start.
LEMMA RoundsStart == RoundsInit => IInv /\ BackedByReports
  BY RoundsInitially, RoundsAssumption
  DEF RoundsInit, IInv, BackedByReports, CopyCurrent, OneClaim, StartedStaysLanded, EmptyLedger

\* The type invariant, for every number of concurrent steps.
THEOREM RoundsTypeCorrect == RoundsSpec => []RoundsTyped
<1>1. RoundsTyped /\ ExecHasCap /\ [RoundsNext]_roundVars => (RoundsTyped /\ ExecHasCap)'
  BY RoundsTypeStep
<1> QED
  BY RoundsInitially, <1>1, PTL DEF RoundsSpec

\* For every number of concurrent steps, a run that the ledger calls completed
\* has its report in the queue.
THEOREM CompletedIsReported == RoundsSpec => []CompletedHasReport
<1> DEFINE I == RoundsTyped /\ ExecHasCap /\ BackedByReports
<1>1. RoundsInit => I
  BY RoundsStart, RoundsInitially
<1>2. I /\ [RoundsNext]_roundVars => I'
  BY RoundsTypeStep, CompletedStep
<1>3. I => CompletedHasReport
  BY DEF BackedByReports, CompletedHasReport
<1> QED
  BY <1>1, <1>2, <1>3, PTL DEF RoundsSpec

\* When steps do not overlap, no run is started twice, whatever step fails or
\* crashes at whatever point.
THEOREM LoneStepNeverResends == OneStep => (RoundsSpec => []NoResend)
<1> SUFFICES ASSUME OneStep PROVE RoundsSpec => []NoResend
  OBVIOUS
<1>1. RoundsInit => IInv
  BY RoundsStart
<1>2. IInv /\ [RoundsNext]_roundVars => IInv'
  BY RoundsTypeStep, CopyStep, ClaimStep, StartedStep DEF IInv
<1>3. IInv => NoResend
  BY DEF IInv, StartedStaysLanded, NoResend
<1> QED
  BY <1>1, <1>2, <1>3, PTL DEF RoundsSpec

\* When steps do not overlap, the ledger tells the truth, however many of them
\* fail or crash: what it calls completed is reported, what it leaves landed was
\* aborted, and it allows one wrap-up run and one more for each abort.
THEOREM LoneStepKeepsTheLedgerTrue == OneStep => (RoundsSpec => []LedgerIsTrue)
<1> SUFFICES ASSUME OneStep PROVE RoundsSpec => []LedgerIsTrue
  OBVIOUS
<1> DEFINE I == IInv /\ BackedByReports /\ NoPhantoms /\ WrapUpsPaid
<1>1. RoundsInit => I
  <2> SUFFICES ASSUME RoundsInit PROVE I
    OBVIOUS
  <2>1. NoPhantoms
    BY DEF RoundsInit, NoPhantoms, Marked, EmptyLedger
  <2>2. WrapUpsPaid
    BY FS_EmptySet DEF RoundsInit, WrapUpsPaid, PaidBy
  <2> QED
    BY RoundsStart, <2>1, <2>2
<1>2. I /\ [RoundsNext]_roundVars => I'
  <2> SUFFICES ASSUME I, [RoundsNext]_roundVars PROVE I'
    OBVIOUS
  <2>1. IInv'
    BY RoundsTypeStep, CopyStep, ClaimStep, StartedStep DEF IInv
  <2> QED
    BY <2>1, CompletedStep, PhantomStep, WrapUpStep DEF IInv
<1>3. I => LedgerIsTrue
  <2> SUFFICES ASSUME I PROVE LedgerIsTrue
    OBVIOUS
  <2>1. PhantomOnlyByAbort
    BY DEF NoPhantoms, PhantomOnlyByAbort, Marked
  <2> QED
    BY <2>1 DEF BackedByReports, CompletedHasReport, WrapUpsPaid, WrapUpsAreCounted, LedgerIsTrue
<1> QED
  BY <1>1, <1>2, <1>3, PTL DEF RoundsSpec
================================================================================
