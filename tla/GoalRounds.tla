------------------------------- MODULE GoalRounds -------------------------------
(***************************************************************************)
(* `goal step` (cli_goal.rs) over the round ledger (goal_dispatch.rs): a   *)
(* step loads the ledger, marks its candidates as landed, runs them        *)
(* through the subagent run loop, settles the ledger, and, when the time   *)
(* budget of the goal is spent, consumes the one wrap-up round.  Each      *)
(* ledger operation loads the file, changes the copy and writes it back;   *)
(* steps are processes of their own and take no lock.                      *)
(*                                                                         *)
(* The queue is what SubagentQueue grants one run loop: a run that is      *)
(* neither reported nor claimed can be executed.                           *)
(***************************************************************************)
EXTENDS Naturals, FiniteSets

CONSTANTS
  Steps,      \* processes that run `goal step` for this goal
  Runs,       \* run ids of the goal's dispatch manifest
  MaxRuns,    \* largest --max-runs a step is asked for
  Nobody,     \* no process
  MaxAborts,  \* bound: steps that fail or crash
  CrashAt,    \* control points at which a step may crash
  Outsiders,  \* whether `subagent run-once` may serve the same queue
  Budgeted    \* whether the goal has a time budget

StepPC ==
  {"idle", "mark", "landing", "run", "exec", "settle", "settling", "consume", "consuming"}

ASSUME RoundsAssumption ==
  /\ Runs \subseteq Nat
  /\ Nobody \notin Steps
  /\ MaxRuns \in Nat \ {0}
  /\ MaxAborts \in Nat
  /\ CrashAt \subseteq StepPC
  /\ Outsiders \in BOOLEAN
  /\ Budgeted \in BOOLEAN

Ledgers == [landed : SUBSET Runs, completed : SUBSET Runs, wrapUp : BOOLEAN]

VARIABLES
  ledger,     \* the round ledger file
  overBudget, \* budget_state() = Exhausted
  reported,   \* runs whose report is in the queue
  holder,     \* per run: the step whose worker has claimed it
  stage,      \* where each step stands
  cand,       \* candidates it computed at its start
  cap,        \* runs it may still execute
  wrapUp,     \* whether it took itself for the wrap-up round
  executed,   \* runs it executed
  loaded,     \* the ledger it loaded for the operation in progress
  aborts,     \* aborted steps so far, up to MaxAborts
  started,    \* history: runs that some step has started
  resent,     \* history: runs that a step started again
  wrapped     \* history: runs started in wrap-up rounds

files == <<ledger, reported, holder>>
stepLocals == <<stage, cand, cap, wrapUp, executed, loaded>>
roundHistory == <<started, resent, wrapped>>
roundVars == <<ledger, overBudget, reported, holder, stage, cand, cap, wrapUp, executed,
               loaded, aborts, started, resent, wrapped>>

EmptyLedger == [landed |-> {}, completed |-> {}, wrapUp |-> FALSE]

RoundsInit ==
  /\ ledger = EmptyLedger
  /\ overBudget = FALSE
  /\ reported = {}
  /\ holder = [r \in Runs |-> Nobody]
  /\ stage = [s \in Steps |-> "idle"]
  /\ cand = [s \in Steps |-> {}]
  /\ cap = [s \in Steps |-> 0]
  /\ wrapUp = [s \in Steps |-> FALSE]
  /\ executed = [s \in Steps |-> {}]
  /\ loaded = [s \in Steps |-> EmptyLedger]
  /\ aborts = 0
  /\ started = {}
  /\ resent = {}
  /\ wrapped = {}

Enter(s, where) == stage' = [stage EXCEPT ![s] = where]

EndStep(s) ==
  /\ Enter(s, "idle")
  /\ cand' = [cand EXCEPT ![s] = {}]
  /\ cap' = [cap EXCEPT ![s] = 0]
  /\ wrapUp' = [wrapUp EXCEPT ![s] = FALSE]
  /\ executed' = [executed EXCEPT ![s] = {}]
  /\ loaded' = [loaded EXCEPT ![s] = EmptyLedger]

\* goal_step_candidates: what the manifest allows and no step has landed.
\* Mutant: only completed runs are left out.
Candidates_IgnoreLanded(l) == Runs \ l.completed
Candidates(l) == Runs \ l.landed

--------------------------------------------------------------------------------
\* Load the goal and the ledger; refuse once budget and wrap-up are both spent.
BeginStep(s) ==
  /\ stage[s] = "idle"
  /\ ~(overBudget /\ ledger.wrapUp)
  /\ \E requested \in 1 .. MaxRuns :
       cap' = [cap EXCEPT ![s] = IF overBudget THEN 1 ELSE requested]
  /\ cand' = [cand EXCEPT ![s] = Candidates(ledger)]
  /\ wrapUp' = [wrapUp EXCEPT ![s] = overBudget]
  /\ Enter(s, IF Candidates(ledger) = {} THEN "run" ELSE "mark")
  /\ UNCHANGED <<files, overBudget, executed, loaded, aborts, roundHistory>>

\* Each ledger operation reads the file again before it changes it.
LoadLedger(s, from, to) ==
  /\ stage[s] = from
  /\ Enter(s, to)
  /\ loaded' = [loaded EXCEPT ![s] = ledger]
  /\ UNCHANGED <<files, overBudget, cand, cap, wrapUp, executed, aborts, roundHistory>>

\* mark_goal_rounds_landed: on disk before anything runs.
LoadToMark(s) == LoadLedger(s, "mark", "landing")


MarkLanded(s) ==
  /\ stage[s] = "landing"
  /\ Enter(s, "run")
  /\ ledger' = [loaded[s] EXCEPT !.landed = @ \cup cand[s]]
  /\ UNCHANGED <<overBudget, reported, holder, cand, cap, wrapUp, executed, loaded, aborts,
                 roundHistory>>

\* Mutant: the loop keeps its last run to itself.
MayRunMore_Fewer(s) == cap[s] > 1
MayRunMore(s) == cap[s] > 0

Runnable(s, r) == r \in cand[s] \ reported /\ holder[r] = Nobody

\* The run loop claims the first pending candidate in the order of run ids.
StartRun(s) ==
  /\ stage[s] = "run"
  /\ MayRunMore(s)
  /\ \E r \in Runs :
       /\ Runnable(s, r)
       /\ \A q \in Runs : Runnable(s, q) => r <= q
       /\ holder' = [holder EXCEPT ![r] = s]
       /\ started' = started \cup {r}
       /\ resent' = IF r \in started THEN resent \cup {r} ELSE resent
       /\ wrapped' = IF wrapUp[s] THEN wrapped \cup {r} ELSE wrapped
  /\ Enter(s, "exec")
  /\ UNCHANGED <<ledger, overBudget, reported, cand, cap, wrapUp, executed, loaded, aborts>>

FinishRun(s) ==
  /\ stage[s] = "exec"
  /\ \E r \in Runs :
       /\ holder[r] = s
       /\ reported' = reported \cup {r}
       /\ holder' = [holder EXCEPT ![r] = Nobody]
       /\ executed' = [executed EXCEPT ![s] = @ \cup {r}]
  /\ cap' = [cap EXCEPT ![s] = @ - 1]
  /\ Enter(s, "run")
  /\ UNCHANGED <<ledger, overBudget, cand, wrapUp, loaded, aborts, roundHistory>>

\* The loop ends at max_runs or when no candidate is pending (idle).
EndLoop(s) ==
  /\ stage[s] = "run"
  /\ ~MayRunMore(s) \/ \A r \in Runs : ~Runnable(s, r)
  /\ Enter(s, "settle")
  /\ UNCHANGED <<files, overBudget, cand, cap, wrapUp, executed, loaded, aborts, roundHistory>>

Abort(s) ==
  /\ aborts < MaxAborts
  /\ aborts' = aborts + 1
  /\ EndStep(s)
  /\ UNCHANGED <<ledger, overBudget, reported, roundHistory>>

\* The worker fails and releases its claim; run_subagent_run_loop returns the
\* error and the step ends at once, with its candidates still landed.
RunFails(s) ==
  /\ stage[s] = "exec"
  /\ Abort(s)
  /\ holder' = [r \in Runs |-> IF holder[r] = s THEN Nobody ELSE holder[r]]

LoadToSettle(s) == LoadLedger(s, "settle", "settling")

\* settle_goal_rounds: executed runs are completed, other candidates unlanded.
\* Mutant: every candidate of the step is recorded as completed.
Settled_AllCompleted(l, candidates, done) ==
  [l EXCEPT !.completed = @ \cup candidates]
\* Mutant: candidates that were not executed stay landed.
Settled_KeepLanded(l, candidates, done) ==
  [l EXCEPT !.completed = @ \cup done]
Settled(l, candidates, done) ==
  [l EXCEPT !.completed = @ \cup done, !.landed = @ \ (candidates \ done)]

Settle(s) ==
  /\ stage[s] = "settling"
  /\ ledger' = Settled(loaded[s], cand[s], executed[s])
  /\ IF wrapUp[s]
     THEN Enter(s, "consume") /\ UNCHANGED <<cand, cap, wrapUp, executed, loaded>>
     ELSE EndStep(s)
  /\ UNCHANGED <<overBudget, reported, holder, aborts, roundHistory>>

LoadToConsume(s) == LoadLedger(s, "consume", "consuming")

\* consume_goal_wrap_up_round, after the round has run and is settled.
\* Mutant: the flag is set on the copy and never written.
ConsumeWrapUp_Unsaved(s) ==
  /\ stage[s] = "consuming"
  /\ EndStep(s)
  /\ UNCHANGED <<files, overBudget, aborts, roundHistory>>

ConsumeWrapUp(s) ==
  /\ stage[s] = "consuming"
  /\ ledger' = [loaded[s] EXCEPT !.wrapUp = TRUE]
  /\ EndStep(s)
  /\ UNCHANGED <<overBudget, reported, holder, aborts, roundHistory>>

\* The process dies; its worker's claim goes stale and can be taken over.
StepDies(s) ==
  /\ stage[s] \in CrashAt \ {"idle"}
  /\ Abort(s)
  /\ holder' = [r \in Runs |-> IF holder[r] = s THEN Nobody ELSE holder[r]]

\* The wall clock passes started_at + max_minutes.
TimeIsUp ==
  /\ Budgeted
  /\ ~overBudget
  /\ overBudget' = TRUE
  /\ UNCHANGED <<files, stepLocals, aborts, roundHistory>>

\* A worker started outside any goal step serves the same queue.
OutsideRun(r) ==
  /\ Outsiders
  /\ r \notin reported
  /\ holder[r] = Nobody
  /\ reported' = reported \cup {r}
  /\ UNCHANGED <<ledger, overBudget, holder, stepLocals, aborts, roundHistory>>

Work(s) ==
  \/ BeginStep(s)
  \/ LoadToMark(s)
  \/ MarkLanded(s)
  \/ StartRun(s)
  \/ FinishRun(s)
  \/ EndLoop(s)
  \/ LoadToSettle(s)
  \/ Settle(s)
  \/ LoadToConsume(s)
  \/ ConsumeWrapUp(s)

RoundsNext ==
  \/ \E s \in Steps : Work(s) \/ RunFails(s) \/ StepDies(s)
  \/ TimeIsUp
  \/ \E r \in Runs : OutsideRun(r)

RoundsSpec == RoundsInit /\ [][RoundsNext]_roundVars

\* The goal is stepped again and again and a step goes on; nothing else is fair.
FairRounds == RoundsSpec /\ \A s \in Steps : WF_roundVars(Work(s))

--------------------------------------------------------------------------------
\* Every variable has its type; no step may ever run less than nothing.
RoundsTyped ==
  /\ ledger \in Ledgers
  /\ overBudget \in BOOLEAN
  /\ reported \in SUBSET Runs
  /\ holder \in [Runs -> Steps \cup {Nobody}]
  /\ stage \in [Steps -> StepPC]
  /\ cand \in [Steps -> SUBSET Runs]
  /\ cap \in [Steps -> 0 .. MaxRuns]
  /\ wrapUp \in [Steps -> BOOLEAN]
  /\ executed \in [Steps -> SUBSET Runs]
  /\ loaded \in [Steps -> Ledgers]
  /\ aborts \in 0 .. MaxAborts
  /\ started \in SUBSET Runs
  /\ resent \in SUBSET Runs
  /\ wrapped \in SUBSET Runs

\* What a step started no step starts again: the money a failed, aborted or
\* truncated round has cost is not spent twice.
NoResend == resent = {}

\* The ledger calls a run completed only when its report is in the queue.
CompletedHasReport == ledger.completed \subseteq reported

\* A run is landed and not completed, which needs a human decision, only while
\* a step is at work on it or after a step was aborted.
PhantomOnlyByAbort ==
  aborts = 0 /\ (\A s \in Steps : stage[s] = "idle")
    => ledger.landed = ledger.completed

\* goal_dispatch.rs: after the budget only one wrap-up round, and in it one run;
\* each aborted step leaves at most one round more.
WrapUpsAreCounted == Cardinality(wrapped) <= 1 + aborts

\* The ledger tells the truth, whatever was aborted, cut off or killed: what it calls
\* completed is reported, what it leaves landed was aborted, and it allows one
\* wrap-up round and one more for each abort.
LedgerIsTrue == CompletedHasReport /\ PhantomOnlyByAbort /\ WrapUpsAreCounted

\* Stepping a goal again and again executes every run of its manifest in the end,
\* unless its budget ends first or an aborted step left a run landed.
EveryRunAttempted ==
  \A r \in Runs : <>(r \in reported \/ r \in started \/ aborts > 0 \/ overBudget)
================================================================================
