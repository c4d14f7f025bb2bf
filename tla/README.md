# TLA+ for chuang-agent

Formal models of the parts of chuang-agent in which order, failure and
concurrency matter: the file queue that external subagent workers serve, the
goal runs and the steps that pay for their runs, the app-server daemon, the tool
loop of a turn, the approvals of the operator, the records a turn leaves behind,
the skill files and the rules that change themselves, the memory budget and the
lifecycle engine. TLC checks each on a small instance; TLAPS proves every safety
and action property of the runs that pass, for every value of the constants. (Two of
the goal steps' properties are proved, and hold, only for steps that do not overlap.)

* [The system](#the-system)
* [Modules](#modules)
* [How the state and the actions correspond to the code](#how-the-state-and-the-actions-correspond-to-the-code)
* [Runs](#runs)
* [Bounds](#bounds)
* [Fairness](#fairness)
* [Proofs](#proofs)
* [Divergences from the documents](#divergences-from-the-documents)
* [Not modelled](#not-modelled)
* [Plan](#plan)

Run everything from this directory:

    tlc -workers 2 -config queue_safety.cfg MCSubagentQueue
    tlapm SubagentQueueProofs.tla

`PROJECT.json` lists the components, the runs with their properties, a mutant of
the code for every property, the lines each definition stands for, the hazards
and the theorems. Names that end in `_Something` in a module (`Stale_Hasty`) are
the mutated forms of the definition before the underscore; no run uses them by
themselves.

## The system

chuang-agent is a command line agent written in Rust. One process serves one
command; several of them run at the same time and meet only in files. The one
long-lived process is the app-server daemon, which serves its clients over a
Unix socket with a thread per connection.

| Component | Source | State | Operations | Talks to |
|---|---|---|---|---|
| Subagent file queue, worker loop | `subagent_queue.rs`, `cli_subagent.rs` | the files `dispatch/`, `claims/`, `claim-releases/`, `reports/`, and a temporary file for each | write a dispatch, list, claim, take over, run, report, release | runners (child processes), every other worker, the operator |
| Goal step and round ledger | `cli_goal.rs`, `goal_dispatch.rs` | the ledger of a goal: landed and completed runs, wrap-up round | step: mark, run, settle, consume | the queue, as a worker of its own; the goal's time budget |
| App-server daemon | `app_server.rs` | threads, turns, sequence numbers and active turns in memory; an SQLite snapshot | thread/start, thread/resume, turn/start, turn/guidance, turn/interrupt, recovery | clients on sockets; a tool loop for each turn |
| Tool loop | `cli_runtime.rs`, `tool_runtime.rs` | round, retries, tool calls, kept text, cursor into the guidance file | call the model, parse, run a tool, finish | provider, tools, the guidance file of the daemon |
| Memory budget | `memory_policy/` | reservations, allocations, a sequence number | reserve, commit, release, reclaim, expire, admit with eviction | its callers |
| Lifecycle engine | `lifecycle/` | a state, a queue of deferred commands, a checkpoint file | handle (and save), drive deferred, reopen | its owner, which finishes what a command began |
| Goal runs | `goal_run.rs`, `goal_mode.rs`, `goal_dispatch.rs` | the goal file: status, checkpoints, evidence; the dispatch manifest | plan, checkpoint, status, dispatch, collect | goal steps, the queue, operators |
| Approvals | `operator_approval.rs`, `tool_runtime.rs`, `cli_approval.rs` | files of pending calls, tickets, consumption markers | ask, approve, prompt, resume | the tool loop, operators, the rule file |
| Records of a turn | `cli_runtime.rs`, `session_archive.rs`, `diary.rs`, `hermes_memory/`, `cli_memory.rs` | SQLite tables, the diary of a day, two hot memory files, the queue | remember a turn, distill a day | other turns, the command `diary distill` |
| Skill files | `cli_skill.rs`, `cli_goal.rs` | one file for each skill, its old versions quoted inside | solidify, retire, roll back, evolve | operators, the outer loop of a goal |
| Rule evolution | `skill_evolver/` | stream of observed events, rule files, journal of changes | observe, change a rule, roll back | every turn, operators |
| Queued spawner, slots | `subagent_spawner/`, `slot_registry.rs` | runs of one runtime, in memory and as dispatch files | spawn, steer, collect, restore | the queue, the tool loop |
| Subagent tree | `subagent_tree_ledger.rs` | threads of subagents and their reports | spawn, report, close | tests only |

`PROJECT.json` lists the other components too (front ends, providers, context
engines, control plane, browser worker, benchmarks, plugins, scripts), with the
reason why each has no model.

What is hard here, and what a test does not reach:

* **Files as the only shared state.** A worker's claim is a test followed by a
  write, a ledger is loaded, changed and written back, a file is written under a
  temporary name that all writers share and then renamed. Any other process may
  act in between, and any process may die there.
* **Time as the only failure detector.** Nobody tells a queue that a worker is
  dead. A claim that is older than the idle timeout is taken over, by then its
  first holder may still be at work.
* **Money.** A run that was started has cost something, whether or not it left a
  report. The round ledger exists so that a step that fails, is cut off by its
  budget or dies leaves nothing that the next step pays for again.
* **A lock that is given up.** turn/start takes the daemon's lock three times and
  checks twice that the thread is free; the turn runs without it, and a save can
  fail after memory was changed.
* **Controls from outside.** A stop or a note is appended to a file at any time
  and seen at the next safe point; there is a window behind every safe point, and
  retries have none.
* **A yes that is given later.** A call that was refused is written to a file with
  all it takes to run it, and run by another command at another time, under rules
  that may have changed; a marker is all that keeps it from running twice.
* **Six stores, no transaction.** A finished turn writes to tables, to files that are
  replaced by rename and to files that are truncated and filled; any write can
  fail, and other turns do the same at the same time.
* **Text that undoes itself.** Rules and skills are rewritten by the program, and
  what a rollback can find again is what was quoted in a file or in a journal.
* **Many ways out.** A turn ends in eleven ways, three of which hand over an
  answer; each has its own idea of what the task needed.

For each component, what makes it correct:

* queue: a run has one executor and one report unless it was released or timed
  out; it is reported in the end, unless a file that nobody can parse is in its way;
* goal steps: as long as steps do not overlap, nothing is started twice and the ledger tells the truth; a spent budget
  buys one more round and no more, every run gets its turn;
* daemon: a thread, its active turn and the request at work agree; what a client was told,
  by an answer or by looking, stands, and an id it learned is not used again, but for what it
  was only shown and no save had reached when the daemon died; a busy thread becomes free;
* tool loop: a stop takes effect, guidance arrives, no unverified answer
  leaves, a turn ends;
* goal runs: what a command acknowledged stays, ids are unique, a manifest and a
  collected checkpoint tell only of runs that are there;
* approvals: a yes runs its call once at most, the call it was given for and as the
  kind of action it was shown as; a prompt that was shown can be answered;
* records: what is reported as applied is there, the summary covers the archive,
  the diary keeps up, nothing is left of a turn that is not archived;
* skill files: no version is lost and no two published versions have one number, as long as
  commands do not overlap; a proposal that failed is gone;
* rules: a change has its evidence, the journal accounts for it, a rollback restores
  what was there;
* memory budget: never more is promised than there is, ids are unique, a commit
  gets what was reserved;
* lifecycle: saved commands survive, in order, refused ones leave nothing, nothing
  is evaluated late.

## Modules

    SubagentQueue <-- SubagentQueueProofs       GoalRun, GoalRounds <-- GoalProofs
          ^                                        ^          ^
    MCSubagentQueue                           MCGoalRun   MCGoalRounds

    AppServer <-- AppServerProofs               Approvals <-- ApprovalsProofs
          ^                                          ^
    MCAppServer                                 MCApprovals

    LiveTurn <== ToolLoop <-- ToolLoopProofs    TurnRecords <-- TurnRecordsProofs
                    ^                                ^
                MCToolLoop                      MCTurnRecords

    SkillFiles, RuleEvolution <-- EvolutionProofs
         ^            ^
    MCSkillFiles  MCRuleEvolution

    MemoryBudget, Lifecycle <-- KernelProofs
         ^            ^
    MCMemoryBudget  MCLifecycle

`<--` is EXTENDS; `<==` is refinement, with LiveTurn instantiated in ToolLoop.
Two models that one module proves things about use different names: the steps,
the rules and the engine have `RoundsSpec`, `RulesSpec` and `EngineSpec`, and
their `Init`, `Next` and types likewise; every other module has `Spec`.

| Module | What it is |
|---|---|
| `SubagentQueue` | the queue's files, the workers and the operator; creating, truncating, filling and renaming a file are steps of their own, the test of a claim (marker and claim) is one |
| `GoalRounds` | `goal step` over the round ledger; each load and each write is a step. What it assumes of the queue is what `SubagentQueue` grants a run loop: a run that is neither reported nor claimed can be claimed |
| `GoalRun` | the goal file and the dispatch manifest under the commands that change them, each load, each truncation and each fill a step; runs and reports are those of `SubagentQueue`, seen from outside |
| `Approvals` | one call from the request to its run: pending file, ticket, marker, with edits of rules, policy and identity in between |
| `AppServer` | the daemon, one step per critical section, with listings and resumes by clients, failing saves, crashes and recovery. A running turn ends with some outcome |
| `ToolLoop` | what happens between the registration of that turn and its outcome |
| `LiveTurn` | what the daemon and its clients rely on of a turn, whatever happens inside: `ToolLoop` implements it, `AppServer`'s `RunEnds` and `Record` are its `End` and `Recorded` |
| `TurnRecords` | what follows the answer of a turn, in all processes: archive, summary, diary, hot memory files, dispatch; and the distilling of a day |
| `SkillFiles` | one skill file, its versions and snapshots, under the commands that rewrite it |
| `RuleEvolution` | the stream of events, a rule for each pattern and the journal, under turns, rollbacks and edits by hand |
| `MemoryBudget` | the admission policy, one step per operation, several callers |
| `Lifecycle` | the engine's table, its deferred queue and its checkpoint file |
| `...Proofs` | theorems about the modules it extends |
| `MC...` | instances for TLC: runs, workers, crash points |

## How the state and the actions correspond to the code

**SubagentQueue.** `file` holds the contents of `claims/`, `claim-releases/` and
`reports/` per run: `Absent`, a payload (who wrote it and when), `Empty` (created or
truncated and not yet written), or `Garbled` (filled by two writers with payloads of
different length). `tmp` holds the temporary file of `atomic_write`, one for every
published file, shared by all that write it; `fd` says what the file a writer has
open has become since: still the temporary file, the published one after another's
rename, or no file any more (`Moved`). So a rename can publish what another process has just truncated, and a writer
can fill a file that is published already. `run_one_pending_subagent`
is ListDispatches, ListReports, then for each pending run in the order of ids
SkipClaimed, ClaimUnreadable, FindUnclaimed or FindReclaimable. ClaimUnreadable ends the
command, as the code does, so the runs behind are not looked at. The claim is made
by CreateClaim / CreateLost / FillClaim or, over a released or stale claim, by OpenTmp, PutTmp and
RenameTmp. RunnerReports and RunnerFails end the execution; OpenTmp, PutTmp, RenameTmp
and RenameFails publish. `now` is the clock of `claimed_at_unix_nanos` and
`released_at_unix_nanos`; what a worker stamps is later than what it saw before.
`firstClaim` is a history variable.

**GoalRounds.** `ledger` is the ledger file; `loaded[s]` what step `s` loaded for
the operation it is in. BeginStep is the beginning of `goal_step_command` with
its refusal and its cap of one run when the budget is spent; LoadToMark and
MarkLanded are `mark_goal_rounds_landed`; StartRun, FinishRun, EndLoop and RunFails are
`run_subagent_run_loop` with the allow-list; LoadToSettle and Settle are
`settle_goal_rounds`; LoadToConsume and ConsumeWrapUp are
`consume_goal_wrap_up_round`. `started`, `resent` and `wrapped` are history.

**AppServer.** `state` is `AppServerState` without `active_turns`, which is
`active`; `snapshot` is what the last successful save wrote. Allocate,
ReadHistory and Register are the three critical sections of
`prepare_live_turn`; Abandon is a failure outside of them; Announce, RunEnds,
Record and Answer are `handle_live_turn_start` after that. `Save(s, saved)` may
fail at every place the code saves, and each place then does what the code does:
Register takes back the turn, Record keeps memory as it is, thread/start keeps its
thread. Restart is `load_app_server_state_from_db` with the interrupted turns and
the sequence floors, and serves only if its own save succeeds. ListThreads and ResumeThread
are `thread/list` and `thread/resume`: they change nothing but what clients know. That
is history: `told` holds the ids clients learned from the answers to their own requests, and
those of all turns they were shown; `answered` the ends of turns they learned from answers;
`shown` the threads and the ends of turns that a list or a resume showed them. All of it counts,
whether or not a save has it by then; Crash alone takes from `shown` what the snapshot does not
hold, because that is what the code loses: a thread or a finish that was shown, whose save had
failed, and which no later save wrote before the daemon died.

**ToolLoop.** `pc` names the safe points and the calls of
`run_governed_turn_with_tools_live`; an output of the model is one of the forms
that the code tells apart, a tool ends in one of the ways it tells apart. `notes`
is the guidance file, `cursor` the part that was read; Control appends to it at
any time until the turn is recorded. Every stop check searches the whole file,
as `ensure_turn_not_cancelled` does.

**GoalRun.** `goal` is the goal file, `manifest` the dispatch manifest; both can be
torn, as they are written in place (Truncate, Fill) or not. A command loads what
it needs, decides, and writes later what it loaded and changed, so that another
command's write in between is lost: the history variables say which writers raced.
Dispatch writes the dispatch files of a batch one by one and then the manifest
(Publish). A worker may write a report, accepted or refused, at any time and over an
earlier one, as `write_report` does (Report); a refused report and a missing one are one value,
as neither counts. BeginCollect loads goal and manifest, ReadReport reads
the reports one after the other (`counted`), Collect finds that all count, and Record writes the
checkpoint.
`accepted` is history: the runs that have had an accepted report.

**Approvals.** `pending`, `ticket` and `spent` are the files of one approval id.
Ask is the request of the tool loop, which writes the pending file with
`create_new` (CreatePending, FillPending) or compares it with the one that is there
(FindPending). SayYes and BringTicket are the two ways an operator agrees; CheckAgain is the
second classification at the time of the resume, Consume the marker, RunCall
the call. The permission tables are an external choice (`policy`).

**TurnRecords.** `remember_turn_if_requested`, step by step in its order, with
`status` as its `RememberCommitTracker`. SQLite statements are atomic. The diary is
truncated and filled (`fs::write`), the hot memory files go through one
temporary file for all processes, so OpenTmp truncates what another process has there and
RenameTmp moves a file others have open (`Moved`). One day, entries of
equal length (`Overlay`), reads that do not fail, the two reads of a
distillation in one step, dispatch files written at once, and the
files there from the beginning are what the model leaves out.

**SkillFiles.** One skill. A file is what `rendered` builds: the current version and, nested
in its snapshot section, the file it replaced; a command reads it, renders the
next one and writes it in place (Truncate, Fill). A rollback finds what the
reader of the code finds: the first marker of each kind.

**RuleEvolution.** `observed` is the stream of events, `rules` holds the rule of each
failure signature (one to one here), `journal` the changes. A turn adds what its tools
did to the stream and, for a failure found `MinRepeats` times in it, writes the
rule and then the journal, both in place. A torn
prefix of a file counts as an empty file; the minimum interval between changes and the gated
application, which the program's loop does not use, are left out.

**MemoryBudget**, **Lifecycle.** One action per public operation that changes
state; the callers hold tokens and use each at most once; the owner of an engine
writes its public field `state` when what a command began has finished.

## Runs

| Run | Distinct states | What it shows |
|---|---|---|
| `queue_safety` | 1,106,491 | two workers and the operator over two runs, of which one worker admits only the first, with one fault at any point: `Exclusive`, `WorkIsClaimed`, `ReportStable`, `EventuallyReported` |
| `rounds_one_step` | 5,052 | one step at a time over three runs, with aborts, crashes, outside workers and a budget: `NoResend`, `LedgerIsTrue`, `EveryRunAttempted` |
| `server_turns` | 611,552 | two clients, two threads, two turns, a failed save, two crashes: `OneTurnPerThread`, `IdsNotReused`, `ToldStands`, `HistoryIsDurable`, `ThreadsBecomeFree` |
| `loop_safety` | 196,207 | two rounds, two retries, two controls, every kind of task: `StopTakesEffect`, `GuidanceReachesModel`, `AnswersAreVerified`, and the refinement `ImplementsLiveTurn`, which includes that every turn ends |
| `budget_safety` | 212,329 | two callers, any order of operations: `BudgetWellFormed`, `CommitsItsToken` |
| `lifecycle_safety` | 805,604 | any commands, one crash: `EngineWellFormed`, `AnswersHold` |
| `goal_commands` | 1,712,544 | two processes, two batches of two workers whose reports are replaced, one process dying anywhere: `IdsUnique`, `ReceiptsStand`, `ManifestDispatched`, `CollectedIsBacked` |
| `approvals_safety` | 419,360 | two processes ask for and resume one call while rules are edited, one dies: `OncePerApproval`, `RunsAsApproved`, `PromptIsDurable`, `StuckOnlyByCrash` |
| `records_safety` | 901,389 | two turns and a distillation, one failure or death: `RecordsWellFormed`, `AppliedStands`, `SummaryCovers`, `DiaryKeepsUp`, `ArchiveComesFirst` |
| `skills_safety` | 4,285,439 | four commands, two at a time, one failure or death: `SkillWellFormed`, `HistoryIsWhole`, `GateHolds` |
| `skills_rollback` | violation | `UndoIsThere`: the rollback of a retired skill finds an older version than the one retired, a third version none at all |
| `rules_safety` | 1,113,255 | two turns, one rollback, one edit, one overlap or failure: `RulesWellFormed`, `ChangesHaveEvidence`, `JournalAccounts`, `RollbackRestores` |

A property that joins several claims is a conjunction of named ones, each with a
comment of its own in its module:

* `LedgerIsTrue`: `CompletedHasReport`, `PhantomOnlyByAbort`, `WrapUpsAreCounted`;
* `AnswersHold`: `PromisesKept`, `RefusedForgotten`, `NotEvaluatedLate`;
* `ReceiptsStand`: `NothingLost`, `DecisionStands`, `UnreadableOnlyByCrash`;
* `RunsAsApproved`: `ConsentedTo`, `RanAsShown`;
* `AppliedStands`: `MemoryStands`, `DiaryStands`, `DispatchStands`;
* `JournalAccounts`: `AuditTrail`, `ByHandIsKept`;
* `BudgetWellFormed`, `EngineWellFormed`, `RecordsWellFormed`, `SkillWellFormed` and
  `RulesWellFormed`: the module's types and what keeps its data in shape (the
  budget is not exceeded and ids are unique; the queue is first in, first
  out; no lesson is distilled twice; no two published versions have one number as long as
  commands do not overlap; an undisturbed stream of events is the tail of what happened).

Where a proof of its own shows the types (queue, rounds, daemon, loop, goal runs,
approvals) no run repeats them. `PROJECT.json` names a mutant for each property; TLC finds the
property violated in it.

Properties about files that nothing locks cannot say that nothing is ever lost: the
code loses updates when two processes overlap. They say instead that nothing is lost
*unless* two processes overlapped on that very file or one died inside its write, and
history variables (`hurt`, `raced`, `upset`, `disturbed`) record just that. So these
properties tell which data is at risk and from what, and that everything else is not; they do
not catch the loss itself. It is in the models, and no run is about it: the hazards in
`PROJECT.json` say so at each place, with the document that promises more where there is one.

## Bounds

Every bound is a constant or a set in the cfg.

* Queue: two workers and the operator, who writes releases, are the parties of every race
  over a run. A second run matters because a scan goes through the runs in order and
  fails as a whole at a file it cannot parse; only one of the workers admits it, so it is served
  behind the first or not at all. `Timeout = 3`, `MaxTime = 4`: a claim can
  go stale with its holder at work, be taken over by both workers at a time, and their writes
  overlap: torn claims and torn reports are reached. One fault (`MaxFaults`); a fault
  happens only while the clock can still pass the timeout (`now + Timeout <= MaxTime`),
  otherwise the bound on the clock, and not the code, would keep the run from
  being reported. Stamps may pass `MaxTime`. That the second holder of a run fails too is beyond the
  bound; the safety properties are proved for any number of faults, workers and runs.
* Rounds: three runs and at most two per step, so that a step can be cut off by
  `--max-runs`; two aborts, so that an abort can follow an aborted step's successor.
  One step at a time, because `NoResend` does not hold of two.
* Daemon: two threads and two turns are enough for a race for one thread, for turns
  one after the other and for turns side by side; a history limit of one, so
  that the limit cuts; one failed save, two crashes, so that a recovery can
  crash or fail and be repeated.
* Loop: two rounds, so that something is carried over; two retries; two controls, so that a
  stop can follow a note. `MaxNotes` bounds what clients send.
* Budget: sizes of one and two in three free bytes, two owners, three tokens, three
  allocations: exact fits, misfits, and removal in front of something.
* Lifecycle: two deferred commands, a limit of two ticks, one crash.
* Goal runs: two processes, the two parties of every race, and one crash. What a
  collect stands on needs two workers, so that reports change between two reads, and two batches, so
  that a second dispatch replaces a manifest that a collect has loaded. One checkpoint id: a second
  checkpoint is refused or races with the first for the same id, and a checkpoint races with
  `goal plan` and `goal status`; goals with several checkpoints are left to the proofs.
* Approvals: two processes and one call, because an approval id is that of one
  call; two kinds of action and two contents of the rule file, so that an edit can
  change both; one crash.
* Records: two turns, of one session or of two, and one distillation, so that
  every store has two writers; a diary threshold of two and a limit of two entries, so that both
  are reached; one fault. The requests (`MCRequests`) are turns that close two sessions, turns that
  stay in one, and one of no session.
* Skills: four commands, at most two at work, so that a third version exists and a
  rollback follows a retirement; one fault.
* Rules: two turns and a rollback; batches of a success and of three events with a repeated failure,
  so that `MinRepeats = 2` is passed within a turn and across two; one edit by hand; one overlap or fault.

Processes, workers, turns and commands are symmetric where a run uses symmetry, and no run
that checks liveness does.

## Fairness

* `SubagentQueue`: a started process goes on, a runner ends (it is killed at
  `idle_timeout_ms`; the model takes for granted that its pipes are then closed),
  workers are invoked again (`run-loop`, cron), time passes. Nothing makes a runner
  fail, a worker crash or an operator act.
* `GoalRounds`: the goal is stepped again and again (watchdog script, operator),
  and a step goes on. Aborts, outsiders and the end of the budget are not fair.
* `AppServer`: the threads that serve requests go on, a run ends (the fairness of
  `LiveTurn`, which `ImplementsLiveTurn` shows of `ToolLoop`), somebody starts the daemon again. Clients are taken to
  read what is written to them or to close: the code has no write timeout.
* `ToolLoop`: weak fairness of the loop as a whole, as model calls and tools have
  timeouts. Controls are not fair, and no branch is preferred.
* The modules about commands (`GoalRun`, `Approvals`, `TurnRecords`, `SkillFiles`,
  `RuleEvolution`) state no fairness: a command may stop anywhere and nothing
  starts the next, so they have safety properties only, and their runs
  do not check for deadlock where everything may be over.

## Proofs

TLAPS proves, with SMT, Zenon and, for the temporal steps, PTL, for every
value of the constants that the named assumptions admit:

| Module | Theorems | Inductive invariant |
|---|---|---|
| `SubagentQueueProofs` | `ExclusiveExecution`, `ClaimBeforeWork`, `FirstReportStands` | `TypeOK`, `PhaseOK`, `OpenOK`, `FirstClaimOK`, `ClaimKept`, and for each run `Reopened` or `OneHolder` |
| `ToolLoopProofs` | `TypeCorrect`, `StopsTakeEffect`, `GuidanceArrives`, `AnswersVerified`, `ImplementsTurn` | `TypeOK`, `ResultOK`, `ToolOK`, `LateOK`, `DemandsMet` and the three properties |
| `AppServerProofs` | `TypeCorrect`, `ThreadsAreExclusive`, `IdsStayUnique`, `WhatWasToldStands`, `HistoryStands` | `TInv`, `OneTurn`, `IdsInv` (`Known`, `ShownThreads`), `ToldInv` (`Open`, `Answering`), `ShownEnds`, `HistoryInv` |
| `GoalProofs`, commands | `TypeCorrect`, `IdsNeverRepeat`, `ManifestIsDispatched`, `CollectedStandsOnReports`, `ReceiptsKept` | `TInv`, `AllUnique`, `NamedIsQueued`, `CountedInv`, `AllBacked`, `Serial`, `Legible` |
| `GoalProofs`, steps | `RoundsTypeCorrect`, `CompletedIsReported`, `LoneStepNeverResends`, `LoneStepKeepsTheLedgerTrue` | `RoundsTyped`, `ExecHasCap`, `BackedByReports`; with one step: `CopyCurrent`, `OneClaim`, `StartedStaysLanded`, `NoPhantoms`, `WrapUpsPaid` |
| `ApprovalsProofs` | `TypeCorrect`, `RunsOnce`, `RunsWithConsent`, `StaysSpent`, `PromptsAreDurable`, `FilesStand`, `OnlyCrashesStick` | `RunInv` (with `AnswersKnown`, `MarkersExclusive`), `FileInv` (with `WritersExclusive`); `StuckOnlyByCrash` itself |
| `TurnRecordsProofs` | `FrameStands`, `TheSummaryCovers`, `WhatIsAppliedStands`, `TheArchiveComesFirst`, `LessonsAreNotRepeated`, `TheDiaryKeepsUp` | `Framed`, `Excl`, `Archived`, `Queued`, `Dated`, `Filed`; `Course`, `Stored`, `Tallied`; `Unrepeated`; `Paced` |
| `EvolutionProofs`, skills | `Versions`, `NothingIsLost`, `ProposalsPassed` | `TypeOK`, `Begun`, and `Orderly` unless commands overlapped |
| `EvolutionProofs`, rules | `TheStreamIsTail`, `EvidenceIsCited`, `TheJournalAccounts`, `RollbacksRestore` | `RulesTyped`, `Staged`, `Evident`, `Trailing`, `OrderKept` |
| `KernelProofs`, budget | `BooksInOrder`, `CommitsTheirToken` | `BudgetWellFormed` and `CommitsItsToken` themselves |
| `KernelProofs`, engine | `QueuesInOrder`, `AnswersAreHeld`, `FailedEnginesRecover` | `EngineTyped`, `FirstInFirstOut`, `Stamped`, `Kept`, `NotEvaluatedLate` |

*The queue.* `Exclusive` alone is not inductive: nothing in it keeps a worker
from creating a claim while another is about to run. The strengthening says what a
worker carries at each control point (`PhaseOK`), which files are open (`OpenOK`), that a run has a first claim stamp from the
moment its claim file exists (`FirstClaimOK`), that a claim file is never
removed (`ClaimKept`), and that, until a release is published or the first claim
times out, one worker at most is engaged in the run, the claim it filled can be read, nobody has
a temporary file of the claim, and a report ends the engagement (`OneHolder`). A torn file is among the contents of
every published and every temporary file, so `ClaimBeforeWork` says something: of a run that was not
reopened, the claim behind work or a report is whole; of one that was, only that a claim file is
there. Once a run is `Reopened` it stays so, since the clock does not
go back and release files are not removed. Assumed: `QueueAssumption` only (no
bound on workers, runs, faults or time).

*The goal steps.* A ledger, and every loaded copy, calls completed only
what is reported (`BackedByReports`); this survives any number of overlapping
steps because reports are never removed, so an old copy is never wrong about them.
That nothing is resent holds only if steps do not overlap
(`LoneStepNeverResends` assumes it; with two elements in `Steps` TLC finds it violated): then the copy a step is
about to write is the file plus what it did itself (`CopyCurrent`), it has one claim at most
(`OneClaim`), and what was started is landed or is a candidate of this
very step, which keeps it in `executed` or aborts with it landed (`StartedStaysLanded`).
The whole of `LedgerIsTrue` needs the same lone step. `NoPhantoms` says at each control point what is
landed beside the completed runs: the candidates of the step at work, from the mark to
the settlement, and nothing elsewhere as long as nobody was aborted. `WrapUpsPaid` counts:
the runs started in wrap-up rounds are at most the aborts, and one more while the
round at work has started its run or once the ledger says the round is consumed.

*The tool loop.* `LateOK` says for each place how much can have begun since a
stop: nothing at the safe points and before, one tool or one call and its retries
between them. `DemandsMet` carries the demand test of the end of the rounds to
the last answer. `ImplementsTurn` maps the initial states and
every step to `LiveTurn`, with `1 + MaxModelRetries` pieces of late work.

*The daemon.* The proof first shows what each operation on the state does to the
turns of a thread (lemmas about `WithTurn`, `Restored` and the like), so that the
invariants speak of `TurnsOf(state, thread)` only. `OneTurn` relates a request's
control point, the active turn and the list of its thread. `IdsInv` keeps every id
that clients learned below the sequence numbers in memory or, when the daemon is down, in the
snapshot. Of turns that is so because no turn is in a list before the save of its registration;
of threads that were only shown (`ShownThreads`), because they are in memory until the daemon dies,
and in the snapshot if `shown` still has them afterwards. `ToldInv` says what the history of
answers relies on while a turn is
open (`Open`) and while it is answered (`Answering`); a recovery closes only what no answer mentions.
`ShownEnds` adds the ends that a resume showed: they stand in memory, whatever saves fail, and a
restart finds those that are left in the snapshot.

*Goal runs.* A file that is read, changed and written later keeps an earlier
acknowledgement only if no other process wrote between; the history variable says so, and
`Serial` says that without a race one command at most holds a copy, and that the
copy covers what was acknowledged, as the file does. `CollectedIsBacked` cannot stand on the
reports, which workers replace: it stands on the history of accepted ones. `CountedInv` says that
what a collect has counted so far is of them, one report after the other.

*Approvals.* The marker is created with `create_new`, so one process holds it; the call
runs only in the step of its holder after the second classification. That nothing
spent becomes usable again (`StaysSpent`) is an action property, so it holds across crashes.

*The records of a turn.* `Framed` holds the types and the positions. `Excl` says
that of processes that change a store at the same time there is one only, unless the store is in `hurt`;
all else follows a single writer: the replay counted the whole archive (`Archived`), the
spawner saw all dispatches (`Queued`), the truncated diary is in the hands of the one
that fills it (`Dated`), the temporary file is the hot file and one entry (`Filed`).
Three lemmas (`Marks`, `Goes`, `Owners`) tell from what changed which action it
was, so each invariant looks only at the actions that concern it. Nothing is assumed about what a
distillation chooses. `Course` says that a turn that is past its archive has
its sequence number and is there in the archive under it; `Stored` that everything in diary, memory files and
queue, in open files and in hands that are about to write, is of such turns: that is
`ArchiveComesFirst`. `Unrepeated` says what a distillation that writes knows of the ids of the
lessons (`RecordsWellFormed`). `DiaryKeepsUp` needs no sum over the diary: a turn that
leaves it alone has an entry of its session fewer than `Threshold` turns before it (`Near`), in
the diary or in the hands of the turn that rewrites it (`Paced`).

*What a model was told (daemon).* `HistoryInv` follows the history of a turn from the
second critical section on: it is finished in memory, and the save of the registration, without
which no turn starts, writes it to the snapshot.

*Skill files.* A content names the contents quoted in it, which were rendered
before it; `HeldEquation` shows that the recursive function `Held` is what its
definition says, with a least counterexample in place of an induction. `Orderly`
holds unless commands overlapped or a write was cut off: what is published is what the file holds and the file has
the highest number of it (`Kept`), a draft holds all that is published and is newer
(`Drafting`), goal evolve can take back what it judges (`Judging`), and a text
that no benchmark passed is in nobody's draft but its author's (`Gated`).

*Rules.* `Evident` needs no order at all: events and changes are genuine wherever they are,
on disk, in memory or half written. `Trailing` lists the three states of an undisturbed stream: it is at
rest and is the end of what happened; one turn rewrites it and has that end in memory; or two
processes are about to lose events, in which case the next write marks the stream as
disturbed. `OrderKept` says that, undisturbed, one process changes a rule at a time and how far it
is (`HasDone`): the journal accounts for all rules, that of the change being written
back excepted (`Owed`). `RollbacksRestore` follows from it for the step that appends the
entry.

*The memory budget.* The sums are folds. The prover cannot induct over data, so the first part of
`KernelProofs` shows that there is a function with the equations of the fold on the sets of places
(`FoldExists`, by the smallest set that would be without one), that `Bytes` and `Without`
compute it, and what an element more, an element less or a filter does to a sum
(`BytesAppend`, `BytesRemoveAt`, `WithoutKeeps`). With these the properties are inductive as they
stand. Sizes and the budget are any numbers; no sum overflows
the `u64` of the code, because what is proved keeps it within the budget, which is one.

*The lifecycle engine.* `Stamped` says that what waits in a queue, in memory or in the file, was
not refused and carries the time of its entry in the log; `Kept` that what was
promised and is not over is in the checkpoint, and in the engine that runs. That a driven
queue keeps its order and its times (`DrivenQueue`) and takes a failed engine nowhere without
a Stop (`DrivenFromFailed`) are facts about the same kind of fold. `FailedEnginesRecover` states
what follows of every step of the engine; no run repeats it.

Assumed, beside types of the constants: turns and distillers are different processes
(`TurnRecords`), as turns and rollbacks are (`RuleEvolution`); the value that stands for the absence of
a rule, an id or a checkpoint is none of them; the strings that stand for control points are no data.
`LoneStepNeverResends` and `LoneStepKeepsTheLedgerTrue` assume `OneStep` in their statements.

Only model-checked: the liveness properties (`EventuallyReported`, `EveryRunAttempted`,
`ThreadsBecomeFree`) and ENABLED, which the prover does not handle, the liveness part of
`ImplementsLiveTurn` included. One property of a run does not hold: `UndoIsThere`.

## Divergences from the documents

One run ends in a violation; `PROJECT.json` describes it under "findings", with the line of the
document it contradicts:

* `skills_rollback`, `cli_skill.rs:1653`: a rollback finds the wrong snapshot, or none.

While reading and modelling, these were met as well; no run checks
them, but the models contain the behaviour:

* `subagent_queue.rs:244`: a worker that dies between creating its claim file and writing it leaves a
  claim that can be taken over neither after the timeout nor after a release, and every scan that reaches it
  fails; cf. `docs/progress-log.md:3220`.
* `cli_goal.rs:1110`: of two steps at a time one sends again what the other has landed and tried; cf.
  the comments at `goal_dispatch.rs:170` and `:354`.
* `app_server.rs:1757`: the id of a thread whose save failed is shown, and given out again once the daemon
  has died; `app_server.rs:2287`: a finish whose save failed is shown, and is an interruption after the daemon
  has died; cf. `docs/repl-app-server-transport.md:46-47`.
* `cli_skill.rs:1465`: of two commands that overlap one loses what the other published; cf.
  `docs/implementation-prep-v1.md:343`.
* `canonical.rs:561`: a turn that dies between its rule and its entry leaves a change that the journal
  does not know; cf. the comment at `rule_change.rs:229`.
* `subagent_queue.rs:239`: a takeover tests a claim and replaces it later; it can replace the live
  claim of another worker that took over in between; cf. `docs/subagent-runner-protocol.md:244`.
* `subagent_queue.rs:486`: the temporary file of a claim, a release or a report has one name for
  all writers; two of them can publish an empty or a mixed file: a release marker, or, of a run that was
  reopened, its claim or its report. Claim and marker then block like a claim that was never written.
* `goal_run.rs`, `subagent_queue.rs:173`: a report is replaced without a test, so the report that a collected
  checkpoint counted as accepted may be a refused one afterwards.
* `cli_runtime.rs:1284`: a text kept as a fallback becomes the answer although a tool
  failed after it; cf. `docs/progress-log.md:1902`.
* `cli_goal.rs:1162`: a crash between a wrap-up round and its consumption repeats the round;
  `goal_dispatch.rs:344`: the ledger is written in place, and one that was cut off stops every later step, as
  a cut-off goal file stops every goal command.
* `operator_approval.rs`: the same call at the same place of a later turn has the same approval
  id, and once consumed it can never be approved again; a changed rule
  file, quoted in the pending file, makes it conflict for good.
* `cli_approval.rs:203`, `cli_runtime.rs:1116`: calls are pending under the agent id `cli` while the active
  identity may be `chuang-cli`, and then a yes at the prompt is refused; cf. `docs/progress-log.md:819`.
* `cli_runtime.rs:4058`: an error of the rolling summary, after the archive has
  committed, is returned as the turn's error, and a retry archives the turn
  again; cf. `docs/acceptance-next-matrix.md:66`, `docs/progress-log.md:850`.
* `hermes_memory/file.rs:177`: the temporary file of a hot memory file has one name for all
  processes; updates are lost when two overlap. `diary.rs:336`: the diary is truncated and
  written in place.
* `cli_memory.rs:267`: distilled lessons have ids of date and sequence number; turns of
  two sessions with one number collide, and one is never distilled; cf. `README.md:92`.
* `skill_evolver/canonical.rs:694`: a failure that repeats writes its rule again in every
  turn, so a rollback is undone by the next one; a rollback is refused once its
  evidence left the stream; a rollback of an older change overwrites later ones and
  edits by hand, and the rollback of a rollback restores what the change claimed to
  replace; cf. the comment at `canonical.rs:672`. Two journal entries can have one
  id, of which the first is found.
* `cli_goal.rs:507`: with an unreadable scoreboard goal evolve leaves the unverified skill in
  place; of several proposals those before a failing one stay written.
* `app_server.rs:1855`: what is written to a client has no timeout; one that neither reads nor
  closes keeps its thread busy.
* `subagent_queue.rs:258`: a claim is released without a test of whose it is.
* `cli_runtime.rs:1119`: a stop right after a tool ends the turn before its record is kept.
* `memory_policy/commit_reclaim.rs:113` numbers tokens by the length of the list of
  reservations; once one in front was removed two live tokens share a number, and
  a commit of the second is refused (`CommitsItsToken` shows that it is never
  satisfied with the bytes of the first).
* `memory_policy/commit_reclaim.rs:185` reclaims the first allocation of a task and agent; called
  twice it reclaims two. `docs/implementation-prep-v1.md:298` wants it idempotent.
* `memory_policy/commit_reclaim.rs:108` counts expired reservations until they are expired by a
  call of their own; `docs/implementation-prep-v1.md:294` has them free.
* `cli_runtime.rs:1026`: the automatic locate counts as a tool call, so a task that needs an action
  can be answered with no action of the model's; cf. `docs/progress-log.md:977`.
* `lifecycle/engine.rs:155`: a Start deferred by a failed engine is evaluated after a Stop
  that was deferred later and takes effect, and starts the engine again.
* `lifecycle/engine.rs:139`: `drive_deferred` saves nothing, so what it did is done again after a
  crash.
* `app_server.rs:2476`: controls are accepted after the last safe point of a turn; they have no effect.

## Not modelled

* In `SubagentQueue`: a report that cannot be parsed, which is reported as far as this model goes; the read-only list, report and collect commands; the content
  of reports and their admission, which ends in a report or in a failure.
* In `GoalRounds`: a ledger file torn by a crash inside `fs::write`, which stops every
  later step. Steps that overlap are in the module and in two of its theorems, but in no run.
* In `GoalRun`: the validation of a plan's fields, the read-only commands.
* In `AppServer`: the stdio mode, which serves one request at a time, model
  lists, workspace matching, image descriptions, payloads.
* In `ToolLoop`: prompts and context, parsing, governance of a tool call
  (an outcome here), metadata.
* In `Approvals`: the permission tables, the audit records.
* In `TurnRecords`: recall, ranking, what is worth keeping, the maintenance
  commands of the memory.
* In `SkillFiles` and `RuleEvolution`: proposing and scoring, the candidate pool, the
  retirement of rules, listing commands.
* The queued spawner's steer, kill, attach and collect, which change the memory of one
  process; restoring, numbering and writing a dispatch are in `TurnRecords`.
* Components without a module: see `PROJECT.json`; they are pure data
  (context packing, rendering, schemas), single calls to the outside (providers,
  control plane), or used by tests only.

The definitions stand for about a twelfth of the implementation's lines. The rest is, for the
greater part, text and transport: prompts, parsers, providers, tools,
terminal and status rendering, argument parsing, schemas. It keeps no state that
two actors share, and a model of it would repeat it line by line.

## Plan

Done: queue, rounds, goal runs, daemon, loop, approvals, records of a turn, skill files, rules,
budget and lifecycle; every safety and action property of the passing runs is proved. Left:

1. `QueuedSpawner` as a module of its own: steer, kill, attach and collect of two
   runtimes over one queue; abstract specification: a set of runs with a status
   each, which both sides implement.
2. `SubagentTree`: depth, open children, closing, reports that reopen.
3. Context packing and the scoring gate as functions against reference definitions.
4. The composition of `AppServer` with `LiveTurn`, and of `TurnRecords` behind it.
5. Refinement of an abstract queue (a set of runs, open, held, reported) by
   `SubagentQueue` for runs that are not reopened.
6. Proofs about `LiveTurn` itself as the environment of `AppServer`, once 4. is there.
