----------------------------- MODULE SubagentQueue -----------------------------
(***************************************************************************)
(* The file queue between the runtime and its external workers             *)
(* (subagent_queue.rs) and the worker loop that serves it                  *)
(* (cli_subagent.rs): run-once / run-loop list the dispatch files, list    *)
(* the report files, claim the first pending dispatch, run it, and either  *)
(* write its report or release the claim.  Every worker, and the operator  *)
(* who runs `subagent release-claim`, is a process of its own that shares  *)
(* nothing with the others but the files of the queue's directory.         *)
(*                                                                         *)
(* A call that changes a file is one step: creating it, truncating it,     *)
(* writing through an open file, renaming it.  So is one test of a claim,  *)
(* which reads the release marker and the claim; what is done on the       *)
(* strength of the test comes in later steps.                              *)
(***************************************************************************)
EXTENDS Naturals, FiniteSets

CONSTANTS
  Workers,    \* processes or batch threads in run-once / run-loop
  Operator,   \* the process that runs `subagent release-claim`
  Runs,       \* run ids; the lexical order of the ids is the order of numbers
  Eligible,   \* per worker: runs its allow-list and its capabilities admit
  Timeout,    \* idle_timeout_ms of the dispatches
  Absent,     \* a file that does not exist
  Empty,      \* a file that was created or truncated and not yet written
  Garbled,    \* a file that two writers filled, with payloads of different length
  MaxTime,    \* bound: the clock ticks, and faults happen, only up to here
  MaxFaults,  \* bound: runner failures, crashes and operator releases
  CrashAt     \* control points at which a worker may crash

Actors == Workers \cup {Operator}
Kinds == {"claim", "release", "report"}
Content == [kind : Kinds, by : Actors, at : Nat]
NoRun == 0

WorkerPC ==
  {"idle", "list", "scan", "create", "fill", "running", "write", "put", "rename"}

\* What the file opened by a writer has become since: still the temporary file,
\* the published one, or no file any more.
OpenFile == {"none", "tmp", "live", "gone"}

ASSUME QueueAssumption ==
  /\ Operator \notin Workers
  /\ Runs \subseteq Nat \ {NoRun}
  /\ Eligible \in [Workers -> SUBSET Runs]
  /\ Timeout \in Nat \ {0}
  /\ MaxTime \in Nat
  /\ MaxFaults \in Nat
  /\ CrashAt \subseteq WorkerPC
  /\ Absent \notin Content \cup Nat
  /\ {Empty, Garbled} \cap Content = {}
  /\ Absent \notin {Empty, Garbled}
  /\ Empty # Garbled

VARIABLES
  dispatched, \* runs with a file in dispatch/
  file,       \* contents of claims/, claim-releases/ and reports/
  tmp,        \* the temporary file of each of them: path.with_extension("tmp")
  fd,         \* the temporary file that a process has open, wherever it is now
  now,        \* the wall clock, in units finer than two successive stamps
  pc,         \* where each process stands
  job,        \* the run it is claiming or serving
  todo,       \* dispatches left to look at in this scan
  out,        \* the payload it is about to write
  faults,     \* faults so far, up to MaxFaults
  firstClaim  \* history: the stamp of the first claim of each run

vars == <<dispatched, file, tmp, fd, now, pc, job, todo, out, faults, firstClaim>>

Claim(r) == file[<<"claim", r>>]
Release(r) == file[<<"release", r>>]
Report(r) == file[<<"report", r>>]

\* What a reader cannot parse, or stumbles over when it tests a claim.
Torn == {Empty, Garbled}
Unreadable(r) == Claim(r) # Absent /\ {Claim(r), Release(r)} \cap Torn # {}

\* A payload written from the start of a file: what is left of a longer one stays.
Written(old, new) == IF old = Empty THEN {new} ELSE {new, Garbled}

Payload(k, a) == [kind |-> k, by |-> a, at |-> now]

\* Mutant of Released: a claim whose run is reported counts as released.
Released_Reported(r) ==
  \/ Report(r) # Absent
  \/ Release(r) # Absent /\ (Claim(r) = Absent \/ Release(r).at >= Claim(r).at)

\* is_claim_released: the marker is at least as recent as the claim it covers.
Released(r) ==
  /\ Release(r) # Absent
  /\ Claim(r) = Absent \/ Release(r).at >= Claim(r).at

\* Mutant of Stale: the timeout is forgotten, any older claim counts as stale.
Stale_Hasty(r) == ~Released(r) /\ now > Claim(r).at

\* Mutant of Stale: the test a caller without a timeout gets.
Stale_Never(r) == FALSE

\* is_claim_stale: only a claim that is not released goes stale.
Stale(r) ==
  /\ ~Released(r)
  /\ now >= Claim(r).at + Timeout

\* The file that a process writes.
Target(a) == <<out[a].kind, job[a]>>

\* After a rename the files that others had open go on under their new name.
Moved(a) ==
  [b \in Actors |->
     IF fd[b] \in {"none", "gone"} \/ Target(b) # Target(a) THEN fd[b]
     ELSE IF fd[b] = "tmp" THEN "live" ELSE "gone"]

First(w, r) == r \in todo[w] /\ \A q \in todo[w] : r <= q

Init ==
  /\ dispatched = {}
  /\ file = [x \in Kinds \X Runs |-> Absent]
  /\ tmp = [x \in Kinds \X Runs |-> Absent]
  /\ fd = [a \in Actors |-> "none"]
  /\ now = 0
  /\ pc = [a \in Actors |-> "idle"]
  /\ job = [a \in Actors |-> NoRun]
  /\ todo = [w \in Workers |-> {}]
  /\ out = [a \in Actors |-> Absent]
  /\ faults = 0
  /\ firstClaim = [r \in Runs |-> Absent]

Goto(a, where) == pc' = [pc EXCEPT ![a] = where]

\* The process is through with its run: the command returns.
Leave(a) ==
  /\ Goto(a, "idle")
  /\ job' = [job EXCEPT ![a] = NoRun]
  /\ out' = [out EXCEPT ![a] = Absent]

Fault ==
  /\ faults < MaxFaults
  /\ now + Timeout <= MaxTime
  /\ faults' = faults + 1

--------------------------------------------------------------------------------
\* write_dispatch by a runtime, by `subagent dispatch` or by `goal dispatch`.
Dispatch(r) ==
  /\ r \notin dispatched
  /\ dispatched' = dispatched \cup {r}
  /\ UNCHANGED <<file, tmp, fd, now, pc, job, todo, out, faults, firstClaim>>

\* The scan lists dispatch/ first ...
ListDispatches(w) ==
  /\ pc[w] = "idle"
  /\ Goto(w, "list")
  /\ todo' = [todo EXCEPT ![w] = dispatched \cap Eligible[w]]
  /\ UNCHANGED <<dispatched, file, tmp, fd, now, job, out, faults, firstClaim>>

\* ... and reports/ afterwards; the list of reports is not read again.
ListReports(w) ==
  /\ pc[w] = "list"
  /\ Goto(w, "scan")
  /\ todo' = [todo EXCEPT ![w] = {r \in @ : Report(r) = Absent}]
  /\ UNCHANGED <<dispatched, file, tmp, fd, now, job, out, faults, firstClaim>>

NothingPending(w) ==
  /\ pc[w] = "scan"
  /\ todo[w] = {}
  /\ Goto(w, "idle")
  /\ UNCHANGED <<dispatched, file, tmp, fd, now, job, todo, out, faults, firstClaim>>

\* claim_dispatch_with_timeout on a live claim: Ok(None), try the next run.
SkipClaimed(w) ==
  /\ pc[w] = "scan"
  /\ \E r \in Runs :
       /\ First(w, r)
       /\ Claim(r) # Absent
       /\ ~Unreadable(r)
       /\ ~Released(r)
       /\ ~Stale(r)
       /\ todo' = [todo EXCEPT ![w] = @ \ {r}]
  /\ UNCHANGED <<dispatched, file, tmp, fd, now, pc, job, out, faults, firstClaim>>

\* The claim or its release marker cannot be parsed: the whole command fails, and
\* the dispatches behind this one are not looked at.
ClaimUnreadable(w) ==
  /\ pc[w] = "scan"
  /\ \E r \in Runs : First(w, r) /\ Unreadable(r)
  /\ Goto(w, "idle")
  /\ todo' = [todo EXCEPT ![w] = {}]
  /\ UNCHANGED <<dispatched, file, tmp, fd, now, job, out, faults, firstClaim>>

\* The payload is stamped before the claim file is looked for.
PrepareClaim(w, r, where) ==
  /\ Goto(w, where)
  /\ job' = [job EXCEPT ![w] = r]
  /\ out' = [out EXCEPT ![w] = Payload("claim", w)]
  /\ now' = now + 1
  /\ UNCHANGED <<dispatched, file, tmp, fd, faults, firstClaim>>

FindUnclaimed(w) ==
  /\ pc[w] = "scan"
  /\ \E r \in Runs :
       /\ First(w, r)
       /\ Claim(r) = Absent
       /\ PrepareClaim(w, r, "create")
  /\ UNCHANGED todo

FindReclaimable(w) ==
  /\ pc[w] = "scan"
  /\ \E r \in Runs :
       /\ First(w, r)
       /\ Claim(r) # Absent
       /\ ~Unreadable(r)
       /\ Released(r) \/ Stale(r)
       /\ PrepareClaim(w, r, "write")
  /\ todo' = [todo EXCEPT ![w] = {}]

\* create_new: of several workers that saw no claim, one creates the file.
CreateClaim(w) ==
  /\ pc[w] = "create"
  /\ Claim(job[w]) = Absent
  /\ Goto(w, "fill")
  /\ file' = [file EXCEPT ![<<"claim", job[w]>>] = Empty]
  /\ firstClaim' = [firstClaim EXCEPT ![job[w]] = out[w].at]
  /\ todo' = [todo EXCEPT ![w] = {}]
  /\ UNCHANGED <<dispatched, tmp, fd, now, job, out, faults>>

\* Mutant of CreateLost: AlreadyExists is taken for a claim of one's own.
CreateLost_Proceeds(w) ==
  /\ pc[w] = "create"
  /\ Claim(job[w]) # Absent
  /\ Goto(w, "running")
  /\ todo' = [todo EXCEPT ![w] = {}]
  /\ out' = [out EXCEPT ![w] = Absent]
  /\ UNCHANGED <<dispatched, file, tmp, fd, now, job, faults, firstClaim>>

\* Of the losers each goes on with the next dispatch.
CreateLost(w) ==
  /\ pc[w] = "create"
  /\ Claim(job[w]) # Absent
  /\ Goto(w, "scan")
  /\ todo' = [todo EXCEPT ![w] = @ \ {job[w]}]
  /\ job' = [job EXCEPT ![w] = NoRun]
  /\ out' = [out EXCEPT ![w] = Absent]
  /\ UNCHANGED <<dispatched, file, tmp, fd, now, faults, firstClaim>>

FillClaim(w) ==
  /\ pc[w] = "fill"
  /\ Goto(w, "running")
  /\ file' = [file EXCEPT ![<<"claim", job[w]>>] = out[w]]
  /\ out' = [out EXCEPT ![w] = Absent]
  /\ UNCHANGED <<dispatched, tmp, fd, now, job, todo, faults, firstClaim>>

--------------------------------------------------------------------------------
\* The runner ends, or is killed at idle_timeout_ms: either way a report.
RunnerReports(w) ==
  /\ pc[w] = "running"
  /\ Goto(w, "write")
  /\ out' = [out EXCEPT ![w] = Payload("report", w)]
  /\ UNCHANGED <<dispatched, file, tmp, fd, now, job, todo, faults, firstClaim>>

\* The runner cannot be started or its report is inadmissible: worker_failure.
RunnerFails(w) ==
  /\ pc[w] = "running"
  /\ Fault
  /\ Goto(w, "write")
  /\ out' = [out EXCEPT ![w] = Payload("release", w)]
  /\ now' = now + 1
  /\ UNCHANGED <<dispatched, file, tmp, fd, job, todo, firstClaim>>

\* `subagent release-claim`: any run, whoever holds it, claimed or not.
OperatorReleases(r) ==
  /\ pc[Operator] = "idle"
  /\ Fault
  /\ Goto(Operator, "write")
  /\ job' = [job EXCEPT ![Operator] = r]
  /\ out' = [out EXCEPT ![Operator] = Payload("release", Operator)]
  /\ now' = now + 1
  /\ UNCHANGED <<dispatched, file, tmp, fd, todo, firstClaim>>

\* atomic_write: fs::write opens the temporary file, which every writer of the
\* file shares, and truncates it ...
OpenTmp(a) ==
  /\ pc[a] = "write"
  /\ Goto(a, "put")
  /\ tmp' = [tmp EXCEPT ![Target(a)] = Empty]
  /\ fd' = [fd EXCEPT ![a] = "tmp"]
  /\ UNCHANGED <<dispatched, file, now, job, todo, out, faults, firstClaim>>

\* ... writes the payload into the file it opened, wherever that is by now ...
PutTmp(a) ==
  /\ pc[a] = "put"
  /\ Goto(a, "rename")
  /\ fd' = [fd EXCEPT ![a] = "none"]
  /\ \/ /\ fd[a] = "tmp"
        /\ \E c \in Written(tmp[Target(a)], out[a]) : tmp' = [tmp EXCEPT ![Target(a)] = c]
        /\ UNCHANGED file
     \/ /\ fd[a] = "live"
        /\ \E c \in Written(file[Target(a)], out[a]) : file' = [file EXCEPT ![Target(a)] = c]
        /\ UNCHANGED tmp
     \/ fd[a] = "gone" /\ UNCHANGED <<file, tmp>>
  /\ UNCHANGED <<dispatched, now, job, todo, out, faults, firstClaim>>

\* ... and the rename publishes whatever the temporary file holds.
RenameTmp(a) ==
  /\ pc[a] = "rename"
  /\ tmp[Target(a)] # Absent
  /\ file' = [file EXCEPT ![Target(a)] = tmp[Target(a)]]
  /\ tmp' = [tmp EXCEPT ![Target(a)] = Absent]
  /\ fd' = Moved(a)
  /\ IF out[a].kind = "claim"
     THEN /\ Goto(a, "running")
          /\ out' = [out EXCEPT ![a] = Absent]
          /\ UNCHANGED job
     ELSE Leave(a)
  /\ UNCHANGED <<dispatched, now, todo, faults, firstClaim>>

\* Another writer has renamed it away: the write fails.  A worker that cannot
\* write its report releases its claim; any other failure ends the command.
RenameFails(a) ==
  /\ pc[a] = "rename"
  /\ tmp[Target(a)] = Absent
  /\ IF out[a].kind = "report"
     THEN /\ Goto(a, "write")
          /\ out' = [out EXCEPT ![a] = Payload("release", a)]
          /\ now' = now + 1
          /\ UNCHANGED job
     ELSE Leave(a) /\ UNCHANGED now
  /\ UNCHANGED <<dispatched, file, tmp, fd, todo, faults, firstClaim>>

\* The process dies; what it wrote stays, and a later one may take its place.
Crash(w) ==
  /\ pc[w] \in CrashAt \ {"idle"}
  /\ Fault
  /\ Leave(w)
  /\ fd' = [fd EXCEPT ![w] = "none"]
  /\ todo' = [todo EXCEPT ![w] = {}]
  /\ UNCHANGED <<dispatched, file, tmp, now, firstClaim>>

Tick ==
  /\ now < MaxTime
  /\ now' = now + 1
  /\ UNCHANGED <<dispatched, file, tmp, fd, pc, job, todo, out, faults, firstClaim>>

Work(w) ==
  \/ ListDispatches(w)
  \/ ListReports(w)
  \/ NothingPending(w)
  \/ SkipClaimed(w)
  \/ ClaimUnreadable(w)
  \/ FindUnclaimed(w)
  \/ FindReclaimable(w)
  \/ CreateClaim(w)
  \/ CreateLost(w)
  \/ FillClaim(w)
  \/ RunnerReports(w)

Publish(a) == OpenTmp(a) \/ PutTmp(a) \/ RenameTmp(a) \/ RenameFails(a)

Next ==
  \/ \E r \in Runs : Dispatch(r)
  \/ \E w \in Workers : Work(w)
  \/ \E w \in Workers : RunnerFails(w)
  \/ \E w \in Workers : Crash(w)
  \/ \E r \in Runs : OperatorReleases(r)
  \/ \E a \in Actors : Publish(a)
  \/ Tick

Spec == Init /\ [][Next]_vars

\* A started process goes on, a runner ends, workers are invoked again, time
\* passes.  Nothing makes a runner fail, a worker crash or an operator act.
Fairness ==
  /\ \A w \in Workers : WF_vars(Work(w))
  /\ \A a \in Actors : WF_vars(Publish(a))
  /\ WF_vars(Tick)

FairSpec == Spec /\ Fairness

--------------------------------------------------------------------------------
\* Every variable has its type.
TypeOK ==
  /\ dispatched \subseteq Runs
  /\ file \in [Kinds \X Runs -> Content \cup Torn \cup {Absent}]
  /\ tmp \in [Kinds \X Runs -> Content \cup Torn \cup {Absent}]
  /\ fd \in [Actors -> OpenFile]
  /\ now \in Nat
  /\ pc \in [Actors -> WorkerPC]
  /\ job \in [Actors -> Runs \cup {NoRun}]
  /\ todo \in [Workers -> SUBSET Runs]
  /\ out \in [Actors -> Content \cup {Absent}]
  /\ faults \in 0 .. MaxFaults
  /\ firstClaim \in [Runs -> Nat \cup {Absent}]

\* From its successful claim to its last write a worker is engaged in a run.
Engaged(w, r) ==
  /\ job[w] = r
  /\ pc[w] \in {"fill", "running", "write", "put", "rename"}

Executing(w, r) == job[w] = r /\ pc[w] = "running"

\* The two things that open a claimed run to a second worker.
Reopened(r) ==
  \/ Release(r) # Absent
  \/ firstClaim[r] # Absent /\ now >= firstClaim[r] + Timeout

\* No run is executed by two workers at once unless a release marker for it was
\* published or its first claim is older than the idle timeout.
Exclusive ==
  \A r \in Runs : \A v, w \in Workers :
    Executing(v, r) /\ Executing(w, r) /\ v # w => Reopened(r)

\* A published report is not replaced by another worker's, unless the run was
\* reopened: without a release or a timeout the first answer stays the answer.
ReportStable ==
  [][\A r \in Runs :
       Report(r) # Absent /\ Report(r)' # Report(r) => Reopened(r)]_vars

\* Whoever executes or has reported a run left a claim file behind, and as long as
\* the run was not reopened that file can be read: overlapping writers, or a writer's
\* death, spoil only the claim of a run that was open to a second worker anyway.
WorkIsClaimed ==
  \A r \in Runs :
    Report(r) # Absent \/ (\E w \in Workers : Executing(w, r))
      => Claim(r) # Absent /\ (Claim(r) \in Torn => Reopened(r))

Servable(r) == r \in dispatched /\ \E w \in Workers : r \in Eligible[w]

\* Every worker that may serve the run stumbles over an unreadable file before it:
\* the run's own, or that of a run that it lists earlier.
Blocked(r) ==
  \A w \in Workers : r \in Eligible[w] =>
    \E q \in dispatched \cap Eligible[w] : q <= r /\ Report(q) = Absent /\ Unreadable(q)

\* Every dispatched run that some worker may serve is reported in the end, unless an
\* unreadable claim or release marker blocks it for good: failed, crashed and
\* overtaken workers, early releases and live claims of other runs do not.
\* Dispatches and reports are never removed, so []<> is no more than <> for both.
EventuallyReported ==
  \A r \in Runs : []<>Servable(r) => []<>(Report(r) # Absent) \/ <>[]Blocked(r)
================================================================================
