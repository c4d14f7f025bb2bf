------------------------------ MODULE TurnRecords ------------------------------
(***************************************************************************)
(* What a turn leaves behind (remember_turn_if_requested): its record in   *)
(* SQLite, its place in the archive of the session and the rolling summary *)
(* of it, a diary entry now and then, the lessons distilled from the day's *)
(* diary, entries in the two hot memory files, and a dispatch for a        *)
(* subagent.  Turns of several processes, and the command `diary distill`, *)
(* share all of these stores.  The tables are guarded by SQLite; the files *)
(* are read, changed and written back without a lock.                      *)
(***************************************************************************)
EXTENDS Naturals, Sequences, SequencesExt

CONSTANTS
  Turns,        \* turns whose answer is there, of any process
  Distillers,   \* runs of the command `diary distill` for this day
  Sessions,
  Requests,     \* what a turn can be asked to leave behind
  Threshold,    \* DIARY_TURN_THRESHOLD, 10 in the code
  Limit,        \* entries that fit into a hot memory file
  NoFile,
  MaxFaults     \* bound: failing writes and processes that die

ASSUME TurnRecordsAssumption ==
  /\ Turns \cap Distillers = {}
  /\ Threshold \in Nat \ {0}
  /\ Limit \in Nat
  /\ MaxFaults \in Nat
  /\ \A r \in Requests :
       /\ r.session \in Sessions
       /\ r.steps \in SUBSET {"archive", "diary", "identity", "experience", "dispatch"}
       /\ "archive" \in r.steps <=> "diary" \in r.steps
       /\ {r.record, r.closing, r.worth} \subseteq BOOLEAN

Procs == Turns \cup Distillers
Steps == {"archive", "diary", "identity", "experience", "dispatch"}
Files == {"memory", "experiences"}

\* An entry of a hot memory file: a lesson of a turn has an id of its own, a
\* distilled one the id diary-<date>-<sequence>.
Entries == [id : Turns \cup Nat, of : Turns]

VARIABLES
  asked,       \* what each turn is asked to leave behind
  pc,          \* the step each process is in
  part,        \* where it stands in writing a hot memory file
  status,      \* RememberCommitTracker: what became of each step of a turn
  seq,         \* sequence number of the turn in its session's archive
  counted,     \* number of turns its replay of the archive returned
  base,        \* content of the file it read before changing it
  todo,        \* diary entries it still has to distill
  fd,          \* what its open temporary file has become
  seen,        \* dispatches the restored spawner knows of
  kept,        \* turns with a record of their own in SQLite
  archive,     \* turns of each session, in order
  rolling,     \* turn_count of each session's rolling summary, 0 without one
  diary,       \* turns with an entry in the file of the day
  hot,         \* entries of each hot memory file
  tmp,         \* its temporary file, of one name for all processes
  dispatches,  \* turn whose dispatch is in the file of each run id
  faults,      \* failures so far, up to MaxFaults
  hurt         \* history: stores that two processes changed at a time, and
               \* the diary if its file was truncated and not filled

locals == <<part, seq, counted, base, todo, fd, seen>>
tables == <<kept, archive, rolling>>
texts == <<diary, hot, tmp, dispatches>>
vars == <<asked, pc, part, status, seq, counted, base, todo, fd, seen, kept,
          archive, rolling, diary, hot, tmp, dispatches, faults, hurt>>

Init ==
  /\ asked \in [Turns -> Requests]
  /\ pc = [p \in Procs |-> "idle"]
  /\ part = [p \in Procs |-> "none"]
  /\ status = [t \in Turns |-> [s \in Steps |->
                 IF s \in asked[t].steps THEN "pending" ELSE "not_requested"]]
  /\ seq = [t \in Turns |-> 0]
  /\ counted = [t \in Turns |-> 0]
  /\ base = [p \in Procs |-> <<>>]
  /\ todo = [p \in Procs |-> <<>>]
  /\ fd = [p \in Procs |-> "none"]
  /\ seen = [t \in Turns |-> 0]
  /\ kept = {}
  /\ archive = [s \in Sessions |-> <<>>]
  /\ rolling = [s \in Sessions |-> 0]
  /\ diary = <<>>
  /\ hot = [f \in Files |-> <<>>]
  /\ tmp = [f \in Files |-> NoFile]
  /\ dispatches = <<>>
  /\ faults = 0
  /\ hurt = {}

--------------------------------------------------------------------------------
(* The course of a turn *)

\* Mutant: the subagent is dispatched first.
Order_DispatchFirst == <<"dispatch", "archive", "diary", "identity", "experience">>
Order == <<"archive", "diary", "identity", "experience", "dispatch">>

\* The first step that is still to be done.
Upcoming(st) ==
  LET open == {i \in DOMAIN Order : st[Order[i]] = "pending"}
  IN IF open = {} THEN "done" ELSE Order[Min(open)]

Goto(p, step) == pc' = [pc EXCEPT ![p] = step]

\* mark_applied, mark_skipped and mark_failed; the turn goes on in each case.
Mark(t, step, result) ==
  LET st == [status[t] EXCEPT ![step] = result] IN
  /\ status' = [status EXCEPT ![t] = st]
  /\ Goto(t, Upcoming(st))

Fault == faults < MaxFaults /\ faults' = faults + 1

\* A session, or a file, that a process is in the middle of changing.
Changing(p, store) ==
  \/ store = "diary" /\ pc[p] \in {"truncate", "fill"}
  \/ store = "queue" /\ pc[p] = "spawn"
  \/ store = "memory" /\ pc[p] = "identity" /\ part[p] # "none"
  \/ store = "experiences" /\ pc[p] \in {"experience", "distill"} /\ part[p] # "none"
  \/ store \in Sessions /\ pc[p] \in {"replay", "summary"} /\ asked[p].session = store

Enter(p, store) ==
  hurt' = IF \E q \in Procs \ {p} : Changing(q, store) THEN hurt \cup {store} ELSE hurt

\* The record of the turn; if it is wanted and fails so does the turn.
Remember(t) ==
  /\ pc[t] = "idle"
  /\ \/ /\ kept' = IF asked[t].record THEN kept \cup {t} ELSE kept
        /\ Goto(t, "prepare")
        /\ UNCHANGED faults
     \/ asked[t].record /\ Fault /\ Goto(t, "error") /\ UNCHANGED kept
  /\ UNCHANGED <<asked, locals, status, archive, rolling, texts, hurt>>

Room(content) == Len(content) < Limit

\* The memory entries are tried out before anything is written: what does not
\* fit is only marked.  What the dispatch needs must be there.
Prepare(t) ==
  /\ pc[t] = "prepare"
  /\ \/ LET refused == {s \in {"identity", "experience"} :
              /\ status[t][s] = "pending"
              /\ ~Room(hot[IF s = "identity" THEN "memory" ELSE "experiences"])}
            st == [s \in Steps |-> IF s \in refused THEN "failed" ELSE status[t][s]]
        IN /\ status' = [status EXCEPT ![t] = st]
           /\ Goto(t, Upcoming(st))
           /\ UNCHANGED faults
     \/ /\ asked[t].steps \cap {"archive", "dispatch"} # {}
        /\ Fault
        /\ Goto(t, "error")
        /\ UNCHANGED status
  /\ UNCHANGED <<asked, locals, tables, texts, hurt>>

--------------------------------------------------------------------------------
(* The archive of the session *)

\* One transaction appends the turn under the next number of its session.
Archive(t) ==
  /\ pc[t] = "archive"
  /\ LET s == asked[t].session IN
     \/ /\ archive' = [archive EXCEPT ![s] = Append(@, t)]
        /\ seq' = [seq EXCEPT ![t] = Len(archive[s]) + 1]
        /\ Enter(t, s)
        /\ Goto(t, "replay")
        /\ UNCHANGED faults
     \/ Fault /\ Goto(t, "error") /\ UNCHANGED <<archive, seq, hurt>>
  /\ UNCHANGED <<asked, part, status, counted, base, todo, fd, seen, kept, rolling, texts>>

\* Mutant: the summary leaves out the turn itself.
Replayed_Before(t) == Len(archive[asked[t].session]) - 1
Replayed(t) == Len(archive[asked[t].session])

\* The archive is read back ...
Replay(t) ==
  /\ pc[t] = "replay"
  /\ \/ /\ counted' = [counted EXCEPT ![t] = Replayed(t)]
        /\ Goto(t, "summary")
        /\ UNCHANGED faults
     \/ Fault /\ Goto(t, "error") /\ UNCHANGED counted
  /\ UNCHANGED <<asked, part, status, seq, base, todo, fd, seen, tables, texts, hurt>>

\* ... and its rolling summary is replaced.  The error of either ends the turn,
\* although it is in the archive.
Summarise(t) ==
  /\ pc[t] = "summary"
  /\ \/ /\ rolling' = [rolling EXCEPT ![asked[t].session] = counted[t]]
        /\ Mark(t, "archive", "applied")
        /\ UNCHANGED faults
     \/ Fault /\ Goto(t, "error") /\ UNCHANGED <<rolling, status>>
  /\ UNCHANGED <<asked, locals, kept, archive, texts, hurt>>

--------------------------------------------------------------------------------
(* The diary *)

\* Fills a file that another process may have filled since it was truncated;
\* entries count as equally long.
Overlay(content, over) == content \o SubSeq(over, Len(content) + 1, Len(over))

LastEntry(session) ==
  LET noted == {seq[t] : t \in {u \in ToSet(diary) : asked[u].session = session}}
  IN IF noted = {} THEN 0 ELSE Max(noted)

\* Mutant: one turn too late.
Due_Later(t) == asked[t].closing \/ seq[t] > LastEntry(asked[t].session) + Threshold
Due(t) == asked[t].closing \/ seq[t] >= LastEntry(asked[t].session) + Threshold

DecideDiary(t) ==
  /\ pc[t] = "diary"
  /\ IF Due(t) THEN Goto(t, "append") /\ UNCHANGED status ELSE Mark(t, "diary", "skipped")
  /\ UNCHANGED <<asked, locals, tables, texts, faults, hurt>>

\* Mutant: the file is written anew.
DiaryRead_Anew == <<>>
DiaryRead == diary

\* The whole file is read, and written in place: truncated ...
ReadDiary(t) ==
  /\ pc[t] = "append"
  /\ base' = [base EXCEPT ![t] = DiaryRead]
  /\ Enter(t, "diary")
  /\ Goto(t, "truncate")
  /\ UNCHANGED <<asked, part, status, seq, counted, todo, fd, seen, tables, texts, faults>>

TruncateDiary(t) ==
  /\ pc[t] = "truncate"
  /\ diary' = <<>>
  /\ Goto(t, "fill")
  /\ UNCHANGED <<asked, locals, status, tables, hot, tmp, dispatches, faults, hurt>>

\* ... and filled.  A closing turn goes on to distill the day.
FillDiary(t) ==
  /\ pc[t] = "fill"
  /\ diary' = Overlay(Append(base[t], t), diary)
  /\ base' = [base EXCEPT ![t] = <<>>]
  /\ IF asked[t].closing
     THEN /\ status' = [status EXCEPT ![t].diary = "applied"]
          /\ Goto(t, "distill")
     ELSE Mark(t, "diary", "applied")
  /\ UNCHANGED <<asked, part, seq, counted, todo, fd, seen, tables, hot, tmp, dispatches,
                 faults, hurt>>

DiaryFails(t) ==
  /\ pc[t] \in {"diary", "append", "truncate", "fill"}
  /\ Fault
  /\ Mark(t, "diary", "failed")
  /\ base' = [base EXCEPT ![t] = <<>>]
  /\ hurt' = IF pc[t] = "fill" THEN hurt \cup {"diary"} ELSE hurt
  /\ UNCHANGED <<asked, part, seq, counted, todo, fd, seen, tables, texts>>

--------------------------------------------------------------------------------
(* Hot memory files *)

FileOf(p) == IF pc[p] = "identity" THEN "memory" ELSE "experiences"
EntryOf(p) == IF pc[p] = "distill" THEN [id |-> seq[Head(todo[p])], of |-> Head(todo[p])]
                                   ELSE [id |-> p, of |-> p]

\* Mutant: no id is found in the file.
Ids_None(content) == {}
Ids(content) == {e.id : e \in ToSet(content)}

\* A distillation is over: what became of it decides nothing.
Distilled(p) == IF p \in Turns THEN Upcoming(status[p]) ELSE "done"

\* The append came to an end with result.
Ended(p, result) ==
  /\ part' = [part EXCEPT ![p] = "none"]
  /\ base' = [base EXCEPT ![p] = <<>>]
  /\ IF pc[p] = "distill"
     THEN /\ todo' = [todo EXCEPT ![p] = IF result = "applied" THEN Tail(@) ELSE <<>>]
          /\ IF result = "applied" /\ Len(todo[p]) > 1
             THEN UNCHANGED pc
             ELSE Goto(p, IF result = "applied" \/ p \in Turns THEN Distilled(p) ELSE "error")
          /\ UNCHANGED status
     ELSE Mark(p, pc[p], result) /\ UNCHANGED todo

Appending(p) ==
  \/ pc[p] \in {"identity", "experience"}
  \/ pc[p] = "distill" /\ todo[p] # <<>>

\* append_memory and append_experience: read, refuse a double or what exceeds
\* the limit, ...
ReadHot(p) ==
  /\ Appending(p) /\ part[p] = "none"
  /\ LET f == FileOf(p) IN
     IF EntryOf(p).id \in Ids(hot[f]) \/ ~Room(hot[f])
     THEN Ended(p, "failed") /\ UNCHANGED hurt
     ELSE /\ base' = [base EXCEPT ![p] = hot[f]]
          /\ part' = [part EXCEPT ![p] = "open"]
          /\ Enter(p, f)
          /\ UNCHANGED <<pc, todo, status>>
  /\ UNCHANGED <<asked, seq, counted, fd, seen, tables, texts, faults>>

\* ... open the temporary file, truncating what another process put there, ...
OpenTmp(p) ==
  /\ part[p] = "open"
  /\ tmp' = [tmp EXCEPT ![FileOf(p)] = <<>>]
  /\ fd' = [fd EXCEPT ![p] = "tmp"]
  /\ part' = [part EXCEPT ![p] = "fill"]
  /\ UNCHANGED <<asked, pc, status, seq, counted, base, todo, seen, tables, diary, hot,
                 dispatches, faults, hurt>>

\* Mutant: the temporary file gets the new entry only.
NewContent_EntryOnly(p) == <<EntryOf(p)>>
NewContent(p) == Append(base[p], EntryOf(p))

\* ... fill it, wherever another process has moved it meanwhile, ...
FillTmp(p) ==
  /\ part[p] = "fill"
  /\ LET f == FileOf(p) IN
     /\ tmp' = IF fd[p] = "tmp" THEN [tmp EXCEPT ![f] = Overlay(NewContent(p), @)] ELSE tmp
     /\ hot' = IF fd[p] = "live" THEN [hot EXCEPT ![f] = Overlay(NewContent(p), @)] ELSE hot
  /\ fd' = [fd EXCEPT ![p] = "none"]
  /\ part' = [part EXCEPT ![p] = "rename"]
  /\ UNCHANGED <<asked, pc, status, seq, counted, base, todo, seen, tables, diary,
                 dispatches, faults, hurt>>

\* A file that is renamed stays open in the processes that write it.
Moved(f) ==
  [q \in Procs |-> IF part[q] = "fill" /\ FileOf(q) = f
                   THEN IF fd[q] = "tmp" THEN "live" ELSE "gone"
                   ELSE fd[q]]

\* ... and rename it, unless another process already did.
RenameTmp(p) ==
  /\ part[p] = "rename"
  /\ LET f == FileOf(p) IN
     IF tmp[f] = NoFile
     THEN Ended(p, "failed") /\ UNCHANGED <<hot, tmp, fd>>
     ELSE /\ hot' = [hot EXCEPT ![f] = tmp[f]]
          /\ tmp' = [tmp EXCEPT ![f] = NoFile]
          /\ fd' = Moved(f)
          /\ Ended(p, "applied")
  /\ UNCHANGED <<asked, seq, counted, seen, tables, diary, dispatches, faults, hurt>>

HotFails(p) ==
  /\ part[p] \in {"open", "fill", "rename"}
  /\ Fault
  /\ Ended(p, "failed")
  /\ fd' = [fd EXCEPT ![p] = "none"]
  /\ UNCHANGED <<asked, seq, counted, seen, tables, texts, hurt>>

--------------------------------------------------------------------------------
(* Distilling *)

StartDistill(d) ==
  /\ pc[d] = "idle"
  /\ Goto(d, "distill")
  /\ UNCHANGED <<asked, locals, status, tables, texts, faults, hurt>>

\* Entries among the first n of the day that the policy accepts and whose id is not
\* there yet.
Accepted[n \in 0..Len(diary)] ==
  IF n = 0 THEN <<>>
  ELSE IF asked[diary[n]].worth /\ seq[diary[n]] \notin Ids(hot["experiences"])
       THEN Append(Accepted[n - 1], diary[n])
       ELSE Accepted[n - 1]

Undistilled == Accepted[Len(diary)]

ReadDay(p) ==
  /\ pc[p] = "distill" /\ todo[p] = <<>>
  /\ todo' = [todo EXCEPT ![p] = Undistilled]
  /\ IF Undistilled = <<>> THEN Goto(p, Distilled(p)) ELSE UNCHANGED pc
  /\ UNCHANGED <<asked, part, status, seq, counted, base, fd, seen, tables, texts, faults, hurt>>

--------------------------------------------------------------------------------
(* The dispatch *)

\* A spawner is built and takes over the dispatches that are there ...
BuildSpawner(t) ==
  /\ pc[t] = "dispatch"
  /\ seen' = [seen EXCEPT ![t] = Len(dispatches)]
  /\ Enter(t, "queue")
  /\ Goto(t, "spawn")
  /\ UNCHANGED <<asked, part, status, seq, counted, base, todo, fd, tables, texts, faults>>

\* Mutant: a run id is one that is in use.
NextRun_Same(n) == IF n = 0 THEN 1 ELSE n
NextRun(n) == n + 1

\* ... and the new one gets the next run id, whoever took it meanwhile.
Spawn(t) ==
  /\ pc[t] = "spawn"
  /\ LET run == NextRun(seen[t]) IN
     dispatches' = IF run \in DOMAIN dispatches THEN [dispatches EXCEPT ![run] = t]
                                                ELSE Append(dispatches, t)
  /\ Mark(t, "dispatch", "applied")
  /\ UNCHANGED <<asked, locals, tables, diary, hot, tmp, faults, hurt>>

\* Without a step that was applied the failure is that of the turn.
DispatchFails(t) ==
  /\ pc[t] \in {"dispatch", "spawn"}
  /\ Fault
  /\ IF \E s \in Steps : status[t][s] = "applied"
     THEN Mark(t, "dispatch", "failed")
     ELSE Goto(t, "error") /\ UNCHANGED status
  /\ UNCHANGED <<asked, locals, tables, texts, hurt>>

--------------------------------------------------------------------------------
Ends == {"done", "error", "dead"}

\* The process dies; its open files are closed.
Crash(p) ==
  /\ pc[p] \notin Ends \cup {"idle"}
  /\ Fault
  /\ Goto(p, "dead")
  /\ hurt' = IF pc[p] = "fill" THEN hurt \cup {"diary"} ELSE hurt
  /\ part' = [part EXCEPT ![p] = "none"]
  /\ fd' = [fd EXCEPT ![p] = "none"]
  /\ base' = [base EXCEPT ![p] = <<>>]
  /\ todo' = [todo EXCEPT ![p] = <<>>]
  /\ UNCHANGED <<asked, status, seq, counted, seen, tables, texts>>

Write(p) ==
  ReadHot(p) \/ OpenTmp(p) \/ FillTmp(p) \/ RenameTmp(p) \/ HotFails(p) \/ ReadDay(p)

Turn(t) ==
  \/ Remember(t) \/ Prepare(t)
  \/ Archive(t) \/ Replay(t) \/ Summarise(t)
  \/ DecideDiary(t) \/ DiaryFails(t) \/ ReadDiary(t) \/ TruncateDiary(t) \/ FillDiary(t)
  \/ BuildSpawner(t) \/ Spawn(t) \/ DispatchFails(t)

Next ==
  \/ \E t \in Turns : Turn(t)
  \/ \E d \in Distillers : StartDistill(d)
  \/ \E p \in Procs : Write(p) \/ Crash(p)

Spec == Init /\ [][Next]_vars

--------------------------------------------------------------------------------
(* Properties *)

\* Every variable has the type its comment gives.
TypeOK ==
  /\ asked \in [Turns -> Requests]
  /\ pc \in [Procs -> Ends \cup {"idle", "prepare", "archive", "replay", "summary",
       "diary", "append", "truncate", "fill", "distill", "identity", "experience",
       "dispatch", "spawn"}]
  /\ part \in [Procs -> {"none", "open", "fill", "rename"}]
  /\ status \in [Turns -> [Steps ->
       {"not_requested", "pending", "applied", "skipped", "failed"}]]
  /\ seq \in [Turns -> Nat]
  /\ counted \in [Turns -> Nat]
  /\ base \in [Procs -> Seq(Turns \cup Entries)]
  /\ todo \in [Procs -> Seq(Turns)]
  /\ fd \in [Procs -> {"none", "tmp", "live", "gone"}]
  /\ seen \in [Turns -> Nat]
  /\ kept \in SUBSET Turns
  /\ archive \in [Sessions -> Seq(Turns)]
  /\ rolling \in [Sessions -> Nat]
  /\ diary \in Seq(Turns)
  /\ hot \in [Files -> Seq(Entries)]
  /\ tmp \in [Files -> Seq(Entries) \cup {NoFile}]
  /\ dispatches \in Seq(Turns)
  /\ faults \in 0..MaxFaults
  /\ hurt \in SUBSET (Files \cup Sessions \cup {"diary", "queue"})

Applied(t, step) == status[t][step] = "applied"

\* What a turn reports as applied to a hot memory file is there from then on,
\* whatever fails and whoever dies, unless two processes changed the file at
\* the same time.
MemoryStands ==
  \A t \in Turns :
    /\ Applied(t, "identity") /\ "memory" \notin hurt
         => [id |-> t, of |-> t] \in ToSet(hot["memory"])
    /\ Applied(t, "experience") /\ "experiences" \notin hurt
         => [id |-> t, of |-> t] \in ToSet(hot["experiences"])

\* The rolling summary tells of every turn whose archiving was reported, unless
\* two turns of the session were archived at the same time; and it never tells
\* of a turn that is not archived.
SummaryCovers ==
  /\ \A t \in Turns : LET s == asked[t].session IN
       Applied(t, "archive") /\ s \notin hurt => rolling[s] >= seq[t]
  /\ \A s \in Sessions : rolling[s] <= Len(archive[s])

\* An entry of the diary stays, unless two turns wrote at the same time or the
\* file was left truncated.
DiaryStands ==
  \A t \in Turns :
    Applied(t, "diary") /\ "diary" \notin hurt /\ (\A u \in Turns : pc[u] # "fill")
      => t \in ToSet(diary)

\* As long as nothing of it fails, a session has an entry at least every
\* Threshold turns.
DiaryKeepsUp ==
  \A s \in Sessions :
    LET mine == {t \in Turns : asked[t].session = s /\ seq[t] > 0} IN
    /\ "diary" \notin hurt
    /\ \A t \in mine : status[t].diary \in {"applied", "skipped"}
    /\ \A u \in Turns : pc[u] # "fill"
    => Len(archive[s]) < LastEntry(s) + Threshold

\* Distilling a day again adds nothing that is there: no two lessons have one
\* id, unless two processes changed the file at the same time.
DistilledOnce ==
  "experiences" \notin hurt =>
    \A i, j \in DOMAIN hot["experiences"] :
      hot["experiences"][i].id = hot["experiences"][j].id => i = j

\* The files are of their types, and distilling repeats no lesson.
RecordsWellFormed == TypeOK /\ DistilledOnce

\* A turn of a session leaves nothing behind but its record unless it is in the
\* archive: diary, lessons, memory and dispatch come after it, also when the
\* turn dies on the way.
ArchiveComesFirst ==
  \A t \in Turns :
    "archive" \in asked[t].steps /\ (\A i \in DOMAIN archive[asked[t].session] :
                                        archive[asked[t].session][i] # t)
    => /\ t \notin ToSet(diary) \cup ToSet(dispatches)
       /\ \A f \in Files : \A e \in ToSet(hot[f]) : e.of # t

\* A dispatch keeps its run id for itself, unless two turns dispatched at the
\* same time.
DispatchStands ==
  \A t \in Turns :
    Applied(t, "dispatch") /\ "queue" \notin hurt => t \in ToSet(dispatches)

\* What a turn reports as applied to memory, diary and queue is there, unless two
\* processes changed the same file at the same time.
AppliedStands == MemoryStands /\ DiaryStands /\ DispatchStands
================================================================================
