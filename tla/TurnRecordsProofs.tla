--------------------------- MODULE TurnRecordsProofs ---------------------------
(***************************************************************************)
(* Proofs about TurnRecords, for every number of turns, sessions and       *)
(* processes, whatever fails.  The history variable hurt says where two    *)
(* processes overlapped; the first invariant shows that everywhere else a  *)
(* process has the store it changes for itself, and the others follow how  *)
(* it gets there.  The second half is about the order of things: a turn    *)
(* past the archive keeps its number, all that is left behind is of such   *)
(* turns, lessons are not repeated and the diary keeps up.                 *)
(***************************************************************************)
EXTENDS TurnRecords, SequenceTheorems, WellFoundedInduction, TLAPS

\* A list of whatever elements.
Listlike(q) == q \in Seq(ToSet(q))

\* The empty list has no members.
LEMMA EmptyList == Listlike(<<>>) /\ ToSet(<<>>) = {}
  BY DEF Listlike, ToSet

\* What is appended to a list is its only new member.
LEMMA AppendList ==
  ASSUME NEW q, Listlike(q), NEW e
  PROVE  Listlike(Append(q, e)) /\ ToSet(Append(q, e)) = ToSet(q) \cup {e}
<1> DEFINE S == ToSet(q) \cup {e}
<1>1. q \in Seq(S)
  BY DEF Listlike
<1>2. DOMAIN q = 1 .. Len(q) /\ Len(q) \in Nat
  BY <1>1
<1> HIDE DEF S
<1>3. Append(q, e) \in Seq(S)
  BY <1>1 DEF S
<1>4. DOMAIN Append(q, e) = 1 .. Len(q) + 1
  BY <1>1 
<1>5. (\A i \in 1 .. Len(q) : Append(q, e)[i] = q[i]) /\ Append(q, e)[Len(q) + 1] = e
  BY <1>1
<1>6. 1 .. Len(q) + 1 = 1 .. Len(q) \cup {Len(q) + 1}
  BY <1>2
<1>7. ToSet(Append(q, e)) = S
  BY <1>2, <1>4, <1>5, <1>6 DEF ToSet, S
<1> QED
  BY <1>3, <1>7 DEF Listlike, S

\* Filling an empty file leaves in it what it was filled with.
LEMMA FillEmpty ==
  ASSUME NEW q, Listlike(q)
  PROVE  Overlay(q, <<>>) = q
<1>1. q \in Seq(ToSet(q))
  BY DEF Listlike
<1> QED
  BY <1>1 DEF Overlay

--------------------------------------------------------------------------------

PCs == Ends \cup {"idle", "prepare", "archive", "replay", "summary", "diary", "append",
                  "truncate", "fill", "distill", "identity", "experience", "dispatch", "spawn"}
Results == {"not_requested", "pending", "applied", "skipped", "failed"}
Stores == Sessions \cup Files \cup {"diary", "queue"}

\* The step after which a turn goes on is one that is still to be done.
LEMMA Following ==
  ASSUME NEW st \in [Steps -> Results]
  PROVE  \/ Upcoming(st) = "done"
         \/ Upcoming(st) \in Steps /\ st[Upcoming(st)] = "pending"
<1> DEFINE open == {i \in DOMAIN Order : st[Order[i]] = "pending"}
<1>1. DOMAIN Order = 1 .. 5 /\ \A i \in 1 .. 5 : Order[i] \in Steps
  BY DEF Order, Steps
<1>2. ASSUME open # {} PROVE Min(open) \in open
  <2>1. \E i \in open : \A j \in open : i <= j
    <3>1. open \subseteq {1, 2, 3, 4, 5}
      BY <1>1
    <3> HIDE DEF open
    <3>2. CASE 1 \in open
      BY <3>1, <3>2
    <3>3. CASE 1 \notin open /\ 2 \in open
      BY <3>1, <3>3
    <3>4. CASE 1 \notin open /\ 2 \notin open /\ 3 \in open
      BY <3>1, <3>4
    <3>5. CASE 1 \notin open /\ 2 \notin open /\ 3 \notin open /\ 4 \in open
      BY <3>1, <3>5
    <3>6. CASE open = {5}
      BY <3>6
    <3> QED
      BY <1>2, <3>1, <3>2, <3>3, <3>4, <3>5, <3>6
  <2> QED
    BY <2>1 DEF Min
<1> QED
  BY <1>1, <1>2 DEF Upcoming

\* Processes and tables are of their types.
Typed ==
  /\ asked \in [Turns -> Requests]
  /\ pc \in [Procs -> PCs]
  /\ part \in [Procs -> {"none", "open", "fill", "rename"}]
  /\ status \in [Turns -> [Steps -> Results]]
  /\ DOMAIN base = Procs /\ DOMAIN todo = Procs /\ DOMAIN fd = Procs
  /\ DOMAIN hot = Files /\ DOMAIN tmp = Files
  /\ seq \in [Turns -> Nat] /\ counted \in [Turns -> Nat] /\ seen \in [Turns -> Nat]
  /\ archive \in [Sessions -> Seq(Turns)] /\ rolling \in [Sessions -> Nat]
  /\ dispatches \in Seq(Turns)

\* Only turns take most steps, a hot file is written in three of them, and what
\* is being archived is not yet marked.
Placed ==
  /\ \A p \in Procs : pc[p] \notin Ends \cup {"idle", "distill"} => p \in Turns
  /\ \A p \in Procs : part[p] # "none" => Appending(p)
  /\ \A t \in Turns : pc[t] \in {"archive", "replay", "summary"} => status[t]["archive"] = "pending"

Framed == Typed /\ Placed

\* Marking a step.
LEMMA Marking ==
  ASSUME Framed, NEW t \in Turns, NEW step \in Steps, NEW result \in Results, Mark(t, step, result)
  PROVE  /\ status' \in [Turns -> [Steps -> Results]]
         /\ status' = [status EXCEPT ![t] = [status[t] EXCEPT ![step] = result]]
         /\ pc' = [pc EXCEPT ![t] = pc'[t]]
         /\ pc'[t] = "done" \/ (pc'[t] \in Steps /\ status'[t][pc'[t]] = "pending")
         /\ pc' \in [Procs -> PCs]
<1> DEFINE st == [status[t] EXCEPT ![step] = result]
<1>1. st \in [Steps -> Results]
  BY DEF Framed, Typed
<1>2. status' = [status EXCEPT ![t] = st] /\ pc' = [pc EXCEPT ![t] = Upcoming(st)]
  BY DEF Mark, Goto
<1>3. Upcoming(st) = "done" \/ (Upcoming(st) \in Steps /\ st[Upcoming(st)] = "pending")
  BY <1>1, Following
<1>4. Upcoming(st) \in PCs /\ t \in Procs
  BY <1>3 DEF PCs, Ends, Steps, Procs
<1> HIDE DEF st
<1>5. pc'[t] = Upcoming(st) /\ status'[t] = st /\ pc' \in [Procs -> PCs]
      /\ status' \in [Turns -> [Steps -> Results]]
  BY <1>1, <1>2, <1>4 DEF Framed, Typed
<1> QED
  BY <1>2, <1>3, <1>5 DEF st

--------------------------------------------------------------------------------
(* The frame is kept by every step *)

\* At first everything has its type and no turn is under way.
LEMMA FramedInit == Init => Framed
<1> SUFFICES ASSUME Init PROVE Framed
  OBVIOUS
<1>1. asked \in [Turns -> Requests] /\ \A t \in Turns : asked[t].steps \subseteq Steps
  BY TurnRecordsAssumption DEF Init, Steps
<1>2. pc \in [Procs -> PCs] /\ \A p \in Procs : pc[p] = "idle"
  BY DEF Init, PCs
<1>3. status \in [Turns -> [Steps -> Results]]
  BY DEF Init, Results
<1>4. archive \in [Sessions -> Seq(Turns)] /\ dispatches \in Seq(Turns)
  BY DEF Init
<1>5. Typed
  BY <1>1, <1>2, <1>3, <1>4 DEF Init, Typed
<1>6. Placed
  BY <1>2 DEF Init, Placed, Ends, Procs
<1> QED
  BY <1>5, <1>6 DEF Framed

\* A step of p touches nothing of the others.
LEMMA PlacedStep ==
  ASSUME Framed, NEW p \in Procs, DOMAIN pc' = Procs,
         \A q \in Procs \ {p} : pc'[q] = pc[q] /\ part'[q] = part[q] /\ todo'[q] = todo[q],
         \A u \in Turns \ {p} : status'[u] = status[u],
         pc'[p] \notin Ends \cup {"idle", "distill"} => p \in Turns,
         part'[p] # "none" => Appending(p)',
         p \in Turns /\ pc'[p] \in {"archive", "replay", "summary"}
           => status'[p]["archive"] = "pending"
  PROVE  Placed'
<1>1. \A q \in Procs : pc'[q] \notin Ends \cup {"idle", "distill"} => q \in Turns
  BY DEF Framed, Placed
<1>2. \A q \in Procs : part'[q] # "none" => Appending(q)'
  BY DEF Framed, Placed, Appending
<1>3. \A u \in Turns : pc'[u] \in {"archive", "replay", "summary"} => status'[u]["archive"] = "pending"
  BY DEF Framed, Placed, Procs
<1> QED
  BY <1>1, <1>2, <1>3 DEF Placed

\* A turn that writes no hot file goes somewhere.
LEMMA PlacedTurn ==
  ASSUME Framed, NEW t \in Turns, ~Appending(t), part' = part, todo' = todo,
         pc' = [pc EXCEPT ![t] = pc'[t]],
         status' = [status EXCEPT ![t] = status'[t]],
         pc'[t] \in {"archive", "replay", "summary"} => status'[t]["archive"] = "pending"
  PROVE  Placed'
<1>1. t \in Procs /\ DOMAIN pc = Procs /\ DOMAIN status = Turns
  BY DEF Procs, Framed, Typed
<1>2. part[t] = "none"
  BY <1>1 DEF Framed, Placed
<1>3. DOMAIN pc' = Procs /\ \A q \in Procs \ {t} : pc'[q] = pc[q]
  BY <1>1
<1>4. \A u \in Turns \ {t} : status'[u] = status[u]
  BY <1>1
<1> QED
  BY <1>1, <1>2, <1>3, <1>4, PlacedStep

\* A turn marks a step and goes on.
LEMMA FramedMark ==
  ASSUME Framed, NEW t \in Turns, ~Appending(t), part' = part, todo' = todo,
         NEW step \in Steps, NEW result \in Results, Mark(t, step, result)
  PROVE  Placed' /\ pc' \in [Procs -> PCs] /\ status' \in [Turns -> [Steps -> Results]]
<1>1. /\ status' \in [Turns -> [Steps -> Results]]
      /\ status' = [status EXCEPT ![t] = [status[t] EXCEPT ![step] = result]]
      /\ pc' = [pc EXCEPT ![t] = pc'[t]]
      /\ pc'[t] = "done" \/ (pc'[t] \in Steps /\ status'[t][pc'[t]] = "pending")
      /\ pc' \in [Procs -> PCs]
  BY Marking
<1>2. status' = [status EXCEPT ![t] = status'[t]]
  BY <1>1 DEF Framed, Typed
<1>3. pc'[t] \in {"archive", "replay", "summary"} => status'[t]["archive"] = "pending"
  BY <1>1 DEF Steps
<1> QED
  BY <1>1, <1>2, <1>3, PlacedTurn

\* The steps that take a turn from one part of its way to the next.
LEMMA FramedGo ==
  ASSUME Framed, NEW t \in Turns,
         Remember(t) \/ Prepare(t) \/ Archive(t) \/ Replay(t) \/ ReadDiary(t)
           \/ TruncateDiary(t) \/ BuildSpawner(t)
  PROVE  Framed'
<1>t. t \in Procs /\ Typed /\ Placed /\ asked[t].session \in Sessions
  BY TurnRecordsAssumption DEF Procs, Framed, Typed
<1>p. pc[t] \in {"idle", "prepare", "archive", "replay", "append", "truncate", "dispatch"} => ~Appending(t)
  BY DEF Appending
<1> SUFFICES ASSUME TRUE PROVE Typed' /\ Placed'
  BY DEF Framed
<1>1. CASE Remember(t)
  <2>1. pc' = [pc EXCEPT ![t] = pc'[t]] /\ pc'[t] \in {"prepare", "error"} /\ ~Appending(t)
    BY <1>1, <1>t, <1>p DEF Remember, Goto, Typed
  <2>2. UNCHANGED <<asked, part, status, base, todo, fd, hot, tmp, seq, counted, seen, archive, rolling, dispatches>>
    BY <1>1 DEF Remember, locals, texts
  <2> QED
    BY <2>1, <2>2, <1>t, PlacedTurn DEF Typed, PCs, Ends
<1>2. CASE Prepare(t)
  <2>1. UNCHANGED <<asked, part, base, todo, fd, hot, tmp, seq, counted, seen, archive, rolling, dispatches>> /\ ~Appending(t)
    BY <1>2, <1>p DEF Prepare, locals, texts, tables
  <2>2. CASE status' = status /\ pc' = [pc EXCEPT ![t] = "error"]
    BY <2>1, <2>2, <1>t, PlacedTurn DEF Typed, PCs, Ends
  <2>3. CASE ~(status' = status /\ pc' = [pc EXCEPT ![t] = "error"])
    <3>1. PICK refused \in SUBSET Steps :
            LET st == [s \in Steps |-> IF s \in refused THEN "failed" ELSE status[t][s]]
            IN status' = [status EXCEPT ![t] = st] /\ pc' = [pc EXCEPT ![t] = Upcoming(st)]
      BY <1>2, <2>3 DEF Prepare, Goto, Steps
    <3> DEFINE st == [s \in Steps |-> IF s \in refused THEN "failed" ELSE status[t][s]]
    <3>2. st \in [Steps -> Results]
      BY <1>t DEF Typed, Results
    <3>3. Upcoming(st) = "done" \/ (Upcoming(st) \in Steps /\ st[Upcoming(st)] = "pending")
      BY <3>2, Following
    <3>4. status' = [status EXCEPT ![t] = st] /\ pc' = [pc EXCEPT ![t] = Upcoming(st)]
      BY <3>1
    <3> HIDE DEF st
    <3>5. pc'[t] = Upcoming(st) /\ status'[t] = st /\ Upcoming(st) \in PCs
      BY <3>3, <3>4, <1>t DEF Typed, PCs, Ends, Steps
    <3>6. Placed'
      BY <2>1, <3>3, <3>4, <3>5, <1>t, PlacedTurn DEF Steps
    <3> QED
      BY <2>1, <3>2, <3>4, <3>5, <3>6, <1>t DEF Typed
  <2> QED
    BY <2>2, <2>3
<1>3. CASE Archive(t)
  <2>1. UNCHANGED <<asked, part, status, base, todo, fd, hot, tmp, counted, seen, rolling, dispatches>> /\ ~Appending(t)
    BY <1>3, <1>p DEF Archive, texts
  <2>2. pc' = [pc EXCEPT ![t] = pc'[t]] /\ pc'[t] \in {"replay", "error"}
    BY <1>3, <1>t DEF Archive, Goto, Typed
  <2>3. seq' \in [Turns -> Nat] /\ archive' \in [Sessions -> Seq(Turns)]
    <3>1. Len(archive[asked[t].session]) \in Nat /\ Append(archive[asked[t].session], t) \in Seq(Turns)
      BY <1>t DEF Typed
    <3>2. CASE archive' = archive /\ seq' = seq
      BY <3>2, <1>t DEF Typed
    <3>3. CASE ~(archive' = archive /\ seq' = seq)
      <4>1. /\ archive' = [archive EXCEPT ![asked[t].session] = Append(archive[asked[t].session], t)]
            /\ seq' = [seq EXCEPT ![t] = Len(archive[asked[t].session]) + 1]
        BY <1>3, <3>3 DEF Archive
      <4> QED
        BY <3>1, <4>1, <1>t DEF Typed
    <3> QED
      BY <3>2, <3>3
  <2>4. status[t]["archive"] = "pending"
    BY <1>3, <1>t DEF Archive, Placed
  <2>5. Placed'
    BY <2>1, <2>2, <2>4, <1>t, PlacedTurn DEF Typed
  <2> QED
    BY <2>1, <2>2, <2>3, <2>5, <1>t DEF Typed, PCs, Ends
<1>4. CASE Replay(t)
  <2>1. UNCHANGED <<asked, part, status, base, todo, fd, hot, tmp, seq, seen, archive, rolling, dispatches>> /\ ~Appending(t)
    BY <1>4, <1>p DEF Replay, texts, tables
  <2>2. pc' = [pc EXCEPT ![t] = pc'[t]] /\ pc'[t] \in {"summary", "error"}
    BY <1>4, <1>t DEF Replay, Goto, Typed
  <2>3. counted' \in [Turns -> Nat]
    <3>1. Len(archive[asked[t].session]) \in Nat
      BY <1>t DEF Typed
    <3>2. counted' = counted \/ counted' = [counted EXCEPT ![t] = Len(archive[asked[t].session])]
      BY <1>4 DEF Replay, Replayed
    <3> QED
      BY <3>1, <3>2, <1>t DEF Typed
  <2>4. status[t]["archive"] = "pending"
    BY <1>4, <1>t DEF Replay, Placed
  <2>5. Placed'
    BY <2>1, <2>2, <2>4, <1>t, PlacedTurn DEF Typed
  <2> QED
    BY <2>1, <2>2, <2>3, <2>5, <1>t DEF Typed, PCs, Ends
<1>5. CASE ReadDiary(t)
  <2>1. UNCHANGED <<asked, part, status, todo, fd, hot, tmp, seq, counted, seen, archive, rolling, dispatches>> /\ ~Appending(t)
    BY <1>5, <1>p DEF ReadDiary, texts, tables
  <2>2. pc' = [pc EXCEPT ![t] = "truncate"] /\ DOMAIN base' = Procs
    BY <1>5, <1>t DEF ReadDiary, Goto, Typed
  <2> QED
    BY <2>1, <2>2, <1>t, PlacedTurn DEF Typed, PCs, Ends
<1>6. CASE TruncateDiary(t)
  <2>1. UNCHANGED <<asked, part, status, base, todo, fd, hot, tmp, seq, counted, seen, archive, rolling, dispatches>> /\ ~Appending(t)
    BY <1>6, <1>p DEF TruncateDiary, locals, tables
  <2>2. pc' = [pc EXCEPT ![t] = "fill"]
    BY <1>6, <1>t DEF TruncateDiary, Goto, Typed
  <2> QED
    BY <2>1, <2>2, <1>t, PlacedTurn DEF Typed, PCs, Ends
<1>7. CASE BuildSpawner(t)
  <2>1. UNCHANGED <<asked, part, status, base, todo, fd, hot, tmp, seq, counted, archive, rolling, dispatches>> /\ ~Appending(t)
    BY <1>7, <1>p DEF BuildSpawner, texts, tables
  <2>2. pc' = [pc EXCEPT ![t] = "spawn"] /\ seen' \in [Turns -> Nat]
    BY <1>7, <1>t DEF BuildSpawner, Goto, Typed
  <2> QED
    BY <2>1, <2>2, <1>t, PlacedTurn DEF Typed, PCs, Ends
<1> QED
  BY <1>1, <1>2, <1>3, <1>4, <1>5, <1>6, <1>7

\* The steps that mark one of a turn.
LEMMA FramedMarking ==
  ASSUME Framed, NEW t \in Turns,
         Summarise(t) \/ DecideDiary(t) \/ DiaryFails(t) \/ FillDiary(t) \/ Spawn(t)
           \/ DispatchFails(t)
  PROVE  Framed'
<1>t. t \in Procs /\ Typed /\ Placed /\ asked[t].session \in Sessions
  BY TurnRecordsAssumption DEF Procs, Framed, Typed
<1>p. pc[t] \in {"summary", "diary", "append", "truncate", "fill", "dispatch", "spawn"} => ~Appending(t)
  BY DEF Appending
<1>r. "applied" \in Results /\ "failed" \in Results /\ "skipped" \in Results
      /\ "archive" \in Steps /\ "diary" \in Steps /\ "dispatch" \in Steps
  BY DEF Results, Steps
<1> SUFFICES ASSUME TRUE PROVE Typed' /\ Placed'
  BY DEF Framed
<1>1. CASE Summarise(t)
  <2>1. UNCHANGED <<asked, part, base, todo, fd, hot, tmp, seq, counted, seen, archive, dispatches>> /\ ~Appending(t)
    BY <1>1, <1>p DEF Summarise, locals, texts
  <2>2. CASE Mark(t, "archive", "applied") /\ rolling' = [rolling EXCEPT ![asked[t].session] = counted[t]]
    BY <2>1, <2>2, <1>t, <1>r, FramedMark DEF Typed
  <2>3. CASE status' = status /\ pc' = [pc EXCEPT ![t] = "error"] /\ rolling' = rolling
    BY <2>1, <2>3, <1>t, PlacedTurn DEF Typed, PCs, Ends
  <2> QED
    BY <1>1, <2>2, <2>3 DEF Summarise, Goto
<1>2. CASE DecideDiary(t)
  <2>1. UNCHANGED <<asked, part, base, todo, fd, hot, tmp, seq, counted, seen, archive, rolling, dispatches>> /\ ~Appending(t)
    BY <1>2, <1>p DEF DecideDiary, locals, texts, tables
  <2>2. CASE Mark(t, "diary", "skipped")
    BY <2>1, <2>2, <1>t, <1>r, FramedMark DEF Typed
  <2>3. CASE status' = status /\ pc' = [pc EXCEPT ![t] = "append"]
    BY <2>1, <2>3, <1>t, PlacedTurn DEF Typed, PCs, Ends
  <2> QED
    BY <1>2, <2>2, <2>3 DEF DecideDiary, Goto
<1>3. CASE DiaryFails(t)
  <2>1. UNCHANGED <<asked, part, todo, fd, hot, tmp, seq, counted, seen, archive, rolling, dispatches>> /\ ~Appending(t)
        /\ Mark(t, "diary", "failed") /\ DOMAIN base' = Procs
    BY <1>3, <1>t, <1>p DEF DiaryFails, texts, tables, Typed
  <2> QED
    BY <2>1, <1>t, <1>r, FramedMark DEF Typed
<1>4. CASE FillDiary(t)
  <2>1. UNCHANGED <<asked, part, todo, fd, hot, tmp, seq, counted, seen, archive, rolling, dispatches>> /\ ~Appending(t)
        /\ DOMAIN base' = Procs
    BY <1>4, <1>t, <1>p DEF FillDiary, tables, Typed
  <2>2. CASE Mark(t, "diary", "applied")
    BY <2>1, <2>2, <1>t, <1>r, FramedMark DEF Typed
  <2>3. CASE status' = [status EXCEPT ![t].diary = "applied"] /\ pc' = [pc EXCEPT ![t] = "distill"]
    <3>1. status' \in [Turns -> [Steps -> Results]] /\ status' = [status EXCEPT ![t] = status'[t]]
      BY <2>3, <1>t, <1>r DEF Typed
    <3> QED
      BY <2>1, <2>3, <3>1, <1>t, PlacedTurn DEF Typed, PCs, Ends
  <2> QED
    BY <1>4, <2>2, <2>3 DEF FillDiary, Goto
<1>5. CASE Spawn(t)
  <2>1. UNCHANGED <<asked, part, base, todo, fd, hot, tmp, seq, counted, seen, archive, rolling>> /\ ~Appending(t)
        /\ Mark(t, "dispatch", "applied")
    BY <1>5, <1>p DEF Spawn, locals, tables
  <2>2. dispatches' \in Seq(Turns)
    BY <1>5, <1>t DEF Spawn, Typed
  <2> QED
    BY <2>1, <2>2, <1>t, <1>r, FramedMark DEF Typed
<1>6. CASE DispatchFails(t)
  <2>1. UNCHANGED <<asked, part, base, todo, fd, hot, tmp, seq, counted, seen, archive, rolling, dispatches>> /\ ~Appending(t)
    BY <1>6, <1>p DEF DispatchFails, locals, texts, tables
  <2>2. CASE Mark(t, "dispatch", "failed")
    BY <2>1, <2>2, <1>t, <1>r, FramedMark DEF Typed
  <2>3. CASE status' = status /\ pc' = [pc EXCEPT ![t] = "error"]
    BY <2>1, <2>3, <1>t, PlacedTurn DEF Typed, PCs, Ends
  <2> QED
    BY <1>6, <2>2, <2>3 DEF DispatchFails, Goto
<1> QED
  BY <1>1, <1>2, <1>3, <1>4, <1>5, <1>6

\* Where a distillation goes on.
LEMMA Departing ==
  ASSUME Framed, NEW p \in Procs
  PROVE  /\ Distilled(p) \in Steps \cup {"done"}
         /\ p \notin Turns => Distilled(p) = "done"
         /\ p \in Turns /\ Distilled(p) # "done" => status[p][Distilled(p)] = "pending"
<1>1. CASE p \in Turns
  BY <1>1, Following DEF Distilled, Framed, Typed
<1>2. CASE p \notin Turns
  BY <1>2 DEF Distilled
<1> QED
  BY <1>1, <1>2

\* An append to a hot file that came to an end.
LEMMA Ending ==
  ASSUME Framed, NEW p \in Procs, Appending(p), NEW result \in {"applied", "failed"},
         Ended(p, result)
  PROVE  /\ Placed'
         /\ pc' \in [Procs -> PCs] /\ pc' = [pc EXCEPT ![p] = pc'[p]]
         /\ pc'[p] \in Steps \cup {"done", "error", "distill"}
         /\ part' = [part EXCEPT ![p] = "none"] /\ base' = [base EXCEPT ![p] = <<>>]
         /\ status' \in [Turns -> [Steps -> Results]] /\ DOMAIN todo' = Procs
         /\ pc[p] = "distill" => status' = status
         /\ pc[p] # "distill" => /\ p \in Turns /\ pc[p] \in {"identity", "experience"}
                                 /\ status' = [status EXCEPT ![p] = [status[p] EXCEPT ![pc[p]] = result]]
<1>t. Typed /\ Placed
  BY DEF Framed
<1>1. part' = [part EXCEPT ![p] = "none"] /\ base' = [base EXCEPT ![p] = <<>>]
  BY DEF Ended
<1>2. part'[p] = "none" /\ \A q \in Procs \ {p} : part'[q] = part[q]
  BY <1>1, <1>t DEF Typed
<1>3. CASE pc[p] = "distill"
  <2>1. todo' = [todo EXCEPT ![p] = todo'[p]] /\ status' = status
    BY <1>3, <1>t DEF Ended, Typed
  <2>2. pc' = [pc EXCEPT ![p] = pc'[p]] /\ pc'[p] \in {"distill", "error", Distilled(p)}
    BY <1>3, <1>t DEF Ended, Goto, Typed
  <2>3. pc'[p] \in Steps \cup {"done", "error", "distill"}
    BY <2>2, Departing
  <2>4. pc' \in [Procs -> PCs]
    BY <2>2, <2>3, <1>t DEF Typed, PCs, Steps, Ends
  <2>5. Placed'
    <3>1. \A q \in Procs \ {p} : pc'[q] = pc[q] /\ todo'[q] = todo[q]
      BY <2>1, <2>2, <1>t DEF Typed
    <3>2. pc'[p] \notin Ends \cup {"idle", "distill"} => p \in Turns
      BY <2>2, Departing DEF Ends
    <3>3. p \in Turns /\ pc'[p] \in {"archive", "replay", "summary"} => status'[p]["archive"] = "pending"
      BY <2>1, <2>2, Departing DEF Steps
    <3> QED
      BY <1>2, <2>1, <2>4, <3>1, <3>2, <3>3, PlacedStep
  <2> QED
    BY <1>1, <1>3, <2>1, <2>2, <2>3, <2>4, <2>5, <1>t DEF Typed
<1>4. CASE pc[p] # "distill"
  <2>1. p \in Turns /\ pc[p] \in {"identity", "experience"} /\ pc[p] \in Steps
    BY <1>4, <1>t DEF Appending, Placed, Ends, Steps
  <2>2. Mark(p, pc[p], result) /\ todo' = todo
    BY <1>4 DEF Ended
  <2>3. result \in Results
    BY DEF Results
  <2>4. /\ status' \in [Turns -> [Steps -> Results]]
        /\ status' = [status EXCEPT ![p] = [status[p] EXCEPT ![pc[p]] = result]]
        /\ pc' = [pc EXCEPT ![p] = pc'[p]]
        /\ pc'[p] = "done" \/ (pc'[p] \in Steps /\ status'[p][pc'[p]] = "pending")
        /\ pc' \in [Procs -> PCs]
    BY <2>1, <2>2, <2>3, Marking
  <2>5. Placed'
    <3>1. \A q \in Procs \ {p} : pc'[q] = pc[q] /\ todo'[q] = todo[q]
      BY <2>2, <2>4, <1>t DEF Typed
    <3>2. \A u \in Turns \ {p} : status'[u] = status[u]
      BY <2>4, <1>t DEF Typed
    <3>3. p \in Turns /\ pc'[p] \in {"archive", "replay", "summary"} => status'[p]["archive"] = "pending"
      BY <2>4 DEF Steps
    <3> QED
      BY <1>2, <2>1, <2>4, <3>1, <3>2, <3>3, PlacedStep
  <2> QED
    BY <1>1, <1>4, <2>1, <2>2, <2>4, <2>5, <1>t DEF Typed
<1> QED
  BY <1>3, <1>4

\* The steps of writing a hot file, of distilling, and a death.
LEMMA FramedWrite ==
  ASSUME Framed, NEW p \in Procs, Write(p) \/ Crash(p) \/ StartDistill(p)
  PROVE  Framed'
<1>t. Typed /\ Placed /\ (part[p] # "none" => Appending(p))
  BY DEF Framed, Placed
<1> SUFFICES ASSUME TRUE PROVE Typed' /\ Placed'
  BY DEF Framed
<1>1. CASE ReadHot(p)
  <2>1. UNCHANGED <<asked, seq, counted, seen, fd, hot, tmp, archive, rolling, dispatches>> /\ Appending(p)
    BY <1>1 DEF ReadHot, tables, texts
  <2>2. CASE Ended(p, "failed")
    BY <2>1, <2>2, <1>t, Ending DEF Typed
  <2>3. CASE ~Ended(p, "failed")
    <3>1. UNCHANGED <<pc, todo, status>> /\ DOMAIN base' = Procs /\ part' = [part EXCEPT ![p] = "open"]
      BY <1>1, <2>3, <1>t DEF ReadHot, Typed
    <3>2. Typed'
      BY <2>1, <3>1, <1>t DEF Typed
    <3>3. \A q \in Procs \ {p} : part'[q] = part[q]
      BY <3>1, <1>t DEF Typed
    <3>4. Placed'
      BY <2>1, <3>1, <3>3, <1>t DEF Placed, Appending
    <3> QED
      BY <3>2, <3>4
  <2> QED
    BY <2>2, <2>3
<1>2. CASE OpenTmp(p)
  <2>1. UNCHANGED <<asked, pc, status, base, todo, seq, counted, seen, hot, archive, rolling, dispatches>> /\ Appending(p)
        /\ part' = [part EXCEPT ![p] = "fill"] /\ DOMAIN tmp' = Files /\ DOMAIN fd' = Procs
    BY <1>2, <1>t DEF OpenTmp, tables, Typed
  <2> QED
    BY <2>1, <1>t DEF Placed, Appending, Typed
<1>3. CASE FillTmp(p)
  <2>1. UNCHANGED <<asked, pc, status, base, todo, seq, counted, seen, archive, rolling, dispatches>> /\ Appending(p)
        /\ part' = [part EXCEPT ![p] = "rename"] /\ DOMAIN tmp' = Files /\ DOMAIN hot' = Files /\ DOMAIN fd' = Procs
    BY <1>3, <1>t DEF FillTmp, tables, Typed
  <2> QED
    BY <2>1, <1>t DEF Placed, Appending, Typed
<1>4. CASE RenameTmp(p)
  <2>1. UNCHANGED <<asked, seq, counted, seen, archive, rolling, dispatches>> /\ Appending(p)
        /\ DOMAIN tmp' = Files /\ DOMAIN hot' = Files /\ DOMAIN fd' = Procs
    BY <1>4, <1>t DEF RenameTmp, Moved, tables, Typed
  <2>2. PICK result \in {"applied", "failed"} : Ended(p, result)
    BY <1>4 DEF RenameTmp
  <2>3. /\ Placed' /\ pc' \in [Procs -> PCs] /\ status' \in [Turns -> [Steps -> Results]]
        /\ part' = [part EXCEPT ![p] = "none"] /\ base' = [base EXCEPT ![p] = <<>>] /\ DOMAIN todo' = Procs
    BY <2>1, <2>2, <1>t, Ending
  <2>4. part' \in [Procs -> {"none", "open", "fill", "rename"}] /\ DOMAIN base' = Procs
    BY <2>3, <1>t DEF Typed
  <2>5. Typed'
    BY <2>1, <2>3, <2>4, <1>t DEF Typed
  <2> QED
    BY <2>3, <2>5
<1>5. CASE HotFails(p)
  <2>1. UNCHANGED <<asked, seq, counted, seen, hot, tmp, archive, rolling, dispatches>> /\ Appending(p)
        /\ DOMAIN fd' = Procs /\ Ended(p, "failed")
    BY <1>5, <1>t DEF HotFails, tables, texts, Typed
  <2>3. /\ Placed' /\ pc' \in [Procs -> PCs] /\ status' \in [Turns -> [Steps -> Results]]
        /\ part' = [part EXCEPT ![p] = "none"] /\ base' = [base EXCEPT ![p] = <<>>] /\ DOMAIN todo' = Procs
    BY <2>1, <1>t, Ending
  <2>4. part' \in [Procs -> {"none", "open", "fill", "rename"}] /\ DOMAIN base' = Procs
    BY <2>3, <1>t DEF Typed
  <2>5. Typed'
    BY <2>1, <2>3, <2>4, <1>t DEF Typed
  <2> QED
    BY <2>3, <2>5
<1>6. CASE ReadDay(p)
  <2>1. UNCHANGED <<asked, part, status, base, fd, hot, tmp, seq, counted, seen, archive, rolling, dispatches>>
        /\ DOMAIN todo' = Procs /\ pc[p] = "distill" /\ ~Appending(p)
    BY <1>6, <1>t DEF ReadDay, Appending, tables, texts, Typed
  <2>2. pc' = [pc EXCEPT ![p] = pc'[p]] /\ pc'[p] \in {"distill", Distilled(p)} /\ \A q \in Procs \ {p} : todo'[q] = todo[q]
    BY <1>6, <1>t, <2>1 DEF ReadDay, Goto, Typed
  <2>3. Typed'
    <3>1. pc'[p] \in PCs
      BY <2>2, Departing DEF PCs, Steps, Ends
    <3> QED
      BY <2>1, <2>2, <3>1, <1>t DEF Typed
  <2>4. part'[p] = "none" /\ \A q \in Procs \ {p} : pc'[q] = pc[q] /\ part'[q] = part[q]
    BY <2>1, <2>2, <1>t DEF Typed
  <2>5. pc'[p] \notin Ends \cup {"idle", "distill"} => p \in Turns
    BY <2>2, Departing DEF Ends
  <2>6. p \in Turns /\ pc'[p] \in {"archive", "replay", "summary"} => status'[p]["archive"] = "pending"
    BY <2>1, <2>2, Departing DEF Steps
  <2>7. Placed'
    BY <2>1, <2>2, <2>3, <2>4, <2>5, <2>6, PlacedStep DEF Typed
  <2> QED
    BY <2>3, <2>7
<1>7. CASE Crash(p)
  <2>1. UNCHANGED <<asked, status, seq, counted, seen, hot, tmp, archive, rolling, dispatches>>
        /\ DOMAIN todo' = Procs /\ DOMAIN base' = Procs /\ DOMAIN fd' = Procs
        /\ pc' = [pc EXCEPT ![p] = "dead"] /\ part' = [part EXCEPT ![p] = "none"]
        /\ todo' = [todo EXCEPT ![p] = <<>>]
    BY <1>7, <1>t DEF Crash, tables, texts, Goto, Typed
  <2>2. Typed'
    BY <2>1, <1>t DEF Typed, PCs, Ends
  <2>3. pc'[p] = "dead" /\ part'[p] = "none"
        /\ \A q \in Procs \ {p} : pc'[q] = pc[q] /\ part'[q] = part[q] /\ todo'[q] = todo[q]
    BY <2>1, <1>t DEF Typed
  <2>4. Placed'
    BY <2>1, <2>2, <2>3, PlacedStep DEF Typed, Ends
  <2> QED
    BY <2>2, <2>4
<1>8. CASE StartDistill(p)
  <2>1. UNCHANGED <<asked, part, status, base, todo, fd, hot, tmp, seq, counted, seen, archive, rolling, dispatches>>
        /\ pc' = [pc EXCEPT ![p] = "distill"] /\ ~Appending(p)
    BY <1>8 DEF StartDistill, Goto, Appending, locals, tables, texts
  <2>2. Typed'
    BY <2>1, <1>t DEF Typed, PCs
  <2>3. pc'[p] = "distill" /\ part'[p] = "none" /\ \A q \in Procs \ {p} : pc'[q] = pc[q]
    BY <2>1, <1>t DEF Typed
  <2>4. Placed'
    BY <2>1, <2>2, <2>3, PlacedStep DEF Typed
  <2> QED
    BY <2>2, <2>4
<1> QED
  BY <1>1, <1>2, <1>3, <1>4, <1>5, <1>6, <1>7, <1>8 DEF Write

\* Whatever a process does, the types stay and a step is pending until it is
\* marked.
LEMMA FramedStep == Framed /\ [Next]_vars => Framed'
<1> SUFFICES ASSUME Framed, [Next]_vars PROVE Framed'
  OBVIOUS
<1>1. CASE \E t \in Turns : Turn(t)
  BY <1>1, FramedGo, FramedMarking DEF Turn
<1>2. CASE \E p \in Procs : Write(p) \/ Crash(p) \/ StartDistill(p)
  BY <1>2, FramedWrite
<1>3. CASE UNCHANGED vars
  <2>1. Typed'
    BY <1>3 DEF vars, Framed, Typed
  <2>2. Placed'
    BY <1>3 DEF vars, Framed, Placed, Appending
  <2> QED
    BY <2>1, <2>2 DEF Framed
<1> QED
  BY <1>1, <1>2, <1>3 DEF Next, Procs

\* Whatever fails: tables, statuses and positions are of their types, only turns
\* take the steps of a turn, and what is being archived is not yet marked.
THEOREM FrameStands == Spec => []Framed
  BY FramedInit, FramedStep, PTL DEF Spec

--------------------------------------------------------------------------------
(* A process that is not overlapped has a store for itself *)

Excl ==
  \A s \in Stores \ hurt : \A p, q \in Procs : Changing(p, s) /\ Changing(q, s) => p = q

\* Between its steps a process changes nothing.
LEMMA Resting ==
  ASSUME NEW p, NEW s,
         pc'[p] \in Ends \cup Steps \cup {"idle", "prepare", "append", "distill"}, part'[p] = "none"
  PROVE  ~Changing(p, s)'
BY DEF Changing, Ends, Steps

\* A step of one process keeps stores apart if it begins no change to a store
\* that another is changing, unless that store counts as hurt from then on.
LEMMA ExclMove ==
  ASSUME Framed, Excl, NEW p \in Procs, asked' = asked, hurt \subseteq hurt',
         \A q \in Procs \ {p} : pc'[q] = pc[q] /\ part'[q] = part[q],
         \A s \in Stores \ hurt' : Changing(p, s)' =>
            Changing(p, s) \/ (\A q \in Procs \ {p} : ~Changing(q, s))
  PROVE  Excl'
<1>1. \A s \in Stores : \A q \in Procs \ {p} : Changing(q, s)' <=> Changing(q, s)
  BY DEF Changing
<1>2. ASSUME NEW s \in Stores \ hurt', NEW q \in Procs, NEW r \in Procs,
             Changing(q, s)', Changing(r, s)', q # r
      PROVE  FALSE
  BY <1>1, <1>2 DEF Excl
<1> QED
  BY <1>2 DEF Excl

\* A store that is entered is marked if another process is changing it.
LEMMA Entering ==
  ASSUME NEW p \in Procs, NEW store, Enter(p, store)
  PROVE  /\ hurt \subseteq hurt'
         /\ store \notin hurt' => \A q \in Procs \ {p} : ~Changing(q, store)
  BY DEF Enter

\* A turn that goes on, or begins a change, takes the store for itself or hurts
\* it.
LEMMA ExclGo ==
  ASSUME Framed, Framed', Excl, NEW t \in Turns,
         Remember(t) \/ Prepare(t) \/ Archive(t) \/ Replay(t) \/ ReadDiary(t)
           \/ TruncateDiary(t) \/ BuildSpawner(t)
  PROVE  Excl'
<1>t. t \in Procs /\ Typed /\ Placed /\ Placed' /\ Typed'
  BY DEF Procs, Framed
<1>p. pc[t] \in {"idle", "prepare", "archive", "replay", "append", "truncate", "dispatch"} => part[t] = "none"
  BY <1>t DEF Appending, Placed
<1>1. CASE Remember(t) \/ Prepare(t)
  <2>1. asked' = asked /\ hurt' = hurt /\ part' = part /\ part[t] = "none"
    BY <1>1, <1>p DEF Remember, Prepare, locals
  <2>2. pc' = [pc EXCEPT ![t] = pc'[t]] /\ pc'[t] \in {"prepare", "error"} \cup Steps \cup {"done"}
    <3>1. CASE Remember(t)
      BY <3>1, <1>t DEF Remember, Goto, Typed
    <3>2. CASE Prepare(t)
      <4>1. CASE pc' = [pc EXCEPT ![t] = "error"]
        BY <4>1, <1>t DEF Typed
      <4>2. CASE pc' # [pc EXCEPT ![t] = "error"]
        <5>1. PICK refused \in SUBSET Steps :
            LET st == [s \in Steps |-> IF s \in refused THEN "failed" ELSE status[t][s]]
            IN pc' = [pc EXCEPT ![t] = Upcoming(st)]
          BY <3>2, <4>2 DEF Prepare, Goto, Steps
        <5> DEFINE st == [s \in Steps |-> IF s \in refused THEN "failed" ELSE status[t][s]]
        <5>2. st \in [Steps -> Results]
          BY <1>t DEF Typed, Results
        <5>3. Upcoming(st) \in Steps \cup {"done"} /\ pc' = [pc EXCEPT ![t] = Upcoming(st)]
          BY <5>1, <5>2, Following
        <5> HIDE DEF st
        <5> QED
          BY <5>3, <1>t DEF Typed
      <4> QED
        BY <4>1, <4>2
    <3> QED
      BY <1>1, <3>1, <3>2
  <2>3. pc'[t] \in Ends \cup Steps \cup {"idle", "prepare", "append", "distill"}
    BY <2>2 DEF Ends
  <2>4. \A s \in Stores : ~Changing(t, s)'
    BY <2>1, <2>3, Resting
  <2>5. \A q \in Procs \ {t} : pc'[q] = pc[q] /\ part'[q] = part[q]
    BY <2>1, <2>2, <1>t DEF Typed
  <2> QED
    BY <2>1, <2>4, <2>5, <1>t, ExclMove
<1>3. CASE Archive(t)
  <2>1. asked' = asked /\ part' = part
    BY <1>3 DEF Archive
  <2>2. CASE pc' = [pc EXCEPT ![t] = "replay"] /\ Enter(t, asked[t].session)
    <3>1. \A q \in Procs \ {t} : pc'[q] = pc[q] /\ part'[q] = part[q]
      BY <2>1, <2>2, <1>t DEF Typed
    <3>2. \A s : Changing(t, s)' => s = asked[t].session
      BY <2>1, <2>2, <1>t DEF Typed, Changing
    <3> QED
      BY <2>1, <2>2, <3>1, <3>2, <1>t, Entering, ExclMove
  <2>3. CASE pc' = [pc EXCEPT ![t] = "error"] /\ hurt' = hurt
    <3>1. (\A q \in Procs \ {t} : pc'[q] = pc[q] /\ part'[q] = part[q]) /\ \A s : ~Changing(t, s)'
      BY <2>1, <2>3, <1>t DEF Typed, Changing
    <3> QED
      BY <2>1, <2>3, <3>1, <1>t, ExclMove
  <2> QED
    BY <1>3, <2>2, <2>3 DEF Archive, Goto
<1>4. CASE Replay(t)
  <2>1. asked' = asked /\ hurt' = hurt /\ part' = part /\ pc[t] = "replay"
        /\ (pc' = [pc EXCEPT ![t] = "summary"] \/ pc' = [pc EXCEPT ![t] = "error"])
    BY <1>4 DEF Replay, Goto
  <2>2. (\A q \in Procs \ {t} : pc'[q] = pc[q] /\ part'[q] = part[q])
        /\ \A s : Changing(t, s)' => Changing(t, s)
    BY <2>1, <1>t DEF Typed, Changing
  <2> QED
    BY <2>1, <2>2, <1>t, ExclMove
<1>5. CASE ReadDiary(t)
  <2>1. asked' = asked /\ part' = part /\ pc' = [pc EXCEPT ![t] = "truncate"] /\ Enter(t, "diary")
    BY <1>5 DEF ReadDiary, Goto
  <2>2. (\A q \in Procs \ {t} : pc'[q] = pc[q] /\ part'[q] = part[q])
        /\ \A s : Changing(t, s)' => s = "diary"
    BY <2>1, <1>t DEF Typed, Changing
  <2> QED
    BY <2>1, <2>2, <1>t, Entering, ExclMove
<1>6. CASE TruncateDiary(t)
  <2>1. asked' = asked /\ hurt' = hurt /\ part' = part /\ pc[t] = "truncate" /\ pc' = [pc EXCEPT ![t] = "fill"]
    BY <1>6 DEF TruncateDiary, Goto, locals
  <2>2. (\A q \in Procs \ {t} : pc'[q] = pc[q] /\ part'[q] = part[q])
        /\ \A s : Changing(t, s)' => Changing(t, s)
    BY <2>1, <1>t DEF Typed, Changing
  <2> QED
    BY <2>1, <2>2, <1>t, ExclMove
<1>7. CASE BuildSpawner(t)
  <2>1. asked' = asked /\ part' = part /\ pc' = [pc EXCEPT ![t] = "spawn"] /\ Enter(t, "queue")
    BY <1>7 DEF BuildSpawner, Goto
  <2>2. (\A q \in Procs \ {t} : pc'[q] = pc[q] /\ part'[q] = part[q])
        /\ \A s : Changing(t, s)' => s = "queue"
    BY <2>1, <1>t DEF Typed, Changing
  <2> QED
    BY <2>1, <2>2, <1>t, Entering, ExclMove
<1> QED
  BY <1>1, <1>3, <1>4, <1>5, <1>6, <1>7

\* A turn that marks a step, or fails, is at rest.
LEMMA Rests ==
  ASSUME Framed, NEW t \in Turns,
         Summarise(t) \/ DecideDiary(t) \/ DiaryFails(t) \/ FillDiary(t) \/ Spawn(t)
           \/ DispatchFails(t)
  PROVE  /\ asked' = asked /\ part' = part /\ hurt \subseteq hurt' /\ part[t] = "none"
         /\ pc' = [pc EXCEPT ![t] = pc'[t]]
         /\ pc'[t] \in Steps \cup {"done", "error", "append", "distill"}
<1>t. t \in Procs /\ Typed /\ Placed
  BY DEF Procs, Framed
<1>1. part[t] = "none"
  <2>1. pc[t] \in {"summary", "diary", "append", "truncate", "fill", "dispatch", "spawn"}
    BY DEF Summarise, DecideDiary, DiaryFails, FillDiary, Spawn, DispatchFails
  <2> QED
    BY <2>1, <1>t DEF Appending, Placed
<1>2. asked' = asked /\ part' = part /\ hurt \subseteq hurt'
  BY DEF Summarise, DecideDiary, DiaryFails, FillDiary, Spawn, DispatchFails, locals
<1>3. \/ \E step \in Steps, result \in Results : Mark(t, step, result)
      \/ pc' = [pc EXCEPT ![t] = "error"]
      \/ pc' = [pc EXCEPT ![t] = "append"]
      \/ pc' = [pc EXCEPT ![t] = "distill"]
  BY DEF Summarise, DecideDiary, DiaryFails, FillDiary, Spawn, DispatchFails, Goto, Steps, Results
<1>4. CASE \E step \in Steps, result \in Results : Mark(t, step, result)
  BY <1>1, <1>2, <1>4, Marking
<1>5. CASE \E step \in {"error", "append", "distill"} : pc' = [pc EXCEPT ![t] = step]
  BY <1>1, <1>2, <1>5, <1>t DEF Typed
<1> QED
  BY <1>3, <1>4, <1>5

\* A turn that marks a step or dispatches leaves the stores apart.
LEMMA ExclMarking ==
  ASSUME Framed, Excl, NEW t \in Turns,
         Summarise(t) \/ DecideDiary(t) \/ DiaryFails(t) \/ FillDiary(t) \/ Spawn(t)
           \/ DispatchFails(t)
  PROVE  Excl'
<1>t. t \in Procs /\ DOMAIN pc = Procs
  BY DEF Procs, Framed, Typed
<1>1. /\ asked' = asked /\ part' = part /\ hurt \subseteq hurt' /\ part[t] = "none"
      /\ pc' = [pc EXCEPT ![t] = pc'[t]]
      /\ pc'[t] \in Steps \cup {"done", "error", "append", "distill"}
  BY Rests
<1>2. \A s \in Stores : ~Changing(t, s)'
  <2>1. pc'[t] \in Ends \cup Steps \cup {"idle", "prepare", "append", "distill"} /\ part'[t] = "none"
    BY <1>1 DEF Ends
  <2> QED
    BY <2>1, Resting
<1>3. \A q \in Procs \ {t} : pc'[q] = pc[q] /\ part'[q] = part[q]
  BY <1>1, <1>t
<1> QED
  BY <1>1, <1>2, <1>3, <1>t, ExclMove

\* A write, a crash and the start of a distillation leave the stores apart.
LEMMA ExclWrite ==
  ASSUME Framed, Excl, NEW p \in Procs, Write(p) \/ Crash(p) \/ StartDistill(p)
  PROVE  Excl'
<1>t. Typed /\ Placed /\ (part[p] # "none" => Appending(p))
  BY DEF Framed, Placed
<1>e. ASSUME Appending(p), asked' = asked, hurt' = hurt,
             NEW result \in {"applied", "failed"}, Ended(p, result)
      PROVE  Excl'
  <2>1. /\ pc' = [pc EXCEPT ![p] = pc'[p]] /\ part' = [part EXCEPT ![p] = "none"]
        /\ pc'[p] \in Steps \cup {"done", "error", "distill"}
    BY <1>e, Ending
  <2>2. part'[p] = "none" /\ \A q \in Procs \ {p} : pc'[q] = pc[q] /\ part'[q] = part[q]
    BY <2>1, <1>t DEF Typed
  <2>3. \A s \in Stores : ~Changing(p, s)'
    <3>1. pc'[p] \in Ends \cup Steps \cup {"idle", "prepare", "append", "distill"}
      BY <2>1 DEF Ends
    <3> QED
      BY <2>2, <3>1, Resting
  <2> QED
    BY <1>e, <2>2, <2>3, ExclMove
<1>1. CASE ReadHot(p)
  <2>1. asked' = asked /\ Appending(p)
    BY <1>1 DEF ReadHot
  <2>2. CASE Ended(p, "failed") /\ hurt' = hurt
    BY <2>1, <2>2, <1>e
  <2>3. CASE pc' = pc /\ part' = [part EXCEPT ![p] = "open"] /\ Enter(p, FileOf(p))
    <3>1. \A q \in Procs \ {p} : pc'[q] = pc[q] /\ part'[q] = part[q]
      BY <2>3, <1>t DEF Typed
    <3>2. \A s : Changing(p, s)' => s = FileOf(p)
      <4>1. pc[p] \in {"identity", "experience", "distill"}
        BY <2>1 DEF Appending
      <4> QED
        BY <2>3, <4>1 DEF Changing, FileOf
    <3> QED
      BY <2>1, <2>3, <3>1, <3>2, Entering, ExclMove
  <2> QED
    BY <1>1, <2>2, <2>3 DEF ReadHot
<1>2. CASE OpenTmp(p) \/ FillTmp(p)
  <2>1. asked' = asked /\ hurt' = hurt /\ pc' = pc /\ part[p] # "none"
        /\ (part' = [part EXCEPT ![p] = "fill"] \/ part' = [part EXCEPT ![p] = "rename"])
    BY <1>2 DEF OpenTmp, FillTmp
  <2>2. (\A q \in Procs \ {p} : pc'[q] = pc[q] /\ part'[q] = part[q])
        /\ \A s : Changing(p, s)' => Changing(p, s)
    BY <2>1, <1>t DEF Typed, Changing
  <2> QED
    BY <2>1, <2>2, ExclMove
<1>4. CASE RenameTmp(p)
  <2>1. asked' = asked /\ hurt' = hurt /\ Appending(p) /\ \E result \in {"applied", "failed"} : Ended(p, result)
    BY <1>4, <1>t DEF RenameTmp
  <2> QED
    BY <2>1, <1>e
<1>5. CASE HotFails(p)
  <2>1. asked' = asked /\ hurt' = hurt /\ Appending(p) /\ Ended(p, "failed")
    BY <1>5, <1>t DEF HotFails
  <2> QED
    BY <2>1, <1>e
<1>6. CASE ReadDay(p) \/ Crash(p) \/ StartDistill(p)
  <2>1. asked' = asked /\ hurt \subseteq hurt'
    BY <1>6 DEF ReadDay, Crash, StartDistill
  <2>2. pc' = [pc EXCEPT ![p] = pc'[p]] /\ pc'[p] \in Steps \cup {"done", "dead", "distill"}
        /\ part'[p] = "none" /\ \A q \in Procs \ {p} : pc'[q] = pc[q] /\ part'[q] = part[q]
    <3>1. CASE ReadDay(p)
      <4>1. part' = part /\ part[p] = "none"
        BY <3>1, <1>t DEF ReadDay, Appending
      <4>2. pc' = [pc EXCEPT ![p] = pc'[p]] /\ pc'[p] \in Steps \cup {"done", "distill"}
        BY <3>1, <1>t, Departing DEF ReadDay, Goto, Typed
      <4> QED
        BY <4>1, <4>2, <1>t DEF Typed
    <3>2. CASE Crash(p)
      BY <3>2, <1>t DEF Crash, Goto, Typed
    <3>3. CASE StartDistill(p)
      <4>1. part' = part /\ part[p] = "none" /\ pc' = [pc EXCEPT ![p] = "distill"]
        BY <3>3, <1>t DEF StartDistill, Appending, Goto, locals
      <4> QED
        BY <4>1, <1>t DEF Typed
    <3> QED
      BY <1>6, <3>1, <3>2, <3>3
  <2>3. \A s \in Stores : ~Changing(p, s)'
    <3>1. pc'[p] \in Ends \cup Steps \cup {"idle", "prepare", "append", "distill"}
      BY <2>2 DEF Ends
    <3> QED
      BY <2>2, <3>1, Resting
  <2> QED
    BY <2>1, <2>2, <2>3, ExclMove
<1> QED
  BY <1>1, <1>2, <1>4, <1>5, <1>6 DEF Write

\* At first nothing is being changed.
LEMMA ExclInit == Init => Excl
  BY DEF Init, Excl, Changing

\* Whatever a process does, a store that is not hurt has one process changing
\* it.
LEMMA ExclStep == Framed /\ Framed' /\ Excl /\ [Next]_vars => Excl'
<1> SUFFICES ASSUME Framed, Framed', Excl, [Next]_vars PROVE Excl'
  OBVIOUS
<1>1. CASE \E t \in Turns : Turn(t)
  BY <1>1, ExclGo, ExclMarking DEF Turn
<1>2. CASE \E p \in Procs : Write(p) \/ Crash(p) \/ StartDistill(p)
  BY <1>2, ExclWrite
<1>3. CASE UNCHANGED vars
  BY <1>3 DEF vars, Excl, Changing
<1> QED
  BY <1>1, <1>2, <1>3 DEF Next, Procs

--------------------------------------------------------------------------------
(* Who does what: a step that is marked, or begun, tells which action it was *)

Marker(t, step) ==
  \/ step = "archive" /\ Summarise(t) /\ Mark(t, "archive", "applied")
  \/ step = "diary" /\ FillDiary(t)
  \/ step = "dispatch" /\ Spawn(t)
  \/ step \in {"identity", "experience"} /\ pc[t] = step /\ RenameTmp(t) /\ Ended(t, "applied")

\* A step that is newly reported as applied was just finished.
LEMMA Marks ==
  ASSUME Framed, [Next]_vars, NEW t \in Turns, NEW step \in Steps,
         Applied(t, step)', ~Applied(t, step)
  PROVE  Marker(t, step)
<1>t. Typed /\ Placed /\ t \in Procs
  BY DEF Framed, Procs
<1>m. ASSUME NEW u \in Turns, NEW s \in Steps, NEW result \in Results, Mark(u, s, result)
      PROVE  u = t /\ s = step /\ result = "applied"
  <2>1. status' = [status EXCEPT ![u] = [status[u] EXCEPT ![s] = result]]
    BY <1>m, Marking
  <2> QED
    BY <2>1, <1>t DEF Applied, Typed
<1>r. "applied" \in Results /\ "failed" \in Results /\ "skipped" \in Results
      /\ "archive" \in Steps /\ "diary" \in Steps /\ "dispatch" \in Steps
      /\ "failed" # "applied" /\ "skipped" # "applied"
  BY DEF Results, Steps
<1>u. status' # status
  BY DEF Applied
<1>1. CASE \E u \in Turns : Turn(u)
  <2>1. PICK u \in Turns : Turn(u)
    BY <1>1
  <2>2. CASE Remember(u) \/ Archive(u) \/ Replay(u) \/ ReadDiary(u) \/ TruncateDiary(u) \/ BuildSpawner(u)
    BY <2>2, <1>u DEF Remember, Archive, Replay, ReadDiary, TruncateDiary, BuildSpawner
  <2>3. CASE Prepare(u)
    <3>1. PICK refused \in SUBSET Steps :
            LET st == [s \in Steps |-> IF s \in refused THEN "failed" ELSE status[u][s]]
            IN status' = [status EXCEPT ![u] = st]
      BY <2>3, <1>u DEF Prepare, Steps
    <3> DEFINE st == [s \in Steps |-> IF s \in refused THEN "failed" ELSE status[u][s]]
    <3>2. status'[t][step] \in {"failed", status[t][step]}
      <4>1. CASE u = t
        BY <3>1, <4>1, <1>t DEF Typed
      <4>2. CASE u # t
        BY <3>1, <4>2, <1>t DEF Typed
      <4> QED
        BY <4>1, <4>2
    <3> QED
      BY <3>2 DEF Applied
  <2>4. CASE Summarise(u)
    <3>1. Mark(u, "archive", "applied")
      BY <2>4, <1>u DEF Summarise
    <3> QED
      BY <2>4, <3>1, <1>m, <1>r DEF Marker
  <2>5. CASE DecideDiary(u)
    <3>1. Mark(u, "diary", "skipped")
      BY <2>5, <1>u DEF DecideDiary
    <3> QED
      BY <3>1, <1>m, <1>r
  <2>6. CASE DiaryFails(u)
    <3>1. Mark(u, "diary", "failed")
      BY <2>6 DEF DiaryFails
    <3> QED
      BY <3>1, <1>m, <1>r
  <2>7. CASE FillDiary(u)
    <3>1. CASE Mark(u, "diary", "applied")
      BY <2>7, <3>1, <1>m, <1>r DEF Marker
    <3>2. CASE status' = [status EXCEPT ![u].diary = "applied"]
      <4>1. u = t /\ step = "diary"
        BY <3>2, <1>t DEF Applied, Typed
      <4> QED
        BY <2>7, <4>1 DEF Marker
    <3> QED
      BY <2>7, <3>1, <3>2 DEF FillDiary
  <2>8. CASE Spawn(u)
    <3>1. Mark(u, "dispatch", "applied")
      BY <2>8 DEF Spawn
    <3> QED
      BY <2>8, <3>1, <1>m, <1>r DEF Marker
  <2>9. CASE DispatchFails(u)
    <3>1. Mark(u, "dispatch", "failed")
      BY <2>9, <1>u DEF DispatchFails
    <3> QED
      BY <3>1, <1>m, <1>r
  <2> QED
    BY <2>1, <2>2, <2>3, <2>4, <2>5, <2>6, <2>7, <2>8, <2>9 DEF Turn
<1>2. CASE \E p \in Procs : Write(p) \/ Crash(p) \/ StartDistill(p)
  <2>1. PICK p \in Procs : Write(p) \/ Crash(p) \/ StartDistill(p)
    BY <1>2
  <2>e. ASSUME Appending(p), NEW result \in {"applied", "failed"}, Ended(p, result)
        PROVE  p = t /\ step = pc[t] /\ step \in {"identity", "experience"} /\ result = "applied"
    <3>1. pc[p] # "distill"
      BY <2>e, Ending, <1>u
    <3>2. p \in Turns /\ pc[p] \in {"identity", "experience"} /\ pc[p] \in Steps /\ Mark(p, pc[p], result) /\ result \in Results
      BY <2>e, <3>1, Ending DEF Ended, Steps, Results
    <3> QED
      BY <3>2, <1>m
  <2>2. CASE OpenTmp(p) \/ FillTmp(p) \/ ReadDay(p) \/ Crash(p) \/ StartDistill(p)
    BY <2>2, <1>u DEF OpenTmp, FillTmp, ReadDay, Crash, StartDistill
  <2>3. CASE ReadHot(p)
    <3>1. Ended(p, "failed") /\ Appending(p)
      BY <2>3, <1>u DEF ReadHot
    <3> QED
      BY <3>1, <2>e, <1>r
  <2>4. CASE HotFails(p)
    <3>1. Ended(p, "failed") /\ Appending(p)
      BY <2>4, <1>t DEF HotFails, Placed
    <3> QED
      BY <3>1, <2>e, <1>r
  <2>5. CASE RenameTmp(p)
    <3>1. Appending(p) /\ (Ended(p, "applied") \/ Ended(p, "failed"))
      BY <2>5, <1>t DEF RenameTmp, Placed
    <3>2. ~Ended(p, "failed")
      BY <3>1, <2>e, <1>r
    <3>3. Ended(p, "applied") /\ p = t /\ step = pc[t] /\ step \in {"identity", "experience"}
      BY <3>1, <3>2, <2>e
    <3> QED
      BY <2>5, <3>3 DEF Marker
  <2> QED
    BY <2>1, <2>2, <2>3, <2>4, <2>5 DEF Write
<1>3. CASE UNCHANGED vars
  BY <1>3, <1>u DEF vars
<1> QED
  BY <1>1, <1>2, <1>3 DEF Next, Procs

\* Some steps have one way in.
LEMMA Goes ==
  ASSUME Framed, [Next]_vars, NEW p \in Procs, pc'[p] # pc[p]
  PROVE  /\ pc'[p] = "replay" => p \in Turns /\ Archive(p)
         /\ pc'[p] = "summary" => p \in Turns /\ Replay(p)
         /\ pc'[p] = "truncate" => p \in Turns /\ ReadDiary(p)
         /\ pc'[p] = "fill" => p \in Turns /\ TruncateDiary(p)
         /\ pc'[p] = "spawn" => p \in Turns /\ BuildSpawner(p)
<1>t. Typed /\ Placed
  BY DEF Framed
<1> DEFINE Else == pc'[p] \in Ends \cup Steps \cup {"prepare", "append", "distill"}
<1>g. ASSUME NEW q \in Procs, NEW step \in Ends \cup Steps \cup {"prepare", "append", "distill"},
             pc' = [pc EXCEPT ![q] = step]
      PROVE  Else
  BY <1>g, <1>t DEF Typed
<1>h. ASSUME NEW q \in Procs, NEW step, pc' = [pc EXCEPT ![q] = step]
      PROVE  q = p /\ pc'[p] = step
  BY <1>h, <1>t DEF Typed
<1>1. CASE \E u \in Turns : Turn(u)
  <2>1. PICK u \in Turns : Turn(u)
    BY <1>1
  <2>u. u \in Procs
    BY DEF Procs
  <2>2. CASE Remember(u)
    <3>1. \E step \in {"prepare", "error"} : pc' = [pc EXCEPT ![u] = step]
      BY <2>2 DEF Remember, Goto
    <3>2. Else
      BY <3>1, <2>u, <1>g DEF Ends
    <3> QED
      BY <3>2 DEF Ends, Steps
  <2>3. CASE Prepare(u)
    <3>1. CASE pc' = [pc EXCEPT ![u] = "error"]
      BY <3>1, <2>u, <1>h
    <3>2. CASE pc' # [pc EXCEPT ![u] = "error"]
      <4>1. PICK refused \in SUBSET Steps :
            LET st == [s \in Steps |-> IF s \in refused THEN "failed" ELSE status[u][s]]
            IN pc' = [pc EXCEPT ![u] = Upcoming(st)]
        BY <2>3, <3>2 DEF Prepare, Goto, Steps
      <4> DEFINE st == [s \in Steps |-> IF s \in refused THEN "failed" ELSE status[u][s]]
      <4>2. st \in [Steps -> Results]
        BY <1>t DEF Typed, Results
      <4>3. Upcoming(st) \in Steps \cup {"done"} /\ pc' = [pc EXCEPT ![u] = Upcoming(st)]
        BY <4>1, <4>2, Following
      <4> HIDE DEF st
      <4>4. pc'[p] \in Steps \cup {"done"}
        BY <4>3, <2>u, <1>h
      <4> QED
        BY <4>4 DEF Steps
    <3> QED
      BY <3>1, <3>2
  <2>4. CASE Archive(u)
    <3>1. \E step \in {"replay", "error"} : pc' = [pc EXCEPT ![u] = step]
      BY <2>4 DEF Archive, Goto
    <3>2. u = p /\ pc'[p] \in {"replay", "error"}
      BY <3>1, <2>u, <1>h
    <3> QED
      BY <2>4, <3>2
  <2>5. CASE Replay(u)
    <3>1. \E step \in {"summary", "error"} : pc' = [pc EXCEPT ![u] = step]
      BY <2>5 DEF Replay, Goto
    <3>2. u = p /\ pc'[p] \in {"summary", "error"}
      BY <3>1, <2>u, <1>h
    <3> QED
      BY <2>5, <3>2
  <2>6. CASE ReadDiary(u)
    <3>1. u = p /\ pc'[p] = "truncate"
      BY <2>6, <2>u, <1>h DEF ReadDiary, Goto
    <3> QED
      BY <2>6, <3>1
  <2>7. CASE TruncateDiary(u)
    <3>1. u = p /\ pc'[p] = "fill"
      BY <2>7, <2>u, <1>h DEF TruncateDiary, Goto
    <3> QED
      BY <2>7, <3>1
  <2>8. CASE BuildSpawner(u)
    <3>1. u = p /\ pc'[p] = "spawn"
      BY <2>8, <2>u, <1>h DEF BuildSpawner, Goto
    <3> QED
      BY <2>8, <3>1
  <2>9. CASE Summarise(u) \/ DecideDiary(u) \/ DiaryFails(u) \/ FillDiary(u) \/ Spawn(u) \/ DispatchFails(u)
    <3>1. pc' = [pc EXCEPT ![u] = pc'[u]] /\ pc'[u] \in Steps \cup {"done", "error", "append", "distill"}
      BY <2>9, Rests
    <3>2. pc'[p] \in Steps \cup {"done", "error", "append", "distill"}
      BY <3>1, <2>u, <1>h
    <3> QED
      BY <3>2 DEF Steps
  <2> QED
    BY <2>1, <2>2, <2>3, <2>4, <2>5, <2>6, <2>7, <2>8, <2>9 DEF Turn
<1>2. CASE \E q \in Procs : Write(q) \/ Crash(q) \/ StartDistill(q)
  <2>1. PICK q \in Procs : Write(q) \/ Crash(q) \/ StartDistill(q)
    BY <1>2
  <2>2. pc' = [pc EXCEPT ![q] = pc'[q]] /\ pc'[q] \in Steps \cup {"done", "error", "dead", "distill"}
    <3>e. ASSUME Appending(q), NEW result \in {"applied", "failed"}, Ended(q, result)
          PROVE  pc' = [pc EXCEPT ![q] = pc'[q]] /\ pc'[q] \in Steps \cup {"done", "error", "distill"}
      BY <3>e, Ending
    <3>1. part[q] # "none" => Appending(q)
      BY <1>t DEF Placed
    <3>2. pc' # pc
      OBVIOUS
    <3>3. CASE ReadHot(q) \/ RenameTmp(q) \/ HotFails(q)
      <4>1. Appending(q) /\ \E result \in {"applied", "failed"} : Ended(q, result)
        BY <3>1, <3>2, <3>3 DEF ReadHot, RenameTmp, HotFails
      <4> QED
        BY <4>1, <3>e
    <3>4. CASE OpenTmp(q) \/ FillTmp(q)
      BY <3>2, <3>4 DEF OpenTmp, FillTmp
    <3>5. CASE ReadDay(q)
      <4>1. pc' = [pc EXCEPT ![q] = Distilled(q)]
        BY <3>2, <3>5 DEF ReadDay, Goto
      <4> QED
        BY <4>1, <1>t, Departing DEF Typed
    <3>6. CASE Crash(q) \/ StartDistill(q)
      <4>1. \E step \in {"dead", "distill"} : pc' = [pc EXCEPT ![q] = step]
        BY <3>6 DEF Crash, StartDistill, Goto
      <4> QED
        BY <4>1, <1>t DEF Typed
    <3> QED
      BY <2>1, <3>3, <3>4, <3>5, <3>6 DEF Write
  <2>3. pc'[p] \in Steps \cup {"done", "error", "dead", "distill"}
    BY <2>2, <1>h
  <2> QED
    BY <2>3 DEF Steps
<1>3. CASE UNCHANGED vars
  BY <1>3 DEF vars
<1> QED
  BY <1>1, <1>2, <1>3 DEF Next, Procs

\* What each variable is changed by.
LEMMA Owners ==
  ASSUME [Next]_vars
  PROVE  /\ asked' = asked /\ hurt \subseteq hurt'
         /\ \/ UNCHANGED <<seq, counted, archive, rolling>>
            \/ \E t \in Turns : Archive(t) \/ Replay(t) \/ Summarise(t)
         /\ \/ UNCHANGED <<seen, dispatches>>
            \/ \E t \in Turns : BuildSpawner(t) \/ Spawn(t)
         /\ UNCHANGED diary \/ \E t \in Turns : TruncateDiary(t) \/ FillDiary(t)
         /\ UNCHANGED <<hot, tmp>> \/ \E p \in Procs : OpenTmp(p) \/ FillTmp(p) \/ RenameTmp(p)
<1>1. CASE \E t \in Turns : Turn(t)
  <2>1. PICK t \in Turns : Turn(t)
    BY <1>1
  <2>2. asked' = asked /\ hurt \subseteq hurt'
    BY <2>1 DEF Turn, Remember, Prepare, Archive, Replay, Summarise, DecideDiary, DiaryFails, ReadDiary,
                TruncateDiary, FillDiary, BuildSpawner, Spawn, DispatchFails, Enter
  <2>3. UNCHANGED <<hot, tmp>> /\ (UNCHANGED diary \/ TruncateDiary(t) \/ FillDiary(t))
    BY <2>1 DEF Turn, Remember, Prepare, Archive, Replay, Summarise, DecideDiary, DiaryFails, ReadDiary,
                TruncateDiary, FillDiary, BuildSpawner, Spawn, DispatchFails, texts
  <2>4. UNCHANGED <<seen, dispatches>> \/ BuildSpawner(t) \/ Spawn(t)
    BY <2>1 DEF Turn, Remember, Prepare, Archive, Replay, Summarise, DecideDiary, DiaryFails, ReadDiary,
                TruncateDiary, FillDiary, DispatchFails, texts, locals
  <2>5. UNCHANGED <<seq, counted, archive, rolling>> \/ Archive(t) \/ Replay(t) \/ Summarise(t)
    BY <2>1 DEF Turn, Remember, Prepare, DecideDiary, DiaryFails, ReadDiary,
                TruncateDiary, FillDiary, BuildSpawner, Spawn, DispatchFails, tables, locals
  <2> QED
    BY <2>2, <2>3, <2>4, <2>5
<1>2. CASE \E p \in Procs : Write(p) \/ Crash(p) \/ StartDistill(p)
  <2>1. PICK p \in Procs : Write(p) \/ Crash(p) \/ StartDistill(p)
    BY <1>2
  <2>2. asked' = asked /\ hurt \subseteq hurt' /\ UNCHANGED <<seq, counted, seen>>
    BY <2>1 DEF Write, ReadHot, OpenTmp, FillTmp, RenameTmp, HotFails, ReadDay, Crash, StartDistill, Enter, locals
  <2>3. UNCHANGED <<archive, rolling, dispatches, diary>>
    BY <2>1 DEF Write, ReadHot, OpenTmp, FillTmp, RenameTmp, HotFails, ReadDay, Crash, StartDistill, tables, texts
  <2>4. UNCHANGED <<hot, tmp>> \/ OpenTmp(p) \/ FillTmp(p) \/ RenameTmp(p)
    BY <2>1 DEF Write, ReadHot, HotFails, ReadDay, Crash, StartDistill, texts
  <2> QED
    BY <2>2, <2>3, <2>4
<1>3. CASE UNCHANGED vars
  BY <1>3 DEF vars
<1> QED
  BY <1>1, <1>2, <1>3 DEF Next, Procs

--------------------------------------------------------------------------------
(* The archive and its summary *)

Told(s) == Len(archive[s])

Archived ==
  /\ \A t \in Turns : seq[t] <= Told(asked[t].session) /\ counted[t] <= Told(asked[t].session)
  /\ \A s \in Sessions : rolling[s] <= Told(s)
  /\ \A t \in Turns : pc[t] = "summary" /\ asked[t].session \notin hurt
                      => counted[t] = Told(asked[t].session)
  /\ \A t \in Turns : Applied(t, "archive") /\ asked[t].session \notin hurt
                      => rolling[asked[t].session] >= seq[t]

\* At first nothing is archived.
LEMMA ArchivedInit == Init => Archived
<1> SUFFICES ASSUME Init PROVE Archived
  OBVIOUS
<1>1. \A t \in Turns : asked[t].session \in Sessions
  BY TurnRecordsAssumption DEF Init
<1>2. \A s \in Sessions : Told(s) = 0
  BY DEF Init, Told
<1>3. \A t \in Turns : ~Applied(t, "archive") /\ pc[t] = "idle"
  BY DEF Init, Applied, Steps, Procs
<1> QED
  BY <1>1, <1>2, <1>3 DEF Init, Archived

\* Whatever a process does, numbers stay within the archive and the summary of a
\* session covers the turns that archived.
LEMMA ArchivedStep == Framed /\ Framed' /\ Excl /\ Archived /\ [Next]_vars => Archived'
<1> SUFFICES ASSUME Framed, Framed', Excl, Archived, [Next]_vars PROVE Archived'
  OBVIOUS
<1>t. /\ Typed /\ Typed' /\ Placed /\ asked' = asked /\ hurt \subseteq hurt'
      /\ \A t \in Turns : t \in Procs /\ asked[t].session \in Sessions
      /\ \A s \in Sessions : Told(s) \in Nat /\ s \in Stores
      /\ "archive" \in Steps
  <2>1. Typed /\ Typed' /\ Placed
    BY DEF Framed
  <2>2. asked' = asked /\ hurt \subseteq hurt'
    BY Owners
  <2>3. \A t \in Turns : t \in Procs /\ asked[t].session \in Sessions
    BY <2>1, TurnRecordsAssumption DEF Typed, Procs
  <2>4. \A s \in Sessions : Told(s) \in Nat
    <3>1. archive \in [Sessions -> Seq(Turns)]
      BY <2>1 DEF Typed
    <3>2. \A s \in Sessions : archive[s] \in Seq(Turns)
      BY <3>1
    <3> QED
      BY <3>2 DEF Told
  <2>5. \A s \in Sessions : s \in Stores
    BY DEF Stores
  <2>6. "archive" \in Steps
    BY DEF Steps
  <2> QED
    BY <2>1, <2>2, <2>3, <2>4, <2>5, <2>6
<1>q. ASSUME UNCHANGED <<seq, counted, archive, rolling>>, \A t \in Turns : ~Replay(t) /\ ~Summarise(t)
      PROVE  Archived'
  <2>1. \A t \in Turns : pc'[t] = "summary" => pc[t] = "summary"
    BY <1>q, <1>t, Goes
  <2>2. \A t \in Turns : Applied(t, "archive")' => Applied(t, "archive")
    <3>1. ASSUME NEW t \in Turns, Applied(t, "archive")', ~Applied(t, "archive") PROVE FALSE
      <4>1. Marker(t, "archive")
        BY <1>t, <3>1, Marks
      <4> QED
        BY <1>q, <4>1 DEF Marker
    <3> QED
      BY <3>1
  <2> QED
    BY <1>q, <1>t, <2>1, <2>2 DEF Archived, Told
<1>1. ASSUME NEW t \in Turns, Archive(t) PROVE Archived'
  <2>1. CASE UNCHANGED <<seq, archive>>
    <3>1. UNCHANGED <<seq, counted, archive, rolling, status>> /\ pc' = [pc EXCEPT ![t] = pc'[t]] /\ pc'[t] \in {"error", "replay"}
      BY <1>1, <2>1, <1>t DEF Archive, Goto, Typed
    <3>2. \A u \in Turns : pc'[u] = "summary" => pc[u] = "summary"
      BY <3>1, <1>t DEF Typed
    <3> QED
      BY <3>1, <3>2, <1>t DEF Archived, Told, Applied
  <2>2. CASE ~UNCHANGED <<seq, archive>>
    <3> DEFINE s == asked[t].session
    <3>1. /\ archive' = [archive EXCEPT ![s] = Append(archive[s], t)]
          /\ seq' = [seq EXCEPT ![t] = Told(s) + 1] /\ Enter(t, s)
          /\ pc' = [pc EXCEPT ![t] = "replay"] /\ UNCHANGED <<counted, rolling, status>>
      BY <1>1, <2>2 DEF Archive, Goto, Told
    <3>2. s \in Sessions /\ s \in Stores
      BY <1>t
    <3> HIDE DEF s
    <3>3. Len(archive'[s]) = Told(s) + 1 /\ \A r \in Sessions \ {s} : Len(archive'[r]) = Told(r)
      <4>1. archive'[s] = Append(archive[s], t) /\ \A r \in Sessions \ {s} : archive'[r] = archive[r]
        BY <3>1, <3>2, <1>t DEF Typed
      <4>2. Len(Append(archive[s], t)) = Len(archive[s]) + 1
        BY <3>2, <1>t DEF Typed
      <4> QED
        BY <4>1, <4>2 DEF Told
    <3>4. s \notin hurt' => \A u \in Turns \ {t} : pc[u] = "summary" => asked[u].session # s
      BY <3>1, <3>2, <1>t, Entering DEF Changing
    <3>5. \A u \in Turns : pc'[u] = "summary" => u # t /\ pc[u] = "summary"
      BY <3>1, <1>t DEF Typed
    <3>6. status[t]["archive"] = "pending"
      BY <1>1, <1>t DEF Archive, Placed
    <3>7. seq'[t] = Told(s) + 1 /\ \A u \in Turns \ {t} : seq'[u] = seq[u]
      BY <3>1, <1>t DEF Typed
    <3>8. \A u \in Turns : seq'[u] <= Len(archive'[asked[u].session]) /\ counted'[u] <= Len(archive'[asked[u].session])
      <4>1. TAKE u \in Turns
      <4>2. seq[u] <= Told(asked[u].session) /\ counted[u] <= Told(asked[u].session)
            /\ seq[u] \in Nat /\ counted[u] \in Nat /\ Told(asked[u].session) \in Nat /\ asked[u].session \in Sessions
        BY <1>t DEF Archived, Typed
      <4>3. counted' = counted /\ asked' = asked
        BY <3>1, <1>t
      <4>4. CASE u = t
        BY <4>2, <4>3, <4>4, <3>3, <3>7 DEF s
      <4>5. CASE u # t
        BY <4>2, <4>3, <4>5, <3>3, <3>7
      <4> QED
        BY <4>4, <4>5
    <3>9. \A r \in Sessions : rolling'[r] <= Len(archive'[r])
      <4>1. TAKE r \in Sessions
      <4>2. rolling[r] <= Told(r) /\ rolling[r] \in Nat /\ Told(r) \in Nat /\ rolling' = rolling
        BY <3>1, <1>t DEF Archived, Typed
      <4> QED
        BY <4>2, <3>3
    <3>10. \A u \in Turns : pc'[u] = "summary" /\ asked'[u].session \notin hurt' => counted'[u] = Len(archive'[asked[u].session])
      <4>1. TAKE u \in Turns
      <4>2. HAVE pc'[u] = "summary" /\ asked'[u].session \notin hurt'
      <4>3. asked[u].session # s /\ pc[u] = "summary" /\ asked[u].session \in Sessions /\ asked[u].session \notin hurt
        BY <3>4, <3>5, <4>2, <1>t
      <4>4. counted[u] = Told(asked[u].session) /\ counted' = counted /\ asked' = asked
        BY <4>3, <3>1, <1>t DEF Archived
      <4> QED
        BY <4>3, <4>4, <3>3
    <3>11. \A u \in Turns : Applied(u, "archive")' /\ asked'[u].session \notin hurt' => rolling'[asked[u].session] >= seq'[u]
      <4>1. TAKE u \in Turns
      <4>2. HAVE Applied(u, "archive")' /\ asked'[u].session \notin hurt'
      <4>3. u # t /\ Applied(u, "archive") /\ asked[u].session \notin hurt
        BY <3>1, <3>6, <4>2, <1>t DEF Applied
      <4> QED
        BY <4>3, <3>1, <3>7 DEF Archived
    <3> QED
      BY <3>8, <3>9, <3>10, <3>11, <1>t DEF Archived, Told
  <2> QED
    BY <2>1, <2>2
<1>2. ASSUME NEW t \in Turns, Replay(t) PROVE Archived'
  <2>1. UNCHANGED <<seq, archive, rolling, status, hurt>>
    BY <1>2 DEF Replay, tables
  <2>2. CASE counted' = counted /\ pc' = [pc EXCEPT ![t] = "error"]
    <3>1. \A u \in Turns : pc'[u] = "summary" => pc[u] = "summary"
      BY <2>2, <1>t DEF Typed
    <3> QED
      BY <2>1, <2>2, <3>1, <1>t DEF Archived, Told, Applied
  <2>3. CASE counted' = [counted EXCEPT ![t] = Told(asked[t].session)] /\ pc' = [pc EXCEPT ![t] = "summary"]
    <3>1. \A u \in Turns : pc'[u] = "summary" => u = t \/ pc[u] = "summary"
      BY <2>3, <1>t DEF Typed
    <3>2. counted'[t] = Told(asked[t].session) /\ \A u \in Turns \ {t} : counted'[u] = counted[u]
      BY <2>3, <1>t DEF Typed
    <3>3. \A s \in Sessions : Len(archive'[s]) = Told(s) /\ Told(s) <= Told(s)
      BY <2>1, <1>t DEF Told
    <3> QED
      BY <2>1, <3>1, <3>2, <3>3, <1>t DEF Archived, Applied, Told
  <2> QED
    BY <1>2, <2>2, <2>3 DEF Replay, Goto, Replayed, Told
<1>3. ASSUME NEW t \in Turns, Summarise(t) PROVE Archived'
  <2>1. UNCHANGED <<seq, counted, archive, hurt>> /\ pc[t] = "summary"
    BY <1>3 DEF Summarise, locals
  <2>2. CASE UNCHANGED <<rolling, status>> /\ pc' = [pc EXCEPT ![t] = "error"]
    <3>1. \A u \in Turns : pc'[u] = "summary" => pc[u] = "summary"
      BY <2>2, <1>t DEF Typed
    <3> QED
      BY <2>1, <2>2, <3>1, <1>t DEF Archived, Told, Applied
  <2>3. CASE rolling' = [rolling EXCEPT ![asked[t].session] = counted[t]] /\ Mark(t, "archive", "applied")
    <3> DEFINE s == asked[t].session
    <3>1. "applied" \in Results
      BY DEF Results
    <3>2. /\ status' = [status EXCEPT ![t] = [status[t] EXCEPT !["archive"] = "applied"]]
          /\ pc' = [pc EXCEPT ![t] = pc'[t]]
          /\ pc'[t] = "done" \/ pc'[t] \in Steps
      BY <2>3, <3>1, <1>t, Marking
    <3>3. \A u \in Turns : pc'[u] = "summary" => pc[u] = "summary"
      BY <3>2, <1>t DEF Typed, Steps
    <3>4. \A u \in Turns \ {t} : Applied(u, "archive")' => Applied(u, "archive")
      BY <3>2, <1>t DEF Typed, Applied
    <3>5. s \in Sessions /\ counted[t] <= Told(s) /\ counted[t] \in Nat
      BY <1>t DEF Archived, Typed
    <3>6. s \notin hurt => counted[t] = Told(s)
      BY <2>1 DEF Archived
    <3> HIDE DEF s
    <3>7. rolling'[s] = counted[t] /\ \A r \in Sessions \ {s} : rolling'[r] = rolling[r]
      BY <2>3, <3>5, <1>t DEF Typed, s
    <3>8. \A r \in Sessions : Len(archive'[r]) = Told(r)
      BY <2>1 DEF Told
    <3>9. \A r \in Sessions : rolling'[r] <= Len(archive'[r])
      BY <3>5, <3>7, <3>8 DEF Archived
    <3>10. \A u \in Turns : pc'[u] = "summary" /\ asked'[u].session \notin hurt' => counted'[u] = Len(archive'[asked[u].session])
      BY <3>3, <2>1, <1>t, <3>8 DEF Archived, Told
    <3>11. \A u \in Turns : Applied(u, "archive")' /\ asked'[u].session \notin hurt' => rolling'[asked[u].session] >= seq'[u]
      <4>1. TAKE u \in Turns
      <4>2. HAVE Applied(u, "archive")' /\ asked'[u].session \notin hurt'
      <4>3. seq[u] <= Told(asked[u].session) /\ seq[u] \in Nat /\ asked[u].session \in Sessions
            /\ seq' = seq /\ hurt' = hurt /\ asked' = asked
        BY <2>1, <1>t DEF Archived, Typed
      <4>4. CASE asked[u].session = s
        BY <4>2, <4>3, <4>4, <3>6, <3>7, <1>t
      <4>5. CASE asked[u].session # s
        <5>1. u # t
          BY <4>5 DEF s
        <5>2. rolling[asked[u].session] >= seq[u]
          BY <5>1, <4>2, <4>3, <3>4 DEF Archived
        <5> QED
          BY <5>2, <4>3, <4>5, <3>7
      <4> QED
        BY <4>4, <4>5
    <3>12. \A u \in Turns : seq'[u] <= Len(archive'[asked[u].session]) /\ counted'[u] <= Len(archive'[asked[u].session])
      BY <2>1, <1>t, <3>8 DEF Archived
    <3> QED
      BY <3>9, <3>10, <3>11, <3>12, <1>t DEF Archived, Told
  <2> QED
    BY <1>3, <2>2, <2>3 DEF Summarise, Goto
<1>4. CASE \E t \in Turns : Archive(t) \/ Replay(t) \/ Summarise(t)
  BY <1>1, <1>2, <1>3, <1>4
<1>5. CASE \A t \in Turns : ~Archive(t) /\ ~Replay(t) /\ ~Summarise(t)
  BY <1>5, <1>q, Owners
<1> QED
  BY <1>4, <1>5

\* For any number of turns, sessions and failures: the rolling summary covers
\* every turn whose archiving was reported, unless turns of the session
\* overlapped, and never claims a turn that is not archived.
THEOREM TheSummaryCovers == Spec => []SummaryCovers
<1>1. Init => Framed /\ Excl /\ Archived
  BY FramedInit, ExclInit, ArchivedInit
<1>2. Framed /\ Excl /\ Archived /\ [Next]_vars => Framed' /\ Excl' /\ Archived'
  BY FramedStep, ExclStep, ArchivedStep
<1>3. Archived => SummaryCovers
  BY DEF Archived, SummaryCovers, Told
<1> QED
  BY <1>1, <1>2, <1>3, PTL DEF Spec

--------------------------------------------------------------------------------
(* The queue *)

Queued ==
  /\ "queue" \notin hurt => \A t \in Turns : pc[t] = "spawn" => seen[t] = Len(dispatches)
  /\ DispatchStands

\* At first the queue is empty.
LEMMA QueuedInit == Init => Queued
<1> SUFFICES ASSUME Init PROVE Queued
  OBVIOUS
<1>1. \A t \in Turns : ~Applied(t, "dispatch") /\ pc[t] = "idle"
  BY DEF Init, Applied, Steps, Procs
<1> QED
  BY <1>1 DEF Queued, DispatchStands

\* Whatever a process does, a turn that is about to dispatch has seen the whole
\* queue.
LEMMA QueuedStep == Framed /\ Excl /\ Queued /\ [Next]_vars => Queued'
<1> SUFFICES ASSUME Framed, Excl, Queued, [Next]_vars PROVE Queued'
  OBVIOUS
<1>t. Typed /\ Placed /\ hurt \subseteq hurt' /\ "queue" \in Stores /\ "dispatch" \in Steps
      /\ \A t \in Turns : t \in Procs
  BY Owners DEF Framed, Procs, Stores, Steps
<1>1. ASSUME NEW t \in Turns, BuildSpawner(t) PROVE Queued'
  <2>1. /\ seen' = [seen EXCEPT ![t] = Len(dispatches)] /\ Enter(t, "queue")
        /\ pc' = [pc EXCEPT ![t] = "spawn"] /\ UNCHANGED <<dispatches, status>>
    BY <1>1 DEF BuildSpawner, Goto, texts
  <2>2. "queue" \notin hurt' => \A u \in Turns \ {t} : pc[u] # "spawn"
    BY <2>1, <1>t, Entering DEF Changing
  <2>3. "queue" \notin hurt' => \A u \in Turns : pc'[u] = "spawn" => seen'[u] = Len(dispatches')
    BY <2>1, <2>2, <1>t DEF Typed
  <2>4. DispatchStands'
    BY <2>1, <1>t DEF Queued, DispatchStands, Applied
  <2> QED
    BY <2>3, <2>4 DEF Queued
<1>2. ASSUME NEW t \in Turns, Spawn(t) PROVE Queued'
  <2> SUFFICES ASSUME "queue" \notin hurt' PROVE Queued'
    BY DEF Queued, DispatchStands
  <2>1. /\ pc[t] = "spawn" /\ seen' = seen /\ Mark(t, "dispatch", "applied")
        /\ dispatches' = IF NextRun(seen[t]) \in DOMAIN dispatches
                         THEN [dispatches EXCEPT ![NextRun(seen[t])] = t] ELSE Append(dispatches, t)
    BY <1>2 DEF Spawn, locals
  <2>2. seen[t] = Len(dispatches) /\ dispatches \in Seq(Turns) /\ "queue" \notin hurt
    BY <2>1, <1>t DEF Queued, Typed
  <2>3. Len(dispatches) + 1 \notin DOMAIN dispatches
    BY <2>2
  <2>4. dispatches' = Append(dispatches, t)
    BY <2>1, <2>2, <2>3 DEF NextRun
  <2>5. \A u \in Turns \ {t} : pc[u] # "spawn"
    BY <2>1, <2>2, <1>t DEF Excl, Changing
  <2>6. "applied" \in Results
    BY DEF Results
  <2>7. pc' = [pc EXCEPT ![t] = pc'[t]] /\ (pc'[t] = "done" \/ pc'[t] \in Steps)
        /\ status' = [status EXCEPT ![t] = [status[t] EXCEPT !["dispatch"] = "applied"]]
    BY <2>1, <2>6, <1>t, Marking
  <2>8. \A u \in Turns : pc'[u] # "spawn"
    BY <2>5, <2>7, <1>t DEF Typed, Steps
  <2>9. ToSet(dispatches') = ToSet(dispatches) \cup {t}
    <3>1. Listlike(dispatches)
      BY <2>2 DEF Listlike, ToSet
    <3> QED
      BY <2>4, <3>1, AppendList
  <2>10. \A u \in Turns : Applied(u, "dispatch")' => u = t \/ Applied(u, "dispatch")
    BY <2>7, <1>t DEF Applied, Typed
  <2>11. \A u \in Turns : Applied(u, "dispatch")' => u \in ToSet(dispatches')
    BY <2>2, <2>9, <2>10 DEF Queued, DispatchStands
  <2> QED
    BY <2>8, <2>11 DEF Queued, DispatchStands
<1>3. ASSUME \A t \in Turns : ~BuildSpawner(t) /\ ~Spawn(t) PROVE Queued'
  <2>1. UNCHANGED <<seen, dispatches>>
    BY <1>3, Owners
  <2>2. \A t \in Turns : pc'[t] = "spawn" => pc[t] = "spawn"
    BY <1>3, <1>t, Goes
  <2>3. \A t \in Turns : Applied(t, "dispatch")' => Applied(t, "dispatch")
    <3>1. ASSUME NEW t \in Turns, Applied(t, "dispatch")', ~Applied(t, "dispatch") PROVE FALSE
      <4>1. Marker(t, "dispatch")
        BY <1>t, <3>1, Marks
      <4> QED
        BY <1>3, <4>1 DEF Marker
    <3> QED
      BY <3>1
  <2> QED
    BY <2>1, <2>2, <2>3, <1>t DEF Queued, DispatchStands
<1> QED
  BY <1>1, <1>2, <1>3

--------------------------------------------------------------------------------
(* The diary *)

Dated ==
  "diary" \notin hurt =>
    /\ Listlike(diary)
    /\ \A t \in Turns : pc[t] = "truncate" => base[t] = diary
    /\ \A t \in Turns : pc[t] = "fill" =>
         /\ diary = <<>> /\ Listlike(base[t])
         /\ \A u \in Turns : Applied(u, "diary") => u \in ToSet(base[t])
    /\ (\A u \in Turns : pc[u] # "fill") =>
         \A t \in Turns : Applied(t, "diary") => t \in ToSet(diary)

\* What a process has read stays with it until it is written.
LEMMA Holding ==
  ASSUME Framed, [Next]_vars, NEW t \in Turns, pc[t] \in {"truncate", "fill"},
         pc'[t] \in {"truncate", "fill"}
  PROVE  base'[t] = base[t]
<1>t. Typed /\ Placed /\ t \in Procs /\ part[t] = "none" /\ ~Appending(t)
  BY DEF Framed, Procs, Placed, Appending
<1>1. ASSUME NEW p \in Procs, p # t, base' = [base EXCEPT ![p] = base'[p]] PROVE base'[t] = base[t]
  BY <1>1, <1>t DEF Typed
<1>2. CASE \E u \in Turns : Turn(u)
  <2>1. PICK u \in Turns : Turn(u)
    BY <1>2
  <2>2. CASE base' = base
    BY <2>2
  <2>3. CASE base' # base
    <3>1. ReadDiary(u) \/ FillDiary(u) \/ DiaryFails(u)
      BY <2>1, <2>3 DEF Turn, Remember, Prepare, Archive, Replay, Summarise, DecideDiary,
                TruncateDiary, BuildSpawner, Spawn, DispatchFails, locals
    <3>2. base' = [base EXCEPT ![u] = base'[u]] /\ u \in Procs
      BY <3>1, <1>t DEF ReadDiary, FillDiary, DiaryFails, Typed, Procs
    <3>3. u # t
      <4>1. ASSUME u = t PROVE ~ReadDiary(u)
        BY <4>1 DEF ReadDiary
      <4>2. ASSUME FillDiary(u) \/ DiaryFails(u), u = t PROVE FALSE
        <5>1. pc'[u] \in Steps \cup {"done", "error", "append", "distill"}
          BY <4>2, Rests
        <5> QED
          BY <4>2, <5>1 DEF Steps
      <4> QED
        BY <3>1, <4>1, <4>2
    <3> QED
      BY <3>2, <3>3, <1>1
  <2> QED
    BY <2>2, <2>3
<1>3. CASE \E p \in Procs : Write(p) \/ Crash(p) \/ StartDistill(p)
  <2>1. PICK p \in Procs : Write(p) \/ Crash(p) \/ StartDistill(p)
    BY <1>3
  <2>2. base' = base \/ (base' = [base EXCEPT ![p] = base'[p]] /\ p # t)
    <3>1. CASE ReadHot(p) \/ RenameTmp(p) \/ HotFails(p)
      <4>1. Appending(p)
        BY <3>1, <1>t DEF ReadHot, RenameTmp, HotFails, Placed
      <4>2. p # t /\ base' = [base EXCEPT ![p] = base'[p]]
        BY <3>1, <4>1, <1>t DEF ReadHot, RenameTmp, HotFails, Ended, Typed
      <4> QED
        BY <4>2
    <3>2. CASE Crash(p)
      <4>1. pc' = [pc EXCEPT ![p] = "dead"] /\ base' = [base EXCEPT ![p] = <<>>]
        BY <3>2 DEF Crash, Goto
      <4> QED
        BY <4>1, <1>t DEF Typed
    <3>3. CASE OpenTmp(p) \/ FillTmp(p) \/ ReadDay(p) \/ StartDistill(p)
      BY <3>3 DEF OpenTmp, FillTmp, ReadDay, StartDistill, locals
    <3> QED
      BY <2>1, <3>1, <3>2, <3>3 DEF Write
  <2> QED
    BY <2>2, <1>1
<1>4. CASE UNCHANGED vars
  BY <1>4 DEF vars
<1> QED
  BY <1>2, <1>3, <1>4 DEF Next, Procs

\* A truncated diary is filled, or known to be damaged.
LEMMA Leaving ==
  ASSUME Framed, [Next]_vars, NEW t \in Turns, pc[t] = "fill", pc'[t] # "fill"
  PROVE  FillDiary(t) \/ "diary" \in hurt'
<1>t. Typed /\ Placed /\ t \in Procs /\ ~Appending(t)
  BY DEF Framed, Procs, Appending
<1>1. CASE \E u \in Turns : Turn(u)
  <2>1. PICK u \in Turns : Turn(u)
    BY <1>1
  <2>2. pc' = [pc EXCEPT ![u] = pc'[u]] /\ u \in Procs
    <3>1. CASE Summarise(u) \/ DecideDiary(u) \/ DiaryFails(u) \/ FillDiary(u) \/ Spawn(u) \/ DispatchFails(u)
      BY <3>1, Rests DEF Procs
    <3>2. CASE Remember(u) \/ Prepare(u) \/ Archive(u) \/ Replay(u) \/ ReadDiary(u) \/ TruncateDiary(u) \/ BuildSpawner(u)
      <4>1. \E step : pc' = [pc EXCEPT ![u] = step]
        BY <3>2 DEF Remember, Prepare, Archive, Replay, ReadDiary, TruncateDiary, BuildSpawner, Goto
      <4> QED
        BY <4>1, <1>t DEF Typed, Procs
    <3> QED
      BY <2>1, <3>1, <3>2 DEF Turn
  <2>3. u = t
    BY <2>2, <1>t DEF Typed
  <2>4. FillDiary(t) \/ DiaryFails(t)
    BY <2>1, <2>3 DEF Turn, Remember, Prepare, Archive, Replay, Summarise, DecideDiary, ReadDiary,
                TruncateDiary, BuildSpawner, Spawn, DispatchFails
  <2> QED
    BY <2>4 DEF DiaryFails
<1>2. CASE \E p \in Procs : Write(p) \/ Crash(p) \/ StartDistill(p)
  <2>1. PICK p \in Procs : Write(p) \/ Crash(p) \/ StartDistill(p)
    BY <1>2
  <2>2. CASE Crash(p)
    <3>1. pc' = [pc EXCEPT ![p] = "dead"] /\ (pc[p] = "fill" => "diary" \in hurt')
      BY <2>2 DEF Crash, Goto
    <3> QED
      BY <3>1, <1>t DEF Typed
  <2>3. CASE ~Crash(p)
    <3>1. pc[p] # "fill"
      BY <2>1, <2>3, <1>t DEF Write, ReadHot, OpenTmp, FillTmp, RenameTmp, HotFails, ReadDay, StartDistill,
                              Placed, Appending
    <3>2. pc' = pc \/ pc' = [pc EXCEPT ![p] = pc'[p]]
      <4>e. ASSUME Appending(p), NEW result \in {"applied", "failed"}, Ended(p, result)
            PROVE  pc' = [pc EXCEPT ![p] = pc'[p]]
        BY <4>e, Ending
      <4>1. CASE ReadHot(p) \/ RenameTmp(p) \/ HotFails(p)
        <5>1. Appending(p) /\ (pc' = pc \/ \E result \in {"applied", "failed"} : Ended(p, result))
          BY <4>1, <1>t DEF ReadHot, RenameTmp, HotFails, Placed
        <5> QED
          BY <5>1, <4>e
      <4>2. CASE OpenTmp(p) \/ FillTmp(p) \/ ReadDay(p) \/ StartDistill(p)
        BY <4>2, <1>t DEF OpenTmp, FillTmp, ReadDay, StartDistill, Goto, Typed
      <4> QED
        BY <2>1, <2>3, <4>1, <4>2 DEF Write
    <3> QED
      BY <3>1, <3>2, <1>t DEF Typed
  <2> QED
    BY <2>2, <2>3
<1>3. CASE UNCHANGED vars
  BY <1>3 DEF vars
<1> QED
  BY <1>1, <1>2, <1>3 DEF Next, Procs

\* At first the diary is empty.
LEMMA DatedInit == Init => Dated
<1> SUFFICES ASSUME Init PROVE Dated
  OBVIOUS
<1>1. \A t \in Turns : ~Applied(t, "diary") /\ pc[t] = "idle"
  BY DEF Init, Applied, Steps, Procs
<1> QED
  BY <1>1, EmptyList DEF Dated, Init

\* Whatever a process does, the diary holds an entry for each turn that applied
\* that step.
LEMMA DatedStep == Framed /\ Excl /\ Dated /\ [Next]_vars => Dated'
<1> SUFFICES ASSUME Framed, Excl, Dated, [Next]_vars, "diary" \notin hurt' PROVE Dated'
  BY DEF Dated
<1>t. /\ Typed /\ Placed /\ "diary" \notin hurt /\ "diary" \in Stores /\ "diary" \in Steps
      /\ \A t \in Turns : t \in Procs
  BY Owners DEF Framed, Procs, Stores, Steps
<1>x. ASSUME NEW t \in Turns, pc[t] \in {"truncate", "fill"}
      PROVE  \A u \in Turns \ {t} : pc[u] \notin {"truncate", "fill"}
  BY <1>t, <1>x DEF Excl, Changing
<1>1. ASSUME NEW t \in Turns, TruncateDiary(t) PROVE Dated'
  <2>1. /\ pc[t] = "truncate" /\ diary' = <<>> /\ UNCHANGED <<base, status>> /\ pc' = [pc EXCEPT ![t] = "fill"]
    BY <1>1 DEF TruncateDiary, Goto, locals
  <2>2. \A u \in Turns \ {t} : pc[u] \notin {"truncate", "fill"}
    BY <2>1, <1>x
  <2>3. base[t] = diary /\ Listlike(diary) /\ \A u \in Turns : Applied(u, "diary") => u \in ToSet(diary)
    BY <2>1, <2>2, <1>t DEF Dated
  <2>4. pc'[t] = "fill" /\ \A u \in Turns \ {t} : pc'[u] = pc[u]
    BY <2>1, <1>t DEF Typed
  <2> QED
    BY <2>1, <2>2, <2>3, <2>4, EmptyList DEF Dated, Applied, Listlike
<1>2. ASSUME NEW t \in Turns, FillDiary(t) PROVE Dated'
  <2>1. pc[t] = "fill" /\ diary' = Overlay(Append(base[t], t), diary)
    BY <1>2 DEF FillDiary
  <2>2. \A u \in Turns \ {t} : pc[u] \notin {"truncate", "fill"}
    BY <2>1, <1>x
  <2>3. diary = <<>> /\ Listlike(base[t]) /\ \A u \in Turns : Applied(u, "diary") => u \in ToSet(base[t])
    BY <2>1, <1>t DEF Dated
  <2>4. diary' = Append(base[t], t) /\ Listlike(diary') /\ ToSet(diary') = ToSet(base[t]) \cup {t}
    <3> DEFINE new == Append(base[t], t)
    <3>1. Listlike(new) /\ ToSet(new) = ToSet(base[t]) \cup {t}
      BY <2>3, AppendList
    <3> HIDE DEF new
    <3>2. diary' = new
      BY <2>1, <2>3, <3>1, FillEmpty DEF new
    <3> QED
      BY <3>1, <3>2 DEF new
  <2>5. pc' = [pc EXCEPT ![t] = pc'[t]] /\ pc'[t] \in Steps \cup {"done", "error", "append", "distill"}
    BY <1>2, Rests
  <2>6. \A u \in Turns : pc'[u] \notin {"truncate", "fill"}
    BY <2>2, <2>5, <1>t DEF Typed, Steps
  <2>7. \A u \in Turns : Applied(u, "diary")' => u = t \/ Applied(u, "diary")
    <3>1. ASSUME NEW u \in Turns, Applied(u, "diary")', ~Applied(u, "diary") PROVE u = t
      <4>1. FillDiary(u)
        <5>1. Marker(u, "diary")
          BY <1>t, <3>1, Marks
        <5> QED
          BY <5>1 DEF Marker
      <4> QED
        BY <4>1, <2>2 DEF FillDiary
    <3> QED
      BY <3>1
  <2>8. \A u \in Turns : Applied(u, "diary")' => u \in ToSet(diary')
    BY <2>3, <2>4, <2>7
  <2> QED
    BY <2>4, <2>6, <2>8 DEF Dated, Listlike
<1>3. ASSUME \A t \in Turns : ~TruncateDiary(t) /\ ~FillDiary(t) PROVE Dated'
  <2>1. diary' = diary
    BY <1>3, Owners
  <2>2. \A t \in Turns : Applied(t, "diary")' => Applied(t, "diary")
    <3>1. ASSUME NEW t \in Turns, Applied(t, "diary")', ~Applied(t, "diary") PROVE FALSE
      <4>1. Marker(t, "diary")
        BY <1>t, <3>1, Marks
      <4> QED
        BY <1>3, <4>1 DEF Marker
    <3> QED
      BY <3>1
  <2>3. \A t \in Turns : pc'[t] = "fill" <=> pc[t] = "fill"
    BY <1>3, <1>t, Goes, Leaving
  <2>4. \A t \in Turns : pc'[t] = "fill" => base'[t] = base[t]
    BY <2>3, Holding
  <2>5. \A t \in Turns : pc'[t] = "truncate" => base'[t] = diary
    <3>1. TAKE t \in Turns
    <3>2. HAVE pc'[t] = "truncate"
    <3>3. CASE pc[t] = "truncate"
      <4>1. base[t] = diary
        BY <3>3, <1>t DEF Dated
      <4> QED
        BY <3>2, <3>3, <4>1, Holding
    <3>4. CASE pc[t] # "truncate"
      <4>1. ReadDiary(t)
        BY <3>2, <3>4, <1>t, Goes
      <4> QED
        BY <4>1, <1>t DEF ReadDiary, DiaryRead, Typed
    <3> QED
      BY <3>3, <3>4
  <2> QED
    BY <2>1, <2>2, <2>3, <2>4, <2>5, <1>t DEF Dated, Listlike
<1> QED
  BY <1>1, <1>2, <1>3

--------------------------------------------------------------------------------
(* The hot memory files *)

Writing(p, f) == part[p] # "none" /\ FileOf(p) = f
StepOf(f) == IF f = "memory" THEN "identity" ELSE "experience"
Own(t) == [id |-> t, of |-> t]

Written(f) ==
  /\ Listlike(hot[f])
  /\ \A p \in Procs : Writing(p, f) =>
       /\ base[p] = hot[f]
       /\ part[p] = "fill" => fd[p] = "tmp" /\ tmp[f] = <<>>
       /\ part[p] = "rename" =>
            \E e : tmp[f] = Append(hot[f], e) /\ (pc[p] # "distill" => e = Own(p))
  /\ \A t \in Turns : Applied(t, StepOf(f)) => Own(t) \in ToSet(hot[f])

Filed == \A f \in Files \ hurt : Written(f)

\* At first the files of lessons are empty and nobody writes them.
LEMMA FiledInit == Init => Filed
<1> SUFFICES ASSUME Init PROVE Filed
  OBVIOUS
<1>1. \A t \in Turns, s \in Steps : ~Applied(t, s)
  BY DEF Init, Applied
<1>2. \A p \in Procs : part[p] = "none"
  BY DEF Init
<1>3. \A f \in Files : hot[f] = <<>> /\ StepOf(f) \in Steps
  BY DEF Init, StepOf, Steps
<1> QED
  BY <1>1, <1>2, <1>3, EmptyList DEF Filed, Written, Writing, Listlike

\* A process that goes on writing, and takes no step, is left alone, but for its
\* open file when another process moves it.
LEMMA Untouched ==
  ASSUME Framed, [Next]_vars, NEW p \in Procs, part'[p] # "none", ~OpenTmp(p), ~FillTmp(p)
  PROVE  /\ pc'[p] = pc[p]
         /\ \/ ReadHot(p) /\ part'[p] = "open" /\ base'[p] = hot[FileOf(p)] /\ Enter(p, FileOf(p))
            \/ /\ part'[p] = part[p] /\ base'[p] = base[p]
               /\ \/ fd'[p] = fd[p]
                  \/ \E q \in Procs \ {p} : RenameTmp(q) /\ Writing(p, FileOf(q)) /\ Writing(q, FileOf(q))
<1>t. Typed /\ Placed
  BY DEF Framed
<1> DEFINE Alone == pc'[p] = pc[p] /\ part'[p] = part[p] /\ base'[p] = base[p]
<1>o. ASSUME NEW q \in Procs, q # p, pc' = pc \/ pc' = [pc EXCEPT ![q] = pc'[q]],
             part' = part \/ part' = [part EXCEPT ![q] = part'[q]],
             base' = base \/ base' = [base EXCEPT ![q] = base'[q]]
      PROVE  Alone
  BY <1>o, <1>t DEF Typed
<1>1. CASE \E u \in Turns : Turn(u)
  <2>1. PICK u \in Turns : Turn(u)
    BY <1>1
  <2>2. part' = part /\ fd' = fd /\ u \in Procs
    BY <2>1 DEF Turn, Remember, Prepare, Archive, Replay, Summarise, DecideDiary, DiaryFails, ReadDiary,
                TruncateDiary, FillDiary, BuildSpawner, Spawn, DispatchFails, locals, Procs
  <2>3. part[u] = "none"
    <3>1. pc[u] \notin {"identity", "experience", "distill"}
      BY <2>1 DEF Turn, Remember, Prepare, Archive, Replay, Summarise, DecideDiary, DiaryFails, ReadDiary,
                TruncateDiary, FillDiary, BuildSpawner, Spawn, DispatchFails
    <3> QED
      BY <3>1, <2>2, <1>t DEF Placed, Appending
  <2>4. pc' = [pc EXCEPT ![u] = pc'[u]]
    <3>1. CASE Summarise(u) \/ DecideDiary(u) \/ DiaryFails(u) \/ FillDiary(u) \/ Spawn(u) \/ DispatchFails(u)
      BY <3>1, Rests
    <3>2. CASE Remember(u) \/ Prepare(u) \/ Archive(u) \/ Replay(u) \/ ReadDiary(u) \/ TruncateDiary(u) \/ BuildSpawner(u)
      <4>1. \E step : pc' = [pc EXCEPT ![u] = step]
        BY <3>2 DEF Remember, Prepare, Archive, Replay, ReadDiary, TruncateDiary, BuildSpawner, Goto
      <4> QED
        BY <4>1, <1>t, <2>2 DEF Typed
    <3> QED
      BY <2>1, <3>1, <3>2 DEF Turn
  <2>5. base' = base \/ base' = [base EXCEPT ![u] = base'[u]]
    <3>1. base' = base \/ \E b : base' = [base EXCEPT ![u] = b]
      BY <2>1 DEF Turn, Remember, Prepare, Archive, Replay, Summarise, DecideDiary, DiaryFails, ReadDiary,
                TruncateDiary, FillDiary, BuildSpawner, Spawn, DispatchFails, locals
    <3> QED
      BY <3>1, <2>2, <1>t DEF Typed
  <2>6. u # p
    BY <2>2, <2>3
  <2> QED
    BY <2>2, <2>4, <2>5, <2>6, <1>o
<1>2. CASE \E q \in Procs : Write(q) \/ Crash(q) \/ StartDistill(q)
  <2>1. PICK q \in Procs : Write(q) \/ Crash(q) \/ StartDistill(q)
    BY <1>2
  <2>e. ASSUME Appending(q), NEW result \in {"applied", "failed"}, Ended(q, result)
        PROVE  q # p /\ Alone
    <3>1. /\ pc' = [pc EXCEPT ![q] = pc'[q]] /\ part' = [part EXCEPT ![q] = "none"]
          /\ base' = [base EXCEPT ![q] = <<>>]
      BY <2>e, Ending
    <3>2. q # p
      BY <3>1, <1>t DEF Typed
    <3> QED
      BY <3>1, <3>2, <1>t DEF Typed
  <2>2. CASE ReadHot(q)
    <3>1. Appending(q) /\ fd' = fd
      BY <2>2 DEF ReadHot
    <3>2. CASE Ended(q, "failed")
      BY <3>1, <3>2, <2>e
    <3>3. CASE ~Ended(q, "failed")
      <4>1. /\ pc' = pc /\ part' = [part EXCEPT ![q] = "open"] /\ base' = [base EXCEPT ![q] = hot[FileOf(q)]]
            /\ Enter(q, FileOf(q))
        BY <2>2, <3>3 DEF ReadHot
      <4>2. CASE q = p
        BY <2>2, <4>1, <4>2, <1>t DEF Typed
      <4>3. CASE q # p
        BY <3>1, <4>1, <4>3, <1>t DEF Typed
      <4> QED
        BY <4>2, <4>3
    <3> QED
      BY <3>2, <3>3
  <2>3. CASE OpenTmp(q) \/ FillTmp(q)
    <3>1. q # p
      BY <2>3
    <3>2. /\ pc' = pc /\ base' = base /\ \E x : part' = [part EXCEPT ![q] = x]
          /\ \E x : fd' = [fd EXCEPT ![q] = x]
      BY <2>3 DEF OpenTmp, FillTmp
    <3> QED
      BY <3>1, <3>2, <1>t DEF Typed
  <2>4. CASE RenameTmp(q)
    <3>1. Appending(q) /\ part[q] # "none" /\ \E result \in {"applied", "failed"} : Ended(q, result)
      BY <2>4, <1>t DEF RenameTmp, Placed
    <3>2. q # p /\ Alone
      BY <3>1, <2>e
    <3>3. fd' = fd \/ fd' = Moved(FileOf(q))
      BY <2>4 DEF RenameTmp
    <3>4. fd'[p] = fd[p] \/ Writing(p, FileOf(q))
      BY <3>3, <1>t DEF Moved, Writing, Typed
    <3> QED
      BY <2>4, <3>1, <3>2, <3>4 DEF Writing
  <2>5. CASE HotFails(q)
    <3>1. Appending(q) /\ Ended(q, "failed") /\ fd' = [fd EXCEPT ![q] = "none"]
      BY <2>5, <1>t DEF HotFails, Placed
    <3>2. q # p /\ Alone
      BY <3>1, <2>e
    <3> QED
      BY <3>1, <3>2, <1>t DEF Typed
  <2>6. CASE ReadDay(q) \/ StartDistill(q)
    <3>1. part' = part /\ base' = base /\ fd' = fd /\ (pc' = pc \/ \E x : pc' = [pc EXCEPT ![q] = x]) /\ ~Appending(q)
      BY <2>6 DEF ReadDay, StartDistill, Goto, locals, Appending
    <3>2. q # p
      BY <3>1, <1>t DEF Placed
    <3> QED
      BY <3>1, <3>2, <1>t DEF Typed
  <2>7. CASE Crash(q)
    <3>1. /\ pc' = [pc EXCEPT ![q] = "dead"] /\ part' = [part EXCEPT ![q] = "none"]
          /\ base' = [base EXCEPT ![q] = <<>>] /\ fd' = [fd EXCEPT ![q] = "none"]
      BY <2>7 DEF Crash, Goto
    <3>2. q # p
      BY <3>1, <1>t DEF Typed
    <3> QED
      BY <3>1, <3>2, <1>t DEF Typed
  <2> QED
    BY <2>1, <2>2, <2>3, <2>4, <2>5, <2>6, <2>7 DEF Write
<1>3. CASE UNCHANGED vars
  BY <1>3 DEF vars
<1> QED
  BY <1>1, <1>2, <1>3 DEF Next, Procs

\* Without a rename nothing is newly applied to a hot file.
LEMMA NotApplied ==
  ASSUME Framed, [Next]_vars, NEW f \in Files, NEW t \in Turns, Applied(t, StepOf(f))'
  PROVE  \/ Applied(t, StepOf(f))
         \/ RenameTmp(t) /\ Ended(t, "applied") /\ pc[t] = StepOf(f) /\ FileOf(t) = f
<1>1. StepOf(f) \in {"identity", "experience"} /\ StepOf(f) \in Steps /\ f \in {"memory", "experiences"}
  BY DEF StepOf, Steps, Files
<1>2. StepOf(f) # "archive" /\ StepOf(f) # "diary" /\ StepOf(f) # "dispatch"
  BY <1>1
<1>3. pc[t] = StepOf(f) => FileOf(t) = f
  BY <1>1 DEF FileOf, StepOf
<1>4. ASSUME ~Applied(t, StepOf(f)) PROVE Marker(t, StepOf(f))
  <2>1. Applied(t, StepOf(f))' <=> status'[t][StepOf(f)] = "applied"
    BY DEF Applied, StepOf
  <2>2. PICK s \in Steps : s = StepOf(f)
    BY <1>1
  <2>3. Applied(t, s)' /\ ~Applied(t, s)
    BY <1>4, <2>1, <2>2 DEF Applied
  <2>4. Marker(t, s)
    BY <2>3, Marks
  <2> QED
    BY <2>2, <2>4
<1> QED
  BY <1>2, <1>3, <1>4 DEF Marker

\* Only one process writes a file that is not hurt.
LEMMA Sole ==
  ASSUME Framed, Excl, NEW f \in Files \ hurt, NEW p \in Procs, NEW q \in Procs,
         Writing(p, f), Writing(q, f)
  PROVE  p = q
<1>1. f \in Stores \ hurt /\ f \in {"memory", "experiences"}
  BY DEF Stores, Files
<1>2. \A r \in Procs : Writing(r, f) => Changing(r, f)
  <2>1. \A r \in Procs : part[r] # "none" => pc[r] \in {"identity", "experience", "distill"}
    BY DEF Framed, Placed, Appending
  <2> QED
    BY <1>1, <2>1 DEF Writing, FileOf, Changing
<1> QED
  BY <1>1, <1>2 DEF Excl

\* Whatever a process does, a file of lessons holds an entry for each turn that
\* applied its step.
LEMMA FiledStep == Framed /\ Excl /\ Filed /\ [Next]_vars => Filed'
<1> SUFFICES ASSUME Framed, Excl, Filed, [Next]_vars, NEW f \in Files \ hurt' PROVE Written(f)'
  BY DEF Filed, Files
<1>t. /\ Typed /\ Placed /\ f \in Files \ hurt /\ f \in Files /\ Written(f)
      /\ \A t \in Turns : t \in Procs
  BY Owners DEF Framed, Procs, Filed
\* What remains to be shown of a process that goes on writing f.
<1> DEFINE Good(q) ==
      /\ base'[q] = hot'[f]
      /\ part'[q] = "fill" => fd'[q] = "tmp" /\ tmp'[f] = <<>>
      /\ part'[q] = "rename" =>
           \E e : tmp'[f] = Append(hot'[f], e) /\ (pc'[q] # "distill" => e = Own(q))
<1> DEFINE Stays == \A t \in Turns : Applied(t, StepOf(f))' => Own(t) \in ToSet(hot'[f])
<1>s. ASSUME Listlike(hot'[f]), \A q \in Procs : Writing(q, f)' => Good(q), Stays
      PROVE  Written(f)'
  BY <1>s DEF Written, Listlike, StepOf, Own
<1>a. ASSUME NEW q \in Procs, Writing(q, f)', ~OpenTmp(q), ~FillTmp(q), hot'[f] = hot[f], tmp'[f] = tmp[f]
      PROVE  Good(q)
  <2>1. part'[q] # "none" /\ (pc'[q] = pc[q] => FileOf(q) = f)
    BY <1>a DEF Writing, FileOf
  <2>2. pc'[q] = pc[q]
    BY <1>a, <2>1, Untouched
  <2>3. CASE ReadHot(q) /\ part'[q] = "open" /\ base'[q] = hot[FileOf(q)]
    BY <1>a, <2>1, <2>2, <2>3
  <2>4. CASE part'[q] = part[q] /\ base'[q] = base[q] /\ fd'[q] = fd[q]
    <3>1. Writing(q, f)
      BY <2>1, <2>2, <2>4 DEF Writing
    <3> QED
      BY <3>1, <1>a, <1>t, <2>2, <2>4 DEF Written
  <2>5. CASE part'[q] = part[q] /\ \E r \in Procs \ {q} : Writing(q, FileOf(r)) /\ Writing(r, FileOf(r))
    <3>1. PICK r \in Procs \ {q} : Writing(q, FileOf(r)) /\ Writing(r, FileOf(r))
      BY <2>5
    <3>2. FileOf(r) = f
      BY <3>1, <2>1, <2>2 DEF Writing
    <3> QED
      BY <3>1, <3>2, <1>t, Sole
  <2> QED
    BY <1>a, <2>1, <2>2, <2>3, <2>4, <2>5, Untouched
<1>b. ASSUME \A p \in Turns : ~RenameTmp(p), hot'[f] = hot[f] PROVE Stays
  BY <1>b, <1>t, NotApplied DEF Written
<1>1. ASSUME NEW p \in Procs, OpenTmp(p) PROVE Written(f)'
  <2>1. /\ part[p] = "open" /\ part' = [part EXCEPT ![p] = "fill"] /\ hot' = hot /\ pc' = pc /\ base' = base
        /\ tmp' = [tmp EXCEPT ![FileOf(p)] = <<>>] /\ fd' = [fd EXCEPT ![p] = "tmp"] /\ status' = status
    BY <1>1 DEF OpenTmp
  <2>2. Stays
    BY <2>1, <1>t DEF Written, Applied
  <2>3. ASSUME NEW q \in Procs, Writing(q, f)' PROVE Good(q)
    <3>1. CASE q = p
      <4>1. FileOf(p) = f /\ Writing(p, f)
        BY <2>1, <2>3, <3>1 DEF Writing, FileOf
      <4> QED
        BY <2>1, <3>1, <4>1, <1>t DEF Typed, Written
    <3>2. CASE q # p
      <4>1. Writing(q, f) /\ part'[q] = part[q] /\ fd'[q] = fd[q]
        BY <2>1, <2>3, <3>2, <1>t DEF Writing, FileOf, Typed
      <4>2. FileOf(p) # f
        BY <4>1, <2>1, <3>2, <1>t, Sole DEF Writing
      <4>3. tmp'[f] = tmp[f]
        BY <2>1, <4>2, <1>t DEF Typed
      <4> QED
        BY <2>1, <4>1, <4>3, <1>t DEF Written
    <3> QED
      BY <3>1, <3>2
  <2>4. Listlike(hot'[f])
    BY <2>1, <1>t DEF Written
  <2> QED
    BY <2>2, <2>3, <2>4, <1>s
<1>2. ASSUME NEW p \in Procs, FillTmp(p) PROVE Written(f)'
  <2>1. /\ part[p] = "fill" /\ part' = [part EXCEPT ![p] = "rename"] /\ pc' = pc /\ base' = base
        /\ fd' = [fd EXCEPT ![p] = "none"] /\ status' = status
        /\ tmp' = IF fd[p] = "tmp" THEN [tmp EXCEPT ![FileOf(p)] = Overlay(NewContent(p), tmp[FileOf(p)])] ELSE tmp
        /\ hot' = IF fd[p] = "live" THEN [hot EXCEPT ![FileOf(p)] = Overlay(NewContent(p), hot[FileOf(p)])] ELSE hot
    BY <1>2 DEF FillTmp
  <2>2. CASE FileOf(p) = f
    <3>1. Writing(p, f)
      BY <2>1, <2>2 DEF Writing
    <3>2. base[p] = hot[f] /\ fd[p] = "tmp" /\ tmp[f] = <<>> /\ Listlike(hot[f])
      BY <2>1, <3>1, <1>t DEF Written
    <3>3. Listlike(NewContent(p)) /\ NewContent(p) = Append(hot[f], EntryOf(p))
      BY <3>2, AppendList DEF NewContent
    <3>4. hot' = hot /\ tmp'[f] = Append(hot[f], EntryOf(p))
      <4>1. Overlay(NewContent(p), <<>>) = NewContent(p)
        BY <3>3, FillEmpty
      <4> QED
        BY <2>1, <2>2, <3>2, <3>3, <4>1, <1>t DEF Typed
    <3>5. pc[p] # "distill" => EntryOf(p) = Own(p)
      BY DEF EntryOf, Own
    <3>6. ASSUME NEW q \in Procs, Writing(q, f)' PROVE Good(q)
      <4>1. q = p
        <5>1. Writing(q, f)
          BY <2>1, <3>1, <3>6, <1>t DEF Writing, FileOf, Typed
        <5> QED
          BY <3>1, <5>1, <1>t, Sole
      <4>2. part'[q] = "rename" /\ base'[q] = hot'[f]
        BY <2>1, <3>2, <3>4, <4>1, <1>t DEF Typed
      <4> QED
        BY <2>1, <3>4, <3>5, <4>1, <4>2
    <3>7. Stays
      BY <2>1, <3>4, <1>t DEF Written, Applied
    <3> QED
      BY <3>2, <3>4, <3>6, <3>7, <1>s
  <2>3. CASE FileOf(p) # f
    <3>1. hot'[f] = hot[f] /\ tmp'[f] = tmp[f]
      BY <2>1, <2>3, <1>t DEF Typed
    <3>2. ASSUME NEW q \in Procs, Writing(q, f)' PROVE Good(q)
      <4>1. q # p /\ Writing(q, f) /\ part'[q] = part[q] /\ fd'[q] = fd[q]
        BY <2>1, <2>3, <3>2, <1>t DEF Writing, FileOf, Typed
      <4> QED
        BY <2>1, <3>1, <4>1, <1>t DEF Written
    <3>3. Stays
      BY <2>1, <3>1, <1>t DEF Written, Applied
    <3>4. Listlike(hot'[f])
      BY <3>1, <1>t DEF Written
    <3> QED
      BY <3>2, <3>3, <3>4, <1>s
  <2> QED
    BY <2>2, <2>3
<1>3. ASSUME NEW p \in Procs, RenameTmp(p) PROVE Written(f)'
  <2>1. part[p] = "rename" /\ Appending(p)
    BY <1>3, <1>t DEF RenameTmp, Placed
  <2>2. PICK result \in {"applied", "failed"} : Ended(p, result)
    BY <1>3 DEF RenameTmp
  <2>3. /\ pc' = [pc EXCEPT ![p] = pc'[p]] /\ part' = [part EXCEPT ![p] = "none"]
    BY <2>1, <2>2, Ending
  <2>4. part'[p] = "none"
    BY <2>3, <1>t DEF Typed
  <2>5. \A q \in Procs \ {p} : part[q] # "none" => part'[q] # "none"
    BY <2>3, <1>t DEF Typed
  <2>6. \A q \in Procs : ~OpenTmp(q) /\ ~FillTmp(q)
    <3>1. ASSUME NEW q \in Procs, OpenTmp(q) \/ FillTmp(q) PROVE FALSE
      <4>1. part'[q] # "none" /\ part[q] \in {"open", "fill"} /\ part' # part /\ part'[q] # part[q]
        BY <3>1, <1>t DEF OpenTmp, FillTmp, Typed
      <4>2. q # p
        BY <4>1, <2>1
      <4> QED
        BY <4>1, <4>2, <2>3, <1>t DEF Typed
    <3> QED
      BY <3>1
  <2>7. \A t \in Turns : RenameTmp(t) => t = p
    <3>1. ASSUME NEW t \in Turns, RenameTmp(t), t # p PROVE FALSE
      <4>1. part[t] = "rename" /\ part'[t] = "none"
        BY <3>1, <1>t DEF RenameTmp, Ended, Typed
      <4> QED
        BY <4>1, <3>1, <2>5, <1>t
    <3> QED
      BY <3>1
  <2>8. CASE hot'[f] = hot[f] /\ tmp'[f] = tmp[f] /\ (FileOf(p) # f \/ Ended(p, "failed"))
    <3>1. \A q \in Procs : Writing(q, f)' => Good(q)
      BY <2>6, <2>8, <1>a
    <3>2. ASSUME NEW t \in Turns, Applied(t, StepOf(f))', ~Applied(t, StepOf(f)) PROVE FALSE
      <4>1. t = p /\ Ended(p, "applied") /\ pc[p] = StepOf(f) /\ FileOf(p) = f
        BY <3>2, <2>7, <1>t, NotApplied
      <4>2. Ended(p, "failed") /\ pc[p] # "distill"
        BY <2>8, <4>1 DEF StepOf
      <4>3. status' = [status EXCEPT ![p] = [status[p] EXCEPT ![pc[p]] = "failed"]] /\ p \in Turns
            /\ pc[p] \in {"identity", "experience"}
        BY <2>1, <4>2, Ending
      <4>4. status'[p][pc[p]] = "failed"
        BY <4>3, <1>t DEF Typed, Steps
      <4>5. Applied(p, StepOf(f))' <=> status'[p][StepOf(f)] = "applied"
        BY DEF Applied, StepOf
      <4> QED
        BY <3>2, <4>1, <4>4, <4>5
    <3>3. Stays
      BY <3>2, <2>8, <1>t DEF Written
    <3>4. Listlike(hot'[f])
      BY <2>8, <1>t DEF Written
    <3> QED
      BY <3>1, <3>3, <3>4, <1>s
  <2>9. CASE FileOf(p) = f /\ hot'[f] = tmp[f]
    <3>1. Writing(p, f)
      BY <2>1, <2>9 DEF Writing
    <3>2. PICK e : tmp[f] = Append(hot[f], e) /\ (pc[p] # "distill" => e = Own(p))
      BY <2>1, <3>1, <1>t DEF Written
    <3>3. Listlike(hot'[f]) /\ ToSet(hot'[f]) = ToSet(hot[f]) \cup {e}
      <4>1. Listlike(hot[f])
        BY <1>t DEF Written
      <4> QED
        BY <2>9, <3>2, <4>1, AppendList
    <3>4. ASSUME NEW q \in Procs, Writing(q, f)' PROVE FALSE
      <4>1. part'[q] # "none" /\ q # p
        BY <3>4, <2>4 DEF Writing
      <4>2. Writing(q, f)
        BY <3>4, <4>1, <2>3, <1>t DEF Writing, FileOf, Typed
      <4> QED
        BY <3>1, <4>1, <4>2, <1>t, Sole
    <3>5. ASSUME NEW t \in Turns, Applied(t, StepOf(f))' PROVE Own(t) \in ToSet(hot'[f])
      <4>1. CASE Applied(t, StepOf(f))
        BY <4>1, <3>3, <1>t DEF Written
      <4>2. CASE ~Applied(t, StepOf(f))
        <5>1. t = p /\ pc[p] = StepOf(f)
          BY <3>5, <4>2, <2>7, <1>t, NotApplied
        <5>2. e = Own(t)
          BY <5>1, <3>2 DEF StepOf
        <5> QED
          BY <5>2, <3>3
      <4> QED
        BY <4>1, <4>2
    <3>6. \A q \in Procs : Writing(q, f)' => Good(q)
      BY <3>4
    <3>7. Stays
      BY <3>5
    <3> QED
      BY <3>3, <3>6, <3>7, <1>s
  <2>10. \/ hot' = hot /\ tmp' = tmp /\ Ended(p, "failed")
         \/ hot' = [hot EXCEPT ![FileOf(p)] = tmp[FileOf(p)]] /\ tmp' = [tmp EXCEPT ![FileOf(p)] = NoFile]
    BY <1>3 DEF RenameTmp
  <2> QED
    BY <2>8, <2>9, <2>10, <1>t DEF Typed
<1>4. ASSUME \A p \in Procs : ~OpenTmp(p) /\ ~FillTmp(p) /\ ~RenameTmp(p) PROVE Written(f)'
  <2>1. hot'[f] = hot[f] /\ tmp'[f] = tmp[f]
    BY <1>4, Owners
  <2>2. \A q \in Procs : Writing(q, f)' => Good(q)
    BY <1>4, <2>1, <1>a
  <2>3. Stays
    BY <1>4, <2>1, <1>b, <1>t
  <2>4. Listlike(hot'[f])
    BY <2>1, <1>t DEF Written
  <2> QED
    BY <2>2, <2>3, <2>4, <1>s
<1> QED
  BY <1>1, <1>2, <1>3, <1>4

\* For any number of processes and failures: what a turn reports as applied to the
\* memory files, the diary and the queue is there, unless two processes changed
\* that store at the same time.
THEOREM WhatIsAppliedStands == Spec => []AppliedStands
<1>1. Init => Framed /\ Excl /\ Queued /\ Dated /\ Filed
  BY FramedInit, ExclInit, QueuedInit, DatedInit, FiledInit
<1>2. Framed /\ Excl /\ Queued /\ Dated /\ Filed /\ [Next]_vars
        => Framed' /\ Excl' /\ Queued' /\ Dated' /\ Filed'
  BY FramedStep, ExclStep, QueuedStep, DatedStep, FiledStep
<1>3. Queued /\ Dated /\ Filed => AppliedStands
  <2>1. ASSUME Filed PROVE MemoryStands
    <3>1. \A t \in Turns, f \in Files \ hurt : Applied(t, StepOf(f)) => Own(t) \in ToSet(hot[f])
      BY <2>1 DEF Filed, Written
    <3> QED
      BY <3>1 DEF MemoryStands, StepOf, Own, Files
  <2> QED
    BY <2>1 DEF Queued, Dated, DiaryStands, AppliedStands
<1> QED
  BY <1>1, <1>2, <1>3, PTL DEF Spec

--------------------------------------------------------------------------------
(* Numbers, lists, and what is distilled *)

\* Every set of numbers has a smallest one: induction, as a least counterexample.
LEMMA SmallestNat ==
  ASSUME NEW T, T \subseteq Nat, T # {}
  PROVE  \E n \in T : \A m \in T : n <= m
<1>1. IsWellFoundedOn(OpToRel(<, Nat), Nat)
  BY NatLessThanWellFounded
<1>2. PICK x \in T : \A y \in T : ~ (<<y, x>> \in OpToRel(<, Nat))
  BY <1>1, WFMin
<1>3. \A y \in T : ~(y < x)
  BY <1>2 DEF OpToRel
<1> QED
  BY <1>3

\* A bounded set of numbers has a largest one.
LEMMA LargestNat ==
  ASSUME NEW n \in Nat, NEW T, T \subseteq 0..n, T # {}
  PROVE  Max(T) \in T /\ \A m \in T : m <= Max(T)
<1> DEFINE U == {n - m : m \in T}
<1>1. U \subseteq Nat /\ U # {}
  <2>1. \A m \in T : n - m \in Nat
    OBVIOUS
  <2>2. PICK m \in T : TRUE
    OBVIOUS
  <2>3. n - m \in U
    OBVIOUS
  <2> QED
    BY <2>1, <2>3
<1>2. PICK k \in U : \A j \in U : k <= j
  <2> HIDE DEF U
  <2> QED
    BY <1>1, SmallestNat
<1>3. PICK x \in T : k = n - x
  BY <1>2
<1>4. \A m \in T : x >= m
  <2> TAKE m \in T
  <2>1. n - m \in U
    OBVIOUS
  <2>2. n - x <= n - m
    BY <1>2, <1>3, <2>1
  <2> QED
    BY <2>2
<1>5. Max(T) \in T /\ \A m \in T : Max(T) >= m
  BY <1>4 DEF Max
<1> QED
  BY <1>5

\* A list of elements of S is one of any larger set.
LEMMA ListOf ==
  ASSUME NEW S, NEW T, S \subseteq T
  PROVE  Seq(S) \subseteq Seq(T)
<1> SUFFICES ASSUME NEW s \in Seq(S) PROVE s \in Seq(T)
  OBVIOUS
<1>1. Len(s) \in Nat /\ s = [i \in 1..Len(s) |-> s[i]] /\ \A i \in 1..Len(s) : s[i] \in T
  OBVIOUS
<1> QED
  BY <1>1

\* Filling a file that is not empty mixes two lists of S.
LEMMA OverlayOf ==
  ASSUME NEW S, NEW q \in Seq(S), NEW r \in Seq(S)
  PROVE  Overlay(q, r) \in Seq(S)
<1>1. SubSeq(r, Len(q) + 1, Len(r)) \in Seq(S)
  <2>1. CASE Len(q) + 1 > Len(r)
    BY <2>1
  <2>2. CASE Len(q) + 1 <= Len(r)
    BY <2>2
  <2> QED
    BY <2>1, <2>2
<1> QED
  BY <1>1 DEF Overlay

\* What is distilled is from the diary.
LEMMA UndistilledOf ==
  ASSUME NEW S, diary \in Seq(S)
  PROVE  Undistilled \in Seq(S)
<1> DEFINE n == Len(diary)
           ok(i) == asked[diary[i]].worth /\ seq[diary[i]] \notin Ids(hot["experiences"])
           Eq(h, m) == h = [i \in 0..m |-> IF i = 0 THEN <<>>
                                          ELSE IF ok(i) THEN Append(h[i - 1], diary[i]) ELSE h[i - 1]]
<1>1. n \in Nat /\ \A i \in 1..n : diary[i] \in S
  OBVIOUS
<1>2. \E h : Eq(h, n)
  <2> SUFFICES ASSUME ~ \E h : Eq(h, n) PROVE FALSE
    OBVIOUS
  <2> DEFINE T == {m \in 0..n : ~ \E h : Eq(h, m)}
  <2>1. T # {}
    <3> HIDE DEF Eq
    <3>1. n \in T
      BY <1>1
    <3> QED
      BY <3>1
  <2>2. PICK k \in T : \A m \in T : k <= m
    <3>1. T \subseteq Nat
      OBVIOUS
    <3> HIDE DEF T
    <3> QED
      BY <2>1, <3>1, SmallestNat
  <2>3. k \in 0..n /\ ~ \E h : Eq(h, k)
    BY <2>2
  <2> HIDE DEF ok
  <2>4. CASE k = 0
    <3> DEFINE h == [i \in 0..0 |-> <<>>]
    <3>1. Eq(h, 0)
      OBVIOUS
    <3> QED
      BY <2>3, <2>4, <3>1
  <2>5. CASE k > 0
    <3>0. k - 1 \in 0..n /\ ~(k <= k - 1)
      BY <1>1, <2>3, <2>5
    <3>1. PICK h : Eq(h, k - 1)
      <4> HIDE DEF Eq
      <4> QED
        BY <2>2, <3>0
    <3> DEFINE g == [i \in 0..k |-> IF i = k THEN IF ok(k) THEN Append(h[k - 1], diary[k]) ELSE h[k - 1]
                                            ELSE h[i]]
    <3>2. ASSUME NEW i \in 0..k
          PROVE  g[i] = IF i = 0 THEN <<>> ELSE IF ok(i) THEN Append(g[i - 1], diary[i]) ELSE g[i - 1]
      <4>1. CASE i = k
        <5>1. g[k] = IF ok(k) THEN Append(h[k - 1], diary[k]) ELSE h[k - 1]
          BY <2>3
        <5>2. g[k - 1] = h[k - 1]
          BY <2>3, <2>5
        <5> HIDE DEF g
        <5> QED
          BY <2>5, <4>1, <5>1, <5>2
      <4>2. CASE i # k
        <5>1. i \in 0..k - 1 /\ g[i] = h[i] /\ (i # 0 => g[i - 1] = h[i - 1])
          BY <2>3, <4>2
        <5> HIDE DEF g
        <5> QED
          BY <3>1, <5>1
      <4> QED
        BY <4>1, <4>2
    <3>3. g = [i \in 0..k |-> g[i]]
      OBVIOUS
    <3> HIDE DEF g
    <3>4. Eq(g, k)
      BY <3>2, <3>3
    <3> QED
      BY <2>3, <3>4
  <2> QED
    BY <2>3, <2>4, <2>5
<1>3. Accepted = CHOOSE h : Eq(h, n)
  BY DEF Accepted
<1>4. Eq(Accepted, n)
  <2> HIDE DEF Eq
  <2> QED
    BY <1>2, <1>3
<1>5. \A i \in 0..n : Accepted[i] \in Seq(S)
  <2> DEFINE T == {m \in 0..n : Accepted[m] \notin Seq(S)}
  <2>1. SUFFICES ASSUME T # {} PROVE FALSE
    OBVIOUS
  <2>2. PICK k \in T : \A m \in T : k <= m
    <3>1. T \subseteq Nat
      OBVIOUS
    <3> HIDE DEF T
    <3> QED
      BY <2>1, <3>1, SmallestNat
  <2> HIDE DEF ok
  <2>3. CASE k = 0
    BY <1>4, <2>2, <2>3
  <2>4. CASE k # 0
    <3>1. k \in 1..n /\ Accepted[k - 1] \in Seq(S) /\ diary[k] \in S
      <4>1. k \in 1..n /\ k - 1 \in 0..n /\ ~(k <= k - 1)
        BY <1>1, <2>2, <2>4
      <4>2. k - 1 \notin T
        BY <2>2, <4>1
      <4> QED
        BY <1>1, <4>1, <4>2
    <3>2. Accepted[k] = IF ok(k) THEN Append(Accepted[k - 1], diary[k]) ELSE Accepted[k - 1]
      <4>1. k \in 0..n /\ k # 0
        BY <3>1
      <4>2. \A i \in 0..n : Accepted[i] = IF i = 0 THEN <<>>
                                          ELSE IF ok(i) THEN Append(Accepted[i - 1], diary[i]) ELSE Accepted[i - 1]
        BY <1>4
      <4> QED
        BY <4>1, <4>2
    <3>3. Append(Accepted[k - 1], diary[k]) \in Seq(S)
      <4>1. PICK a \in Seq(S), e \in S : a = Accepted[k - 1] /\ e = diary[k]
        BY <3>1
      <4> QED
        BY <4>1
    <3>4. Accepted[k] \notin Seq(S)
      BY <2>2
    <3> QED
      BY <3>1, <3>2, <3>3, <3>4
  <2> QED
    BY <2>3, <2>4
<1> QED
  BY <1>1, <1>5 DEF Undistilled

--------------------------------------------------------------------------------
(* The course of a turn: the archive first *)

\* A turn that is past the archive.
Started(t) == pc[t] \notin {"idle", "prepare", "archive"}

\* A turn is numbered when it is past the archive, which comes first if it is to
\* be there at all, and decides about the diary after it.
CourseOf(t) ==
  /\ pc[t] \in {"idle", "prepare"} /\ "archive" \in asked[t].steps => status[t]["archive"] = "pending"
  /\ ~Started(t) => seq[t] = 0 /\ status[t]["diary"] \notin {"applied", "skipped"}
  /\ pc[t] \notin {"idle", "prepare", "archive", "replay", "summary"} \cup Ends
       => status[t]["archive"] # "pending"
  /\ Started(t) /\ pc[t] \notin {"error", "dead"} /\ "archive" \in asked[t].steps => seq[t] > 0

\* The archive of a session has its turns in the order of their numbers.
Numbered ==
  /\ \A t \in Turns : seq[t] > 0 => /\ seq[t] \in DOMAIN archive[asked[t].session]
                                    /\ archive[asked[t].session][seq[t]] = t
  /\ \A s \in Sessions : \A i \in DOMAIN archive[s] :
       asked[archive[s][i]].session = s /\ seq[archive[s][i]] = i

Course == Numbered /\ \A t \in Turns : CourseOf(t)

\* If the archive is not the upcoming step, it is done.
LEMMA UpcomingFirst ==
  ASSUME NEW st \in [Steps -> Results], Upcoming(st) # "archive"
  PROVE  st["archive"] # "pending"
<1> SUFFICES ASSUME st["archive"] = "pending" PROVE Upcoming(st) = "archive"
  OBVIOUS
<1> DEFINE open == {i \in DOMAIN Order : st[Order[i]] = "pending"}
<1>1. DOMAIN Order = 1 .. 5 /\ Order[1] = "archive"
  BY DEF Order
<1>2. 1 \in open /\ open \subseteq 1 .. 5
  BY <1>1
<1> HIDE DEF open
<1>3. Min(open) = 1
  <2>1. \A j \in open : 1 <= j
    BY <1>2
  <2>2. Min(open) \in open /\ \A j \in open : Min(open) <= j
    BY <1>2, <2>1 DEF Min
  <2>3. PICK m : m = Min(open)
    OBVIOUS
  <2>4. m \in 1 .. 5 /\ m <= 1
    BY <1>2, <2>2, <2>3
  <2> QED
    BY <2>3, <2>4
<1>4. Upcoming(st) = IF open = {} THEN "done" ELSE Order[Min(open)]
  BY DEF Upcoming, open
<1> QED
  BY <1>1, <1>2, <1>3, <1>4

\* The ways a turn goes on.
Moves(t) ==
  \/ pc'[t] = pc[t] /\ status'[t] = status[t]
  \/ pc'[t] \in {"error", "dead"} /\ status'[t] = status[t]
  \/ pc[t] = "idle" /\ pc'[t] = "prepare" /\ status'[t] = status[t]
  \/ /\ pc[t] = "prepare" /\ pc'[t] = Upcoming(status'[t])
     /\ \A step \in {"archive", "diary"} : status'[t][step] = status[t][step]
  \/ pc[t] = "archive" /\ pc'[t] = "replay" /\ status'[t] = status[t] /\ seq'[t] > 0
  \/ pc[t] = "replay" /\ pc'[t] = "summary" /\ status'[t] = status[t]
  \/ pc[t] = "summary" /\ pc'[t] \in Steps \cup {"done"} /\ pc'[t] # "archive"
     /\ status'[t] = [status[t] EXCEPT !["archive"] = "applied"]
  \/ /\ pc[t] \notin {"idle", "prepare", "archive", "replay", "summary"} \cup Ends
     /\ pc'[t] \in Steps \cup {"done", "append", "truncate", "fill", "distill", "spawn"}
     /\ pc'[t] = "archive" => status'[t]["archive"] = "pending"
     /\ status'[t]["archive"] = status[t]["archive"]

\* No other process moves a turn, and it moves only like this.
LEMMA Onward ==
  ASSUME Framed, [Next]_vars, NEW t \in Turns
  PROVE  Moves(t)
<1>t. Typed /\ Placed /\ t \in Procs /\ asked[t].session \in Sessions
  BY TurnRecordsAssumption DEF Framed, Procs, Typed
<1>r. {"applied", "failed", "skipped"} \subseteq Results /\ {"archive", "diary", "dispatch"} \subseteq Steps
  BY DEF Results, Steps
<1>m. ASSUME NEW u \in Turns, NEW step \in Steps, NEW result \in Results, Mark(u, step, result)
      PROVE  IF u = t
             THEN /\ status'[t] = [status[t] EXCEPT ![step] = result]
                  /\ pc'[t] = "done" \/ (pc'[t] \in Steps /\ status'[t][pc'[t]] = "pending")
             ELSE pc'[t] = pc[t] /\ status'[t] = status[t]
  <2>1. /\ status' = [status EXCEPT ![u] = [status[u] EXCEPT ![step] = result]]
        /\ pc' = [pc EXCEPT ![u] = pc'[u]]
        /\ pc'[u] = "done" \/ (pc'[u] \in Steps /\ status'[u][pc'[u]] = "pending")
    BY <1>m, Marking
  <2>2. CASE u = t
    <3>1. status'[t] = [status[t] EXCEPT ![step] = result]
      BY <2>1, <2>2, <1>t DEF Typed
    <3>2. pc'[t] = "done" \/ (pc'[t] \in Steps /\ status'[t][pc'[t]] = "pending")
      BY <2>1, <2>2
    <3> QED
      BY <2>2, <3>1, <3>2
  <2>3. CASE u # t
    BY <2>1, <2>3, <1>t DEF Typed
  <2> QED
    BY <2>2, <2>3
<1>g. ASSUME NEW p \in Procs, NEW step, pc' = [pc EXCEPT ![p] = step]
      PROVE  pc'[t] = IF p = t THEN step ELSE pc[t]
  BY <1>g, <1>t DEF Typed
<1>1. CASE \E u \in Turns : Turn(u)
  <2>1. PICK u \in Turns : Turn(u)
    BY <1>1
  <2>u. u \in Procs
    BY DEF Procs
  <2>2. CASE Remember(u)
    <3>1. status' = status /\ pc[u] = "idle" /\ \E step \in {"prepare", "error"} : pc' = [pc EXCEPT ![u] = step]
      BY <2>2 DEF Remember, Goto
    <3> QED
      BY <3>1, <2>u, <1>g DEF Moves
  <2>3. CASE Prepare(u)
    <3>1. CASE pc' = [pc EXCEPT ![u] = "error"] /\ status' = status
      BY <3>1, <2>u, <1>g DEF Moves
    <3>2. CASE ~(pc' = [pc EXCEPT ![u] = "error"] /\ status' = status)
      <4>1. PICK refused \in SUBSET {"identity", "experience"} :
            LET st == [s \in Steps |-> IF s \in refused THEN "failed" ELSE status[u][s]]
            IN status' = [status EXCEPT ![u] = st] /\ pc' = [pc EXCEPT ![u] = Upcoming(st)] /\ pc[u] = "prepare"
        BY <2>3, <3>2 DEF Prepare, Goto
      <4>2. PICK st : st = [s \in Steps |-> IF s \in refused THEN "failed" ELSE status[u][s]]
        OBVIOUS
      <4>3. status' = [status EXCEPT ![u] = st] /\ pc' = [pc EXCEPT ![u] = Upcoming(st)] /\ pc[u] = "prepare"
        BY <4>1, <4>2
      <4>4. \A step \in {"archive", "diary"} : st[step] = status[u][step]
        BY <4>2 DEF Steps
      <4>5. CASE u = t
        BY <4>3, <4>4, <4>5, <1>t DEF Moves, Typed
      <4>6. CASE u # t
        BY <4>3, <4>6, <1>t DEF Moves, Typed
      <4> QED
        BY <4>5, <4>6
    <3> QED
      BY <3>1, <3>2
  <2>4. CASE Archive(u)
    <3>1. status' = status /\ pc[u] = "archive"
      BY <2>4 DEF Archive
    <3>2. CASE pc' = [pc EXCEPT ![u] = "error"]
      BY <3>1, <3>2, <2>u, <1>g DEF Moves
    <3>3. CASE pc' # [pc EXCEPT ![u] = "error"]
      <4>1. pc' = [pc EXCEPT ![u] = "replay"] /\ seq' = [seq EXCEPT ![u] = Len(archive[asked[u].session]) + 1]
        BY <2>4, <3>3 DEF Archive, Goto
      <4>2. CASE u = t
        <5>1. Len(archive[asked[t].session]) \in Nat
          BY <1>t DEF Typed
        <5>2. seq'[t] > 0
          BY <4>1, <4>2, <5>1, <1>t DEF Typed
        <5> QED
          BY <3>1, <4>1, <4>2, <5>2, <2>u, <1>g DEF Moves
      <4>3. CASE u # t
        BY <3>1, <4>1, <4>3, <2>u, <1>g DEF Moves
      <4> QED
        BY <4>2, <4>3
    <3> QED
      BY <3>2, <3>3
  <2>5. CASE Replay(u)
    <3>1. status' = status /\ pc[u] = "replay" /\ \E step \in {"summary", "error"} : pc' = [pc EXCEPT ![u] = step]
      BY <2>5 DEF Replay, Goto
    <3> QED
      BY <3>1, <2>u, <1>g DEF Moves
  <2>6. CASE Summarise(u)
    <3>1. pc[u] = "summary"
      BY <2>6 DEF Summarise
    <3>2. CASE pc' = [pc EXCEPT ![u] = "error"] /\ status' = status
      BY <3>2, <2>u, <1>g DEF Moves
    <3>3. CASE Mark(u, "archive", "applied")
      <4>1. CASE u = t
        <5>1. /\ status'[t] = [status[t] EXCEPT !["archive"] = "applied"]
              /\ pc'[t] = "done" \/ (pc'[t] \in Steps /\ status'[t][pc'[t]] = "pending")
          BY <3>3, <4>1, <1>m, <1>r
        <5>2. status'[t]["archive"] = "applied"
          BY <5>1, <1>t, <1>r DEF Typed
        <5>3. pc'[t] # "archive"
          BY <5>1, <5>2
        <5> QED
          BY <3>1, <4>1, <5>1, <5>3 DEF Moves
      <4>2. CASE u # t
        BY <3>3, <4>2, <1>m, <1>r DEF Moves
      <4> QED
        BY <4>1, <4>2
    <3> QED
      BY <2>6, <3>2, <3>3 DEF Summarise, Goto
  <2>7. CASE DecideDiary(u) \/ DiaryFails(u) \/ ReadDiary(u) \/ TruncateDiary(u) \/ FillDiary(u)
             \/ BuildSpawner(u) \/ Spawn(u) \/ DispatchFails(u)
    <3>1. pc[u] \in {"diary", "append", "truncate", "fill", "dispatch", "spawn"}
      BY <2>7 DEF DecideDiary, DiaryFails, ReadDiary, TruncateDiary, FillDiary, BuildSpawner, Spawn, DispatchFails
    <3>2. pc[u] \notin {"idle", "prepare", "archive", "replay", "summary"} \cup Ends
      BY <3>1 DEF Ends
    <3>3. \/ \E step \in {"diary", "dispatch"}, result \in {"applied", "skipped", "failed"} : Mark(u, step, result)
          \/ status' = status /\ pc' = [pc EXCEPT ![u] = "error"]
          \/ /\ status' = status \/ status' = [status EXCEPT ![u].diary = "applied"]
             /\ \E step \in {"append", "truncate", "fill", "distill", "spawn"} : pc' = [pc EXCEPT ![u] = step]
      BY <2>7 DEF DecideDiary, DiaryFails, ReadDiary, TruncateDiary, FillDiary, BuildSpawner, Spawn, DispatchFails,
                  Goto, locals
    <3>4. CASE \E step \in {"diary", "dispatch"}, result \in {"applied", "skipped", "failed"} : Mark(u, step, result)
      <4>1. PICK step \in {"diary", "dispatch"}, result \in {"applied", "skipped", "failed"} : Mark(u, step, result)
        BY <3>4
      <4>2. step \in Steps /\ result \in Results
        BY <1>r
      <4>3. CASE u = t
        <5>1. /\ status'[t] = [status[t] EXCEPT ![step] = result]
              /\ pc'[t] = "done" \/ (pc'[t] \in Steps /\ status'[t][pc'[t]] = "pending")
          BY <4>1, <4>2, <4>3, <1>m
        <5>2. status'[t]["archive"] = status[t]["archive"]
          BY <5>1, <1>t, <1>r DEF Typed
        <5> QED
          BY <3>2, <4>3, <5>1, <5>2 DEF Moves
      <4>4. CASE u # t
        BY <4>1, <4>2, <4>4, <1>m DEF Moves
      <4> QED
        BY <4>3, <4>4
    <3>5. CASE status' = status /\ pc' = [pc EXCEPT ![u] = "error"]
      BY <3>5, <2>u, <1>g DEF Moves
    <3>6. CASE /\ status' = status \/ status' = [status EXCEPT ![u].diary = "applied"]
               /\ \E step \in {"append", "truncate", "fill", "distill", "spawn"} : pc' = [pc EXCEPT ![u] = step]
      <4>1. PICK step \in {"append", "truncate", "fill", "distill", "spawn"} : pc' = [pc EXCEPT ![u] = step]
        BY <3>6
      <4>2. CASE status' = status
        BY <3>2, <4>1, <4>2, <2>u, <1>g DEF Moves
      <4>3. CASE status' = [status EXCEPT ![u].diary = "applied"]
        <5>1. CASE u = t
          <6>1. status'[t]["archive"] = status[t]["archive"]
            BY <4>3, <5>1, <1>t, <1>r DEF Typed
          <6>2. pc'[t] = step
            BY <4>1, <5>1, <2>u, <1>g
          <6> QED
            BY <3>2, <5>1, <6>1, <6>2 DEF Moves
        <5>2. CASE u # t
          <6>1. status'[t] = status[t]
            BY <4>3, <5>2, <1>t DEF Typed
          <6> QED
            BY <4>1, <5>2, <6>1, <2>u, <1>g DEF Moves
        <5> QED
          BY <5>1, <5>2
      <4> QED
        BY <3>6, <4>2, <4>3
    <3> QED
      BY <3>3, <3>4, <3>5, <3>6
  <2> QED
    BY <2>1, <2>2, <2>3, <2>4, <2>5, <2>6, <2>7 DEF Turn
<1>2. CASE \E p \in Procs : Write(p) \/ Crash(p) \/ (StartDistill(p) /\ p \in Distillers)
  <2>1. PICK p \in Procs : Write(p) \/ Crash(p) \/ (StartDistill(p) /\ p \in Distillers)
    BY <1>2
  <2>e. ASSUME Appending(p), NEW result \in {"applied", "failed"}, Ended(p, result)
        PROVE  Moves(t)
    <3>1. /\ pc' = [pc EXCEPT ![p] = pc'[p]] /\ pc'[p] \in Steps \cup {"done", "error", "distill"}
          /\ pc[p] = "distill" => status' = status
          /\ pc[p] # "distill" => /\ p \in Turns /\ pc[p] \in {"identity", "experience"}
                                 /\ status' = [status EXCEPT ![p] = [status[p] EXCEPT ![pc[p]] = result]]
          /\ Placed'
      BY <2>e, Ending
    <3>2. CASE p # t
      BY <3>1, <3>2, <1>t DEF Typed, Moves
    <3>3. CASE p = t
      <4>1. pc[t] \notin {"idle", "prepare", "archive", "replay", "summary"} \cup Ends
        BY <3>1, <3>3 DEF Ends
      <4>2. status'[t]["archive"] = status[t]["archive"]
        BY <3>1, <3>3, <1>t, <1>r DEF Typed
      <4>3. pc'[t] = "archive" => status'[t]["archive"] = "pending"
        BY <3>1 DEF Placed
      <4>4. CASE pc'[t] = "error"
        <5>1. pc[t] = "distill"
          BY <2>e, <3>1, <3>3, <4>4, <1>m, <1>t DEF Ended, Steps, Results
        <5> QED
          BY <3>1, <3>3, <4>4, <5>1 DEF Moves
      <4>5. CASE pc'[t] # "error"
        BY <3>1, <3>3, <4>1, <4>2, <4>3, <4>5 DEF Moves
      <4> QED
        BY <4>4, <4>5
    <3> QED
      BY <3>2, <3>3
  <2>2. CASE ReadHot(p) \/ RenameTmp(p) \/ HotFails(p)
    <3>1. Appending(p) /\ (UNCHANGED <<pc, status>> \/ \E result \in {"applied", "failed"} : Ended(p, result))
      BY <2>2, <1>t DEF ReadHot, RenameTmp, HotFails, Placed
    <3> QED
      BY <3>1, <2>e DEF Moves
  <2>3. CASE OpenTmp(p) \/ FillTmp(p)
    BY <2>3 DEF OpenTmp, FillTmp, Moves
  <2>4. CASE ReadDay(p)
    <3>1. status' = status /\ (pc' = pc \/ pc' = [pc EXCEPT ![p] = Distilled(p)]) /\ pc[p] = "distill"
      BY <2>4 DEF ReadDay, Goto
    <3>2. CASE pc' = pc \/ p # t
      BY <3>1, <3>2, <1>g DEF Moves
    <3>3. CASE pc' # pc /\ p = t
      <4>1. pc'[t] = Distilled(t) /\ pc[t] = "distill"
        BY <3>1, <3>3, <1>g
      <4>2. Distilled(t) \in Steps \cup {"done"} /\ (Distilled(t) # "done" => status[t][Distilled(t)] = "pending")
        BY <1>t, Departing
      <4>3. pc[t] \notin {"idle", "prepare", "archive", "replay", "summary"} \cup Ends
        BY <4>1 DEF Ends
      <4> QED
        BY <3>1, <4>1, <4>2, <4>3 DEF Moves
    <3> QED
      BY <3>2, <3>3
  <2>5. CASE StartDistill(p) /\ p \in Distillers
    <3>1. status' = status /\ pc' = [pc EXCEPT ![p] = "distill"] /\ p # t
      BY <2>5, TurnRecordsAssumption DEF StartDistill, Goto
    <3> QED
      BY <3>1, <1>g DEF Moves
  <2>6. CASE Crash(p)
    <3>1. status' = status /\ pc' = [pc EXCEPT ![p] = "dead"]
      BY <2>6 DEF Crash, Goto
    <3> QED
      BY <3>1, <1>g DEF Moves
  <2> QED
    BY <2>1, <2>2, <2>3, <2>4, <2>5, <2>6 DEF Write
<1>3. CASE UNCHANGED vars
  BY <1>3 DEF vars, Moves
<1> QED
  BY <1>1, <1>2, <1>3 DEF Next, Procs

\* What changes the archive, and how.
LEMMA Archiving ==
  ASSUME Framed, [Next]_vars
  PROVE  \/ UNCHANGED <<seq, archive>>
         \/ \E t \in Turns :
              /\ pc[t] = "archive" /\ pc'[t] = "replay" /\ t \in Procs
              /\ archive' = [archive EXCEPT ![asked[t].session] = Append(archive[asked[t].session], t)]
              /\ seq' = [seq EXCEPT ![t] = Len(archive[asked[t].session]) + 1]
<1>1. UNCHANGED <<seq, archive>> \/ \E t \in Turns : Archive(t) \/ Replay(t) \/ Summarise(t)
  BY Owners
<1>2. ASSUME NEW t \in Turns, Replay(t) \/ Summarise(t) PROVE UNCHANGED <<seq, archive>>
  BY <1>2 DEF Replay, Summarise, tables, locals
<1>3. ASSUME NEW t \in Turns, Archive(t), ~UNCHANGED <<seq, archive>>
      PROVE  /\ pc[t] = "archive" /\ pc'[t] = "replay" /\ t \in Procs
             /\ archive' = [archive EXCEPT ![asked[t].session] = Append(archive[asked[t].session], t)]
             /\ seq' = [seq EXCEPT ![t] = Len(archive[asked[t].session]) + 1]
  <2>1. t \in Procs /\ DOMAIN pc = Procs
    BY DEF Procs, Framed, Typed
  <2> QED
    BY <1>3, <2>1 DEF Archive, Goto
<1> QED
  BY <1>1, <1>2, <1>3

\* At first no turn is past the archive.
LEMMA CourseInit == Init => Course
<1> SUFFICES ASSUME Init PROVE Course
  OBVIOUS
<1>1. ASSUME NEW t \in Turns
      PROVE  /\ pc[t] = "idle" /\ seq[t] = 0 /\ status[t]["diary"] \notin {"applied", "skipped"}
             /\ "archive" \in asked[t].steps => status[t]["archive"] = "pending"
  BY DEF Init, Procs, Steps
<1>2. \A s \in Sessions : archive[s] = <<>>
  BY DEF Init
<1> QED
  BY <1>1, <1>2 DEF Course, CourseOf, Numbered, Started

\* No turn goes back before the archive.
LEMMA NoReturn ==
  ASSUME Framed, [Next]_vars, NEW t \in Turns, CourseOf(t)
  PROVE  /\ Started(t) => Started(t)'
         /\ ~Started(t)' => \A step \in {"archive", "diary"} : status'[t][step] = status[t][step]
<1>1. Moves(t)
  BY Onward
<1> QED
  BY <1>1 DEF Moves, CourseOf, Started, Ends, Steps

\* A turn keeps its course if its number stays, or is given to it by the
\* archive.
LEMMA CourseForth ==
  ASSUME Framed, Framed', [Next]_vars, NEW t \in Turns, CourseOf(t),
         seq'[t] = seq[t] \/ (seq'[t] > 0 /\ pc'[t] = "replay" /\ pc[t] = "archive")
  PROVE  CourseOf(t)'
<1>t. Typed /\ Typed' /\ asked' = asked /\ t \in Procs
  BY Owners DEF Framed, Procs
<1>1. Moves(t)
  BY Onward
<1>2. status'[t] \in [Steps -> Results]
  BY <1>t DEF Typed
<1>3. Upcoming(status'[t]) # "archive" => status'[t]["archive"] # "pending"
  BY <1>2, UpcomingFirst
<1>4. Upcoming(status'[t]) = "done" \/ Upcoming(status'[t]) \in Steps
  BY <1>2, Following
<1>5. pc'[t] \in {"idle", "prepare"} /\ "archive" \in asked[t].steps => status'[t]["archive"] = "pending"
  BY <1>1, <1>4 DEF Moves, CourseOf, Ends, Steps
<1>6. ~Started(t)' => seq'[t] = 0 /\ status'[t]["diary"] \notin {"applied", "skipped"}
  <2>1. SUFFICES ASSUME ~Started(t)' PROVE seq'[t] = 0 /\ status'[t]["diary"] \notin {"applied", "skipped"}
    OBVIOUS
  <2>2. ~Started(t) /\ status'[t]["diary"] = status[t]["diary"]
    BY <2>1, NoReturn
  <2>3. pc'[t] # "replay"
    BY <2>1 DEF Started
  <2> QED
    BY <2>2, <2>3 DEF CourseOf
<1>7. pc'[t] \notin {"idle", "prepare", "archive", "replay", "summary"} \cup Ends
        => status'[t]["archive"] # "pending"
  <2>1. [status[t] EXCEPT !["archive"] = "applied"]["archive"] = "applied"
    BY <1>t DEF Typed, Steps
  <2> QED
    BY <1>1, <1>3, <1>4, <2>1 DEF Moves, CourseOf, Ends, Steps
<1>8. Started(t)' /\ pc'[t] \notin {"error", "dead"} /\ "archive" \in asked[t].steps => seq'[t] > 0
  <2>1. SUFFICES ASSUME Started(t)', pc'[t] \notin {"error", "dead"}, "archive" \in asked[t].steps, seq'[t] = seq[t]
                 PROVE  seq'[t] > 0
    OBVIOUS
  <2>2. CASE Started(t) /\ pc[t] \notin {"error", "dead"}
    BY <2>1, <2>2 DEF CourseOf
  <2>3. CASE ~Started(t)
    BY <2>1, <2>3, <1>1, <1>3 DEF Moves, CourseOf, Started, Ends, Steps
  <2>4. CASE pc[t] \in {"error", "dead"}
    BY <2>1, <2>4, <1>1 DEF Moves, CourseOf, Started, Ends, Steps
  <2> QED
    BY <2>2, <2>3, <2>4
<1> QED
  BY <1>5, <1>6, <1>7, <1>8, <1>t DEF CourseOf

\* Whatever a process does, turns are numbered by the archive and go on after
\* it.
LEMMA CourseStep == Framed /\ Framed' /\ Course /\ [Next]_vars => Course'
<1> SUFFICES ASSUME Framed, Framed', Course, [Next]_vars PROVE Course'
  OBVIOUS
<1>t. /\ Typed /\ asked' = asked /\ Numbered
      /\ \A t \in Turns : CourseOf(t) /\ t \in Procs /\ asked[t].session \in Sessions
      /\ \A s \in Sessions : archive[s] \in Seq(Turns)
  BY Owners, TurnRecordsAssumption DEF Course, Framed, Procs, Typed
<1>1. CASE UNCHANGED <<seq, archive>>
  <2>1. \A t \in Turns : CourseOf(t)'
    BY <1>1, <1>t, CourseForth
  <2>2. Numbered'
    BY <1>1, <1>t DEF Numbered
  <2> QED
    BY <2>1, <2>2 DEF Course
<1>2. ASSUME NEW u \in Turns, pc[u] = "archive", pc'[u] = "replay",
             archive' = [archive EXCEPT ![asked[u].session] = Append(archive[asked[u].session], u)],
             seq' = [seq EXCEPT ![u] = Len(archive[asked[u].session]) + 1]
      PROVE  Course'
  <2> DEFINE s == asked[u].session
             n == Len(archive[s])
  <2>1. s \in Sessions /\ archive[s] \in Seq(Turns) /\ n \in Nat /\ DOMAIN archive[s] = 1 .. n
    BY <1>t
  <2>2. seq'[u] = n + 1 /\ \A t \in Turns \ {u} : seq'[t] = seq[t]
    BY <1>2, <1>t DEF Typed
  <2>3. archive'[s] = Append(archive[s], u) /\ \A r \in Sessions \ {s} : archive'[r] = archive[r]
    BY <1>2, <1>t, <2>1 DEF Typed
  <2>4. DOMAIN archive'[s] = 1 .. n + 1 /\ archive'[s][n + 1] = u /\ \A i \in 1 .. n : archive'[s][i] = archive[s][i]
    BY <2>1, <2>3
  <2>5. \A t \in Turns : CourseOf(t)'
    <3>1. TAKE t \in Turns
    <3>2. CASE t = u
      BY <1>2, <1>t, <2>1, <2>2, <3>2, CourseForth
    <3>3. CASE t # u
      BY <1>t, <2>2, <3>3, CourseForth
    <3> QED
      BY <3>2, <3>3
  <2>6. seq[u] = 0
    BY <1>2, <1>t DEF CourseOf, Started
  <2>7. ASSUME NEW t \in Turns, seq'[t] > 0
        PROVE  seq'[t] \in DOMAIN archive'[asked[t].session] /\ archive'[asked[t].session][seq'[t]] = t
    <3>1. CASE t = u
      BY <2>1, <2>2, <2>4, <3>1
    <3>2. CASE t # u
      <4>1. seq'[t] = seq[t] /\ seq[t] \in DOMAIN archive[asked[t].session] /\ archive[asked[t].session][seq[t]] = t
        BY <1>t, <2>2, <2>7, <3>2 DEF Numbered
      <4>2. CASE asked[t].session = s
        <5>1. seq[t] \in 1 .. n /\ archive[s][seq[t]] = t
          BY <2>1, <4>1, <4>2
        <5>2. seq[t] \in DOMAIN archive'[s] /\ archive'[s][seq[t]] = t
          BY <2>1, <2>4, <5>1
        <5> QED
          BY <4>1, <4>2, <5>2
      <4>3. CASE asked[t].session # s
        BY <1>t, <2>3, <4>1, <4>3
      <4> QED
        BY <4>2, <4>3
    <3> QED
      BY <3>1, <3>2
  <2>8. ASSUME NEW r \in Sessions, NEW i \in DOMAIN archive[r]
        PROVE  asked[archive[r][i]].session = r /\ seq'[archive[r][i]] = i
    <3>1. archive[r][i] \in Turns /\ i > 0
      BY <1>t
    <3>2. asked[archive[r][i]].session = r /\ seq[archive[r][i]] = i
      BY <1>t DEF Numbered
    <3> QED
      BY <2>2, <2>6, <3>1, <3>2
  <2>9. ASSUME NEW r \in Sessions, NEW i \in DOMAIN archive'[r]
        PROVE  asked[archive'[r][i]].session = r /\ seq'[archive'[r][i]] = i
    <3>1. CASE r = s /\ i = n + 1
      BY <2>2, <2>4, <3>1
    <3>2. CASE r = s /\ i # n + 1
      <4>1. i \in 1 .. n /\ archive'[r][i] = archive[r][i]
        BY <2>1, <2>4, <2>9, <3>2
      <4> QED
        BY <2>1, <2>8, <3>2, <4>1
    <3>3. CASE r # s
      BY <2>3, <2>8, <2>9, <3>3
    <3> QED
      BY <3>1, <3>2, <3>3
  <2>10. Numbered'
    BY <1>t, <2>7, <2>9 DEF Numbered
  <2> QED
    BY <2>5, <2>10 DEF Course
<1> QED
  BY <1>1, <1>2, Archiving

--------------------------------------------------------------------------------
(* Everything a turn leaves behind is of turns past the archive *)

\* Turns that may have left something behind, and the lessons of a set of turns.
Behind == {t \in Turns : Started(t) /\ ("archive" \in asked[t].steps => seq[t] > 0)}
LessonsOf(B) == [id : Turns \cup Nat, of : B]

\* What a process holds is of turns of B.
Hand(p, B) ==
  /\ base[p] \in Seq(B) \cup Seq(LessonsOf(B))
  /\ part[p] # "none" => base[p] \in Seq(LessonsOf(B))
  /\ pc[p] \in {"truncate", "fill"} => base[p] \in Seq(B)
  /\ part[p] = "fill" /\ fd[p] = "tmp" => tmp[FileOf(p)] \in Seq(LessonsOf(B))

\* Everything a turn leaves behind is of turns of B.
StoredIn(B) ==
  /\ diary \in Seq(B) /\ dispatches \in Seq(B) /\ todo \in [Procs -> Seq(B)]
  /\ fd \in [Procs -> {"none", "tmp", "live", "gone"}]
  /\ \A f \in Files : hot[f] \in Seq(LessonsOf(B)) /\ tmp[f] \in Seq(LessonsOf(B)) \cup {NoFile}
  /\ \A p \in Procs : Hand(p, B)

\* What is left behind by turns of A is by turns of a larger set.
LEMMA StoredMore ==
  ASSUME NEW A, NEW B, A \subseteq B, StoredIn(A)
  PROVE  StoredIn(B)
<1>1. Seq(A) \subseteq Seq(B)
  BY ListOf
<1>2. Seq(LessonsOf(A)) \subseteq Seq(LessonsOf(B))
  <2>1. LessonsOf(A) \subseteq LessonsOf(B)
    BY DEF LessonsOf
  <2> QED
    BY <2>1, ListOf
<1>3. \A p \in Procs : Hand(p, B)
  BY <1>1, <1>2 DEF StoredIn, Hand
<1>4. todo \in [Procs -> Seq(B)]
  BY <1>1 DEF StoredIn
<1> QED
  BY <1>1, <1>2, <1>3, <1>4 DEF StoredIn

\* At first no turn has left anything behind.
LEMMA StoredInit == Init => StoredIn({})
<1> SUFFICES ASSUME Init PROVE StoredIn({})
  OBVIOUS
<1>1. <<>> \in Seq({}) /\ <<>> \in Seq(LessonsOf({}))
  OBVIOUS
<1>2. \A p \in Procs : part[p] = "none" /\ base[p] = <<>>
  BY DEF Init
<1>3. diary = <<>> /\ dispatches = <<>> /\ todo \in [Procs -> Seq({})]
  BY <1>1 DEF Init
<1>4. \A f \in Files : hot[f] = <<>> /\ tmp[f] = NoFile
  BY DEF Init
<1>5. fd \in [Procs -> {"none", "tmp", "live", "gone"}]
  BY DEF Init
<1>6. \A p \in Procs : Hand(p, {})
  BY <1>1, <1>2 DEF Hand
<1> QED
  BY <1>1, <1>3, <1>4, <1>5, <1>6 DEF StoredIn

\* A process that is left alone, also by what is renamed, holds what it held.
LEMMA HandStays ==
  ASSUME NEW B, NEW p \in Procs, Hand(p, B), pc'[p] = pc[p], part'[p] = part[p], base'[p] = base[p],
         fd'[p] = "tmp" /\ part[p] = "fill" =>
           /\ fd[p] = "tmp"
           /\ tmp'[FileOf(p)] = tmp[FileOf(p)] \/ tmp'[FileOf(p)] \in Seq(LessonsOf(B))
  PROVE  Hand(p, B)'
<1>1. FileOf(p)' = FileOf(p)
  BY DEF FileOf
<1> QED
  BY <1>1 DEF Hand

\* A process at rest holds nothing.
LEMMA HandEmpty ==
  ASSUME NEW B, NEW p \in Procs, part'[p] = "none", base'[p] = <<>>
  PROVE  Hand(p, B)'
<1>1. <<>> \in Seq(B) /\ <<>> \in Seq(LessonsOf(B))
  OBVIOUS
<1> QED
  BY <1>1 DEF Hand

\* A step of a turn outside the hot files.
LEMMA StoredTurn ==
  ASSUME Framed, NEW B, StoredIn(B), NEW t \in Turns, t \in B \/ pc[t] \in {"idle", "prepare", "archive", "replay", "summary"},
         Turn(t)
  PROVE  StoredIn(B)'
<1>t. Typed /\ Placed /\ t \in Procs /\ \A p \in Procs : Hand(p, B)
  BY DEF Framed, Procs, StoredIn
<1>n. part[t] = "none" /\ part' = part /\ todo' = todo /\ fd' = fd /\ hot' = hot /\ tmp' = tmp
  <2>1. part' = part /\ todo' = todo /\ fd' = fd /\ hot' = hot /\ tmp' = tmp
    BY DEF Turn, Remember, Prepare, Archive, Replay, Summarise, DecideDiary, DiaryFails, ReadDiary,
                TruncateDiary, FillDiary, BuildSpawner, Spawn, DispatchFails, locals, texts
  <2>2. pc[t] \notin {"identity", "experience", "distill"}
    BY DEF Turn, Remember, Prepare, Archive, Replay, Summarise, DecideDiary, DiaryFails, ReadDiary,
                TruncateDiary, FillDiary, BuildSpawner, Spawn, DispatchFails
  <2> QED
    BY <2>1, <2>2, <1>t DEF Placed, Appending
<1>p. pc' = [pc EXCEPT ![t] = pc'[t]]
  <2>1. CASE Summarise(t) \/ DecideDiary(t) \/ DiaryFails(t) \/ FillDiary(t) \/ Spawn(t) \/ DispatchFails(t)
    BY <2>1, Rests
  <2>2. CASE Remember(t) \/ Prepare(t) \/ Archive(t) \/ Replay(t) \/ ReadDiary(t) \/ TruncateDiary(t) \/ BuildSpawner(t)
    <3>1. \E step : pc' = [pc EXCEPT ![t] = step]
      BY <2>2 DEF Remember, Prepare, Archive, Replay, ReadDiary, TruncateDiary, BuildSpawner, Goto
    <3> QED
      BY <3>1, <1>t DEF Typed
  <2> QED
    BY <2>1, <2>2 DEF Turn
<1>b. \A q \in Procs \ {t} : base'[q] = base[q]
  <2>1. base' = base \/ \E x : base' = [base EXCEPT ![t] = x]
    BY DEF Turn, Remember, Prepare, Archive, Replay, Summarise, DecideDiary, DiaryFails, ReadDiary,
                TruncateDiary, FillDiary, BuildSpawner, Spawn, DispatchFails, locals
  <2> QED
    BY <2>1, <1>t DEF Typed
<1>o. \A q \in Procs \ {t} : Hand(q, B)'
  <2>1. \A q \in Procs \ {t} : pc'[q] = pc[q] /\ base'[q] = base[q]
    BY <1>p, <1>b, <1>t DEF Typed
  <2> QED
    BY <1>n, <1>t, <2>1, HandStays
<1>f. /\ todo' \in [Procs -> Seq(B)] /\ fd' \in [Procs -> {"none", "tmp", "live", "gone"}]
      /\ \A f \in Files : hot'[f] \in Seq(LessonsOf(B)) /\ tmp'[f] \in Seq(LessonsOf(B)) \cup {NoFile}
  BY <1>n DEF StoredIn
<1> SUFFICES diary' \in Seq(B) /\ dispatches' \in Seq(B) /\ Hand(t, B)'
  <2>1. \A q \in Procs : Hand(q, B)'
    BY <1>o
  <2> QED
    BY <1>f, <2>1 DEF StoredIn
<1>d. diary \in Seq(B) /\ dispatches \in Seq(B)
  BY DEF StoredIn
<1>h. base'[t] = base[t] /\ pc'[t] \notin {"truncate", "fill"} => Hand(t, B)'
  BY <1>n, <1>t DEF Hand
<1>1. CASE Remember(t) \/ Archive(t) \/ Replay(t) \/ BuildSpawner(t)
  <2>1. UNCHANGED <<base, diary, dispatches>> /\ \E step \in {"prepare", "replay", "summary", "spawn", "error"} : pc' = [pc EXCEPT ![t] = step]
    BY <1>1 DEF Remember, Archive, Replay, BuildSpawner, Goto, locals, texts
  <2>2. pc'[t] \notin {"truncate", "fill"}
    BY <2>1, <1>t DEF Typed
  <2> QED
    BY <2>1, <2>2, <1>d, <1>h
<1>2. CASE Prepare(t)
  <2>1. UNCHANGED <<base, diary, dispatches>> /\ pc[t] = "prepare"
    BY <1>2 DEF Prepare, locals, texts
  <2>2. CASE pc' = [pc EXCEPT ![t] = "error"]
    <3>1. pc'[t] \notin {"truncate", "fill"}
      BY <2>2, <1>t DEF Typed
    <3> QED
      BY <2>1, <3>1, <1>d, <1>h
  <2>3. CASE pc' # [pc EXCEPT ![t] = "error"]
    <3>1. PICK refused \in SUBSET Steps :
          LET st == [s \in Steps |-> IF s \in refused THEN "failed" ELSE status[t][s]]
          IN pc' = [pc EXCEPT ![t] = Upcoming(st)]
      BY <1>2, <2>3 DEF Prepare, Goto, Steps
    <3>2. PICK st : st = [s \in Steps |-> IF s \in refused THEN "failed" ELSE status[t][s]]
      OBVIOUS
    <3>3. st \in [Steps -> Results]
      BY <3>2, <1>t DEF Typed, Results
    <3>4. pc'[t] = Upcoming(st)
      BY <3>1, <3>2, <1>t DEF Typed
    <3>5. pc'[t] \notin {"truncate", "fill"}
      BY <3>3, <3>4, Following DEF Steps
    <3> QED
      BY <2>1, <3>5, <1>d, <1>h
  <2> QED
    BY <2>2, <2>3
<1>3. CASE Summarise(t) \/ DecideDiary(t) \/ DispatchFails(t) \/ DiaryFails(t)
  <2>1. UNCHANGED <<diary, dispatches>> /\ (base' = base \/ base' = [base EXCEPT ![t] = <<>>])
    BY <1>3 DEF Summarise, DecideDiary, DispatchFails, DiaryFails, locals, texts
  <2>2. pc'[t] \notin {"truncate", "fill"}
    BY <1>3, Rests DEF Steps
  <2>3. base'[t] = base[t] \/ base'[t] = <<>>
    BY <2>1, <1>t DEF Typed
  <2> QED
    BY <2>1, <2>2, <2>3, <1>d, <1>h, <1>n, <1>t, HandEmpty
<1>4. CASE ReadDiary(t)
  <2>1. UNCHANGED <<diary, dispatches>> /\ base' = [base EXCEPT ![t] = diary]
    BY <1>4 DEF ReadDiary, DiaryRead, texts
  <2>2. base'[t] = diary
    BY <2>1, <1>t DEF Typed
  <2> QED
    BY <2>1, <2>2, <1>d, <1>n DEF Hand
<1>5. CASE TruncateDiary(t)
  <2>1. diary' = <<>> /\ UNCHANGED <<base, dispatches>> /\ pc[t] = "truncate"
    BY <1>5 DEF TruncateDiary, locals
  <2> QED
    BY <2>1, <1>d, <1>n, <1>t DEF Hand
<1>6. CASE FillDiary(t)
  <2>1. /\ diary' = Overlay(Append(base[t], t), diary) /\ dispatches' = dispatches
        /\ base' = [base EXCEPT ![t] = <<>>] /\ pc[t] = "fill"
    BY <1>6 DEF FillDiary
  <2>2. base[t] \in Seq(B) /\ t \in B
    BY <2>1, <1>t DEF Hand
  <2>3. Append(base[t], t) \in Seq(B)
    BY <2>2
  <2>4. diary' \in Seq(B)
    BY <2>1, <2>3, <1>d, OverlayOf
  <2>5. base'[t] = <<>>
    BY <2>1, <1>t DEF Typed
  <2> QED
    BY <2>1, <2>4, <2>5, <1>d, <1>n, <1>t, HandEmpty
<1>7. CASE Spawn(t)
  <2>1. /\ UNCHANGED <<diary, base>> /\ pc[t] = "spawn"
        /\ dispatches' = IF NextRun(seen[t]) \in DOMAIN dispatches
                         THEN [dispatches EXCEPT ![NextRun(seen[t])] = t] ELSE Append(dispatches, t)
    BY <1>7 DEF Spawn, locals
  <2>2. pc'[t] \notin {"truncate", "fill"}
    BY <1>7, Rests DEF Steps
  <2>3. t \in B
    BY <2>1
  <2>4. dispatches' \in Seq(B)
    <3>1. Append(dispatches, t) \in Seq(B) /\ \A i \in DOMAIN dispatches : [dispatches EXCEPT ![i] = t] \in Seq(B)
      BY <2>3, <1>d
    <3> QED
      BY <2>1, <3>1
  <2> QED
    BY <2>1, <2>2, <2>4, <1>d, <1>h
<1> QED
  BY <1>1, <1>2, <1>3, <1>4, <1>5, <1>6, <1>7 DEF Turn

\* What is added to a hot file is of a turn of B.
LEMMA AddedOf ==
  ASSUME Framed, NEW B, StoredIn(B), NEW p \in Procs, Appending(p),
         p \in Turns /\ pc[p] \in {"identity", "experience"} => p \in B, B \subseteq Turns
  PROVE  EntryOf(p) \in LessonsOf(B)
<1>t. Typed /\ Placed /\ todo \in [Procs -> Seq(B)]
  BY DEF Framed, StoredIn
<1>1. CASE pc[p] = "distill"
  <2>1. todo[p] \in Seq(B) /\ todo[p] # <<>>
    BY <1>1, <1>t DEF Appending
  <2>2. Head(todo[p]) \in B
    BY <2>1
  <2>3. seq[Head(todo[p])] \in Nat
    BY <2>2, <1>t DEF Typed
  <2> QED
    BY <1>1, <2>2, <2>3 DEF EntryOf, LessonsOf
<1>2. CASE pc[p] # "distill"
  <2>1. pc[p] \in {"identity", "experience"} /\ p \in Turns
    BY <1>2, <1>t DEF Appending, Placed, Ends
  <2> QED
    BY <1>2, <2>1 DEF EntryOf, LessonsOf
<1> QED
  BY <1>1, <1>2

\* A process that writes a hot file, reads the day, begins or dies.
LEMMA StoredWrite ==
  ASSUME Framed, NEW B, B \subseteq Turns, StoredIn(B), NEW p \in Procs,
         p \in Turns /\ pc[p] \in {"identity", "experience"} => p \in B,
         Write(p) \/ Crash(p) \/ StartDistill(p)
  PROVE  StoredIn(B)'
<1>t. /\ Typed /\ Placed /\ \A q \in Procs : Hand(q, B)
      /\ diary \in Seq(B) /\ dispatches \in Seq(B) /\ todo \in [Procs -> Seq(B)]
      /\ fd \in [Procs -> {"none", "tmp", "live", "gone"}]
      /\ \A f \in Files : hot[f] \in Seq(LessonsOf(B)) /\ tmp[f] \in Seq(LessonsOf(B)) \cup {NoFile}
      /\ FileOf(p) \in Files
  BY DEF Framed, StoredIn, FileOf, Files
<1>d. diary' \in Seq(B) /\ dispatches' \in Seq(B)
  BY <1>t DEF Write, ReadHot, OpenTmp, FillTmp, RenameTmp, HotFails, ReadDay, Crash, StartDistill, texts
<1>w. UNCHANGED <<hot, tmp>> =>
        \A f \in Files : hot'[f] \in Seq(LessonsOf(B)) /\ tmp'[f] \in Seq(LessonsOf(B)) \cup {NoFile}
  BY <1>t
<1>e. ASSUME Appending(p), NEW result \in {"applied", "failed"}, Ended(p, result)
      PROVE  /\ todo' \in [Procs -> Seq(B)] /\ Hand(p, B)'
             /\ \A q \in Procs \ {p} : pc'[q] = pc[q] /\ part'[q] = part[q] /\ base'[q] = base[q]
  <2>1. /\ pc' = [pc EXCEPT ![p] = pc'[p]] /\ part' = [part EXCEPT ![p] = "none"]
        /\ base' = [base EXCEPT ![p] = <<>>]
    BY <1>e, Ending
  <2>2. part'[p] = "none" /\ base'[p] = <<>>
    BY <2>1, <1>t DEF Typed
  <2>3. todo' \in [Procs -> Seq(B)]
    <3>1. CASE pc[p] = "distill"
      <4>1. todo[p] # <<>> /\ todo[p] \in Seq(B)
        BY <1>e, <3>1, <1>t DEF Appending
      <4>2. Tail(todo[p]) \in Seq(B) /\ <<>> \in Seq(B)
        BY <4>1
      <4>3. todo' = [todo EXCEPT ![p] = IF result = "applied" THEN Tail(todo[p]) ELSE <<>>]
        BY <1>e, <3>1 DEF Ended
      <4> QED
        BY <4>2, <4>3, <1>t
    <3>2. CASE pc[p] # "distill"
      BY <1>e, <3>2, <1>t DEF Ended
    <3> QED
      BY <3>1, <3>2
  <2>4. Hand(p, B)'
    BY <2>2, HandEmpty
  <2>5. \A q \in Procs \ {p} : pc'[q] = pc[q] /\ part'[q] = part[q] /\ base'[q] = base[q]
    BY <2>1, <1>t DEF Typed
  <2> QED
    BY <2>3, <2>4, <2>5
<1>o. ASSUME \A q \in Procs \ {p} : pc'[q] = pc[q] /\ part'[q] = part[q] /\ base'[q] = base[q],
             \A q \in Procs \ {p} : fd'[q] = "tmp" /\ part[q] = "fill" => fd[q] = "tmp"
               /\ (tmp'[FileOf(q)] = tmp[FileOf(q)] \/ tmp'[FileOf(q)] \in Seq(LessonsOf(B))),
             Hand(p, B)'
      PROVE  \A q \in Procs : Hand(q, B)'
  <2>1. \A q \in Procs \ {p} : Hand(q, B)'
    BY <1>o, <1>t, HandStays
  <2> QED
    BY <1>o, <2>1
<1>1. CASE ReadHot(p)
  <2>1. Appending(p) /\ UNCHANGED <<fd, hot, tmp>> /\ part[p] = "none"
    BY <1>1 DEF ReadHot, texts
  <2>2. CASE Ended(p, "failed")
    <3>1. /\ todo' \in [Procs -> Seq(B)] /\ Hand(p, B)'
          /\ \A q \in Procs \ {p} : pc'[q] = pc[q] /\ part'[q] = part[q] /\ base'[q] = base[q]
      BY <2>1, <2>2, <1>e
    <3>2. \A q \in Procs : Hand(q, B)'
      BY <2>1, <3>1, <1>o
    <3> QED
      BY <2>1, <3>1, <3>2, <1>d, <1>w, <1>t DEF StoredIn
  <2>3. CASE ~Ended(p, "failed")
    <3>1. /\ pc' = pc /\ todo' = todo /\ part' = [part EXCEPT ![p] = "open"]
          /\ base' = [base EXCEPT ![p] = hot[FileOf(p)]]
      BY <1>1, <2>3 DEF ReadHot
    <3>2. part'[p] = "open" /\ base'[p] = hot[FileOf(p)]
          /\ \A q \in Procs \ {p} : pc'[q] = pc[q] /\ part'[q] = part[q] /\ base'[q] = base[q]
      BY <3>1, <1>t DEF Typed
    <3>3. pc[p] \notin {"truncate", "fill"}
      BY <2>1 DEF Appending
    <3>4. Hand(p, B)'
      BY <3>1, <3>2, <3>3, <1>t DEF Hand
    <3>5. \A q \in Procs : Hand(q, B)'
      BY <2>1, <3>2, <3>4, <1>o
    <3> QED
      BY <2>1, <3>1, <3>5, <1>d, <1>w, <1>t DEF StoredIn
  <2> QED
    BY <2>2, <2>3
<1>2. CASE OpenTmp(p)
  <2>1. /\ UNCHANGED <<pc, base, todo, hot>> /\ part[p] = "open"
        /\ tmp' = [tmp EXCEPT ![FileOf(p)] = <<>>] /\ fd' = [fd EXCEPT ![p] = "tmp"]
        /\ part' = [part EXCEPT ![p] = "fill"]
    BY <1>2 DEF OpenTmp
  <2>2. <<>> \in Seq(LessonsOf(B))
    OBVIOUS
  <2>3. /\ part'[p] = "fill" /\ \A q \in Procs \ {p} : part'[q] = part[q] /\ fd'[q] = fd[q]
        /\ \A f \in Files : tmp'[f] = IF f = FileOf(p) THEN <<>> ELSE tmp[f]
    BY <2>1, <1>t DEF Typed
  <2>4. \A q \in Procs : FileOf(q) \in Files /\ FileOf(q)' = FileOf(q)
    BY <2>1 DEF FileOf, Files
  <2>5. Hand(p, B)'
    BY <2>1, <2>2, <2>3, <2>4, <1>t DEF Hand
  <2>6. \A q \in Procs : Hand(q, B)'
    BY <2>1, <2>2, <2>3, <2>4, <2>5, <1>o
  <2>7. fd' \in [Procs -> {"none", "tmp", "live", "gone"}]
    BY <2>1, <1>t
  <2>8. \A f \in Files : hot'[f] \in Seq(LessonsOf(B)) /\ tmp'[f] \in Seq(LessonsOf(B)) \cup {NoFile}
    BY <2>1, <2>2, <2>3, <1>t
  <2> QED
    BY <2>1, <2>6, <2>7, <2>8, <1>d, <1>t DEF StoredIn
<1>3. CASE FillTmp(p)
  <2> DEFINE f == FileOf(p)
  <2>1. /\ UNCHANGED <<pc, base, todo>> /\ part[p] = "fill"
        /\ tmp' = IF fd[p] = "tmp" THEN [tmp EXCEPT ![f] = Overlay(NewContent(p), tmp[f])] ELSE tmp
        /\ hot' = IF fd[p] = "live" THEN [hot EXCEPT ![f] = Overlay(NewContent(p), hot[f])] ELSE hot
        /\ fd' = [fd EXCEPT ![p] = "none"] /\ part' = [part EXCEPT ![p] = "rename"]
    BY <1>3 DEF FillTmp
  <2>2. base[p] \in Seq(LessonsOf(B)) /\ Appending(p)
    BY <2>1, <1>t DEF Hand, Placed
  <2>3. NewContent(p) \in Seq(LessonsOf(B))
    <3>1. PICK e \in LessonsOf(B) : e = EntryOf(p)
      BY <2>2, AddedOf
    <3> QED
      BY <2>2, <3>1 DEF NewContent
  <2>4. fd[p] = "tmp" => tmp[f] \in Seq(LessonsOf(B))
    BY <2>1, <1>t DEF Hand
  <2>5. /\ fd[p] = "tmp" => Overlay(NewContent(p), tmp[f]) \in Seq(LessonsOf(B))
        /\ fd[p] = "live" => Overlay(NewContent(p), hot[f]) \in Seq(LessonsOf(B))
    BY <2>3, <2>4, <1>t, OverlayOf
  <2>6. /\ \A g \in Files : tmp'[g] = tmp[g] \/ tmp'[g] \in Seq(LessonsOf(B))
        /\ \A g \in Files : hot'[g] = hot[g] \/ hot'[g] \in Seq(LessonsOf(B))
    <3>1. \A g \in Files : tmp'[g] = IF g = f /\ fd[p] = "tmp" THEN Overlay(NewContent(p), tmp[f]) ELSE tmp[g]
      BY <2>1, <1>t DEF Typed
    <3>2. \A g \in Files : hot'[g] = IF g = f /\ fd[p] = "live" THEN Overlay(NewContent(p), hot[f]) ELSE hot[g]
      BY <2>1, <1>t DEF Typed
    <3> QED
      BY <2>5, <3>1, <3>2
  <2>7. /\ part'[p] = "rename" /\ base' = base
        /\ \A q \in Procs \ {p} : part'[q] = part[q] /\ fd'[q] = fd[q]
    BY <2>1, <1>t DEF Typed
  <2>8. \A q \in Procs : FileOf(q) \in Files
    BY DEF FileOf, Files
  <2>9. Hand(p, B)'
    BY <2>1, <2>2, <2>7, <1>t DEF Hand
  <2>10. \A q \in Procs : Hand(q, B)'
    BY <2>1, <2>6, <2>7, <2>8, <2>9, <1>o
  <2>11. fd' \in [Procs -> {"none", "tmp", "live", "gone"}]
    BY <2>1, <1>t
  <2>12. \A g \in Files : hot'[g] \in Seq(LessonsOf(B)) /\ tmp'[g] \in Seq(LessonsOf(B)) \cup {NoFile}
    BY <2>6, <1>t
  <2> QED
    BY <2>1, <2>10, <2>11, <2>12, <1>d, <1>t DEF StoredIn
<1>4. CASE RenameTmp(p)
  <2> DEFINE f == FileOf(p)
  <2>1. Appending(p) /\ part[p] = "rename"
    BY <1>4, <1>t DEF RenameTmp, Placed
  <2>2. CASE tmp[f] = NoFile
    <3>1. Ended(p, "failed") /\ UNCHANGED <<hot, tmp, fd>>
      BY <1>4, <2>2 DEF RenameTmp
    <3>2. /\ todo' \in [Procs -> Seq(B)] /\ Hand(p, B)'
          /\ \A q \in Procs \ {p} : pc'[q] = pc[q] /\ part'[q] = part[q] /\ base'[q] = base[q]
      BY <2>1, <3>1, <1>e
    <3>3. \A q \in Procs : Hand(q, B)'
      BY <3>1, <3>2, <1>o
    <3> QED
      BY <3>1, <3>2, <3>3, <1>d, <1>w, <1>t DEF StoredIn
  <2>3. CASE tmp[f] # NoFile
    <3>1. /\ hot' = [hot EXCEPT ![f] = tmp[f]] /\ tmp' = [tmp EXCEPT ![f] = NoFile]
          /\ fd' = Moved(f) /\ Ended(p, "applied")
      BY <1>4, <2>3 DEF RenameTmp
    <3>2. /\ todo' \in [Procs -> Seq(B)] /\ Hand(p, B)'
          /\ \A q \in Procs \ {p} : pc'[q] = pc[q] /\ part'[q] = part[q] /\ base'[q] = base[q]
      BY <2>1, <3>1, <1>e
    <3>3. \A g \in Files : /\ hot'[g] = IF g = f THEN tmp[f] ELSE hot[g]
                           /\ tmp'[g] = IF g = f THEN NoFile ELSE tmp[g]
      BY <3>1, <1>t DEF Typed
    <3>4. \A g \in Files : hot'[g] \in Seq(LessonsOf(B)) /\ tmp'[g] \in Seq(LessonsOf(B)) \cup {NoFile}
      BY <2>3, <3>3, <1>t
    <3>5. fd' \in [Procs -> {"none", "tmp", "live", "gone"}]
      BY <3>1, <1>t DEF Moved
    <3>6. ASSUME NEW q \in Procs, fd'[q] = "tmp", part[q] = "fill"
          PROVE  fd[q] = "tmp" /\ tmp'[FileOf(q)] = tmp[FileOf(q)]
      <4>1. fd'[q] = IF part[q] = "fill" /\ FileOf(q) = f
                     THEN IF fd[q] = "tmp" THEN "live" ELSE "gone" ELSE fd[q]
        BY <3>1 DEF Moved
      <4>2. FileOf(q) # f /\ fd[q] = "tmp" /\ FileOf(q) \in Files
        BY <3>6, <4>1 DEF FileOf, Files
      <4> QED
        BY <3>3, <4>2
    <3>7. \A q \in Procs : Hand(q, B)'
      BY <3>2, <3>6, <1>o
    <3> QED
      BY <3>2, <3>4, <3>5, <3>7, <1>d DEF StoredIn
  <2> QED
    BY <2>2, <2>3
<1>5. CASE HotFails(p)
  <2>1. Appending(p) /\ Ended(p, "failed") /\ UNCHANGED <<hot, tmp>> /\ fd' = [fd EXCEPT ![p] = "none"]
    BY <1>5, <1>t DEF HotFails, Placed, texts
  <2>2. /\ todo' \in [Procs -> Seq(B)] /\ Hand(p, B)'
        /\ \A q \in Procs \ {p} : pc'[q] = pc[q] /\ part'[q] = part[q] /\ base'[q] = base[q]
    BY <2>1, <1>e
  <2>3. fd' \in [Procs -> {"none", "tmp", "live", "gone"}] /\ \A q \in Procs \ {p} : fd'[q] = fd[q]
    BY <2>1, <1>t
  <2>4. \A q \in Procs : Hand(q, B)'
    BY <2>1, <2>2, <2>3, <1>o
  <2> QED
    BY <2>1, <2>2, <2>3, <2>4, <1>d, <1>w DEF StoredIn
<1>6. CASE ReadDay(p)
  <2>1. /\ UNCHANGED <<part, base, fd, hot, tmp>> /\ todo' = [todo EXCEPT ![p] = Undistilled] /\ pc[p] = "distill"
        /\ pc' = pc \/ pc' = [pc EXCEPT ![p] = Distilled(p)]
    BY <1>6 DEF ReadDay, Goto, texts
  <2>2. Undistilled \in Seq(B)
    BY <1>t, UndistilledOf
  <2>3. todo' \in [Procs -> Seq(B)]
    BY <2>1, <2>2, <1>t
  <2>4. pc'[p] \notin {"truncate", "fill"} /\ \A q \in Procs \ {p} : pc'[q] = pc[q]
    BY <2>1, <1>t, Departing DEF Typed, Steps
  <2>5. part[p] = "none"
    BY <1>6, <1>t DEF ReadDay, Placed, Appending
  <2>6. Hand(p, B)'
    BY <2>1, <2>4, <2>5, <1>t DEF Hand
  <2>7. \A q \in Procs : Hand(q, B)'
    BY <2>1, <2>4, <2>6, <1>o
  <2> QED
    BY <2>1, <2>3, <2>7, <1>d, <1>w, <1>t DEF StoredIn
<1>7. CASE StartDistill(p)
  <2>1. /\ UNCHANGED <<part, base, todo, fd, hot, tmp>> /\ pc[p] = "idle" /\ pc' = [pc EXCEPT ![p] = "distill"]
    BY <1>7 DEF StartDistill, Goto, locals, texts
  <2>2. pc'[p] = "distill" /\ \A q \in Procs \ {p} : pc'[q] = pc[q]
    BY <2>1, <1>t DEF Typed
  <2>3. part[p] = "none"
    BY <2>1, <1>t DEF Placed, Appending
  <2>4. Hand(p, B)'
    BY <2>1, <2>2, <2>3, <1>t DEF Hand
  <2>5. \A q \in Procs : Hand(q, B)'
    BY <2>1, <2>2, <2>4, <1>o
  <2> QED
    BY <2>1, <2>5, <1>d, <1>w, <1>t DEF StoredIn
<1>8. CASE Crash(p)
  <2>1. /\ UNCHANGED <<hot, tmp>> /\ pc' = [pc EXCEPT ![p] = "dead"] /\ part' = [part EXCEPT ![p] = "none"]
        /\ fd' = [fd EXCEPT ![p] = "none"] /\ base' = [base EXCEPT ![p] = <<>>] /\ todo' = [todo EXCEPT ![p] = <<>>]
    BY <1>8 DEF Crash, Goto, texts
  <2>2. /\ part'[p] = "none" /\ base'[p] = <<>>
        /\ \A q \in Procs \ {p} : pc'[q] = pc[q] /\ part'[q] = part[q] /\ base'[q] = base[q] /\ fd'[q] = fd[q]
    BY <2>1, <1>t DEF Typed
  <2>3. Hand(p, B)'
    BY <2>2, HandEmpty
  <2>4. \A q \in Procs : Hand(q, B)'
    BY <2>1, <2>2, <2>3, <1>o
  <2>5. fd' \in [Procs -> {"none", "tmp", "live", "gone"}]
    BY <2>1, <1>t
  <2>6. todo' \in [Procs -> Seq(B)]
    <3>1. <<>> \in Seq(B)
      OBVIOUS
    <3> QED
      BY <2>1, <3>1, <1>t
  <2> QED
    BY <2>1, <2>4, <2>5, <2>6, <1>d, <1>w DEF StoredIn
<1> QED
  BY <1>1, <1>2, <1>3, <1>4, <1>5, <1>6, <1>7, <1>8 DEF Write

\* A turn that is past the archive stays there, under its number.
LEMMA Forward ==
  ASSUME Framed, Course, [Next]_vars, NEW t \in Turns, Started(t)
  PROVE  Started(t)' /\ seq'[t] = seq[t]
<1>1. CourseOf(t)
  BY DEF Course
<1>2. seq'[t] = seq[t]
  <2>1. ASSUME NEW u \in Turns, pc[u] = "archive", seq' = [seq EXCEPT ![u] = Len(archive[asked[u].session]) + 1]
        PROVE  seq'[t] = seq[t]
    <3>1. u # t
      BY <2>1 DEF Started
    <3> QED
      BY <2>1, <3>1 DEF Framed, Typed
  <2> QED
    BY <2>1, Archiving
<1> QED
  BY <1>1, <1>2, NoReturn

\* What a turn leaves behind comes after the archive.
Stored == \E B \in SUBSET Behind : StoredIn(B)

\* Whatever a process does, only turns that are past the archive leave things
\* behind.
LEMMA StoredStep == Framed /\ Course /\ Stored /\ [Next]_vars => Stored'
<1> SUFFICES ASSUME Framed, Course, Stored, [Next]_vars PROVE Stored'
  OBVIOUS
<1>1. PICK A \in SUBSET Behind : StoredIn(A)
  BY DEF Stored
<1>2. PICK B : B = Behind
  OBVIOUS
<1>3. A \subseteq B /\ B \subseteq Turns
  BY <1>1, <1>2 DEF Behind
<1>4. StoredIn(B)
  BY <1>1, <1>3, StoredMore
<1>5. \A t \in Turns : t \in B \/ pc[t] \in {"idle", "prepare", "archive", "replay", "summary"} \cup Ends
  <2>1. TAKE t \in Turns
  <2>2. CourseOf(t)
    BY DEF Course
  <2> QED
    BY <1>2, <2>2 DEF Behind, CourseOf, Started, Ends
<1>6. StoredIn(B)'
  <2>1. ASSUME NEW t \in Turns, Turn(t) PROVE StoredIn(B)'
    <3>1. pc[t] \notin Ends
      BY <2>1 DEF Turn, Remember, Prepare, Archive, Replay, Summarise, DecideDiary, DiaryFails, ReadDiary,
                TruncateDiary, FillDiary, BuildSpawner, Spawn, DispatchFails, Ends
    <3> QED
      BY <1>4, <1>5, <2>1, <3>1, StoredTurn
  <2>2. ASSUME NEW p \in Procs, Write(p) \/ Crash(p) \/ StartDistill(p) PROVE StoredIn(B)'
    <3>1. p \in Turns /\ pc[p] \in {"identity", "experience"} => p \in B
      BY <1>5 DEF Ends
    <3> QED
      BY <1>3, <1>4, <2>2, <3>1, StoredWrite
  <2>3. CASE UNCHANGED vars
    <3>1. \A p \in Procs : Hand(p, B)'
      BY <1>4, <2>3, HandStays DEF vars, StoredIn
    <3> QED
      BY <1>4, <2>3, <3>1 DEF vars, StoredIn
  <2> QED
    BY <2>1, <2>2, <2>3 DEF Next, Procs
<1>7. B \subseteq Behind'
  <2>1. SUFFICES ASSUME NEW t \in B PROVE t \in Behind'
    OBVIOUS
  <2>2. t \in Turns /\ Started(t) /\ ("archive" \in asked[t].steps => seq[t] > 0) /\ asked' = asked
    BY <1>2, Owners DEF Behind
  <2>3. Started(t)' /\ seq'[t] = seq[t]
    BY <2>2, Forward
  <2> QED
    BY <2>2, <2>3 DEF Behind
<1> QED
  BY <1>6, <1>7 DEF Stored

\* The rest of the types.
Tallied ==
  /\ kept \subseteq Turns /\ faults \in 0 .. MaxFaults /\ hurt \subseteq Stores
  /\ base = [p \in Procs |-> base[p]]
  /\ hot = [f \in Files |-> hot[f]] /\ tmp = [f \in Files |-> tmp[f]]

\* Whatever a process does, the rest of the types stays.
LEMMA TalliedStep == Framed /\ Tallied /\ [Next]_vars => Tallied'
<1> SUFFICES ASSUME Framed, Tallied, [Next]_vars PROVE Tallied'
  OBVIOUS
<1>t. Typed /\ MaxFaults \in Nat /\ \A t \in Turns : asked[t].session \in Sessions
  BY TurnRecordsAssumption DEF Framed, Typed
<1>1. faults' = faults \/ Fault
  BY DEF Next, vars, Turn, Write, Remember, Prepare, Archive, Replay, Summarise, DecideDiary, DiaryFails,
         ReadDiary, TruncateDiary, FillDiary, BuildSpawner, Spawn, DispatchFails, ReadHot, OpenTmp, FillTmp,
         RenameTmp, HotFails, ReadDay, StartDistill, Crash
<1>2. faults' \in 0 .. MaxFaults
  BY <1>1, <1>t DEF Tallied, Fault
<1>3. kept' = kept \/ \E t \in Turns : kept' = kept \cup {t}
  BY DEF Next, vars, Turn, Write, Remember, Prepare, Archive, Replay, Summarise, DecideDiary, DiaryFails,
         ReadDiary, TruncateDiary, FillDiary, BuildSpawner, Spawn, DispatchFails, ReadHot, OpenTmp, FillTmp,
         RenameTmp, HotFails, ReadDay, StartDistill, Crash, tables
<1>4. hurt' \subseteq Stores
  <2>1. ASSUME NEW p, NEW s \in Stores, Enter(p, s) PROVE hurt' \subseteq Stores
    BY <2>1 DEF Enter, Tallied
  <2>2. "diary" \in Stores /\ "queue" \in Stores /\ \A p : FileOf(p) \in Stores
    BY DEF Stores, FileOf, Files
  <2>3. \A t \in Turns : asked[t].session \in Stores
    BY <1>t DEF Stores
  <2>4. \/ hurt' = hurt \/ hurt' = hurt \cup {"diary"}
        \/ \E p \in Procs : \E s \in {"diary", "queue", FileOf(p)} : Enter(p, s)
        \/ \E t \in Turns : Enter(t, asked[t].session)
    <3>1. CASE \E t \in Turns : Turn(t)
      <4>1. PICK t \in Turns : Turn(t) /\ t \in Procs
        BY <3>1 DEF Procs
      <4> QED
        BY <4>1 DEF Turn, Remember, Prepare, Archive, Replay, Summarise, DecideDiary, DiaryFails,
             ReadDiary, TruncateDiary, FillDiary, BuildSpawner, Spawn, DispatchFails
    <3>2. CASE \E p \in Procs : Write(p) \/ Crash(p) \/ StartDistill(p)
      BY <3>2 DEF Write, ReadHot, OpenTmp, FillTmp, RenameTmp, HotFails, ReadDay, StartDistill, Crash
    <3>3. CASE UNCHANGED vars
      BY <3>3 DEF vars
    <3> QED
      BY <3>1, <3>2, <3>3 DEF Next, Procs
  <2> QED
    BY <2>1, <2>2, <2>3, <2>4 DEF Tallied
<1>5. base' = base \/ \E p, x : base' = [base EXCEPT ![p] = x]
  BY DEF Next, vars, Turn, Write, Remember, Prepare, Archive, Replay, Summarise, DecideDiary, DiaryFails,
         ReadDiary, TruncateDiary, FillDiary, BuildSpawner, Spawn, DispatchFails, ReadHot, OpenTmp, FillTmp,
         RenameTmp, HotFails, ReadDay, StartDistill, Crash, Ended, locals
<1>6. /\ hot' = hot \/ \E f, x : hot' = [hot EXCEPT ![f] = x]
      /\ tmp' = tmp \/ \E f, x : tmp' = [tmp EXCEPT ![f] = x]
  <2>1. UNCHANGED <<hot, tmp>> \/ \E p \in Procs : OpenTmp(p) \/ FillTmp(p) \/ RenameTmp(p)
    BY Owners
  <2> QED
    BY <2>1 DEF OpenTmp, FillTmp, RenameTmp
<1>7. base' = [p \in Procs |-> base'[p]]
  BY <1>5 DEF Tallied
<1>8. hot' = [f \in Files |-> hot'[f]] /\ tmp' = [f \in Files |-> tmp'[f]]
  BY <1>6 DEF Tallied
<1> QED
  BY <1>2, <1>3, <1>4, <1>7, <1>8 DEF Tallied

Kept == Framed /\ Course /\ Stored /\ Tallied

\* The first state has the types, the course and the stores that the proofs
\* below need.
LEMMA KeptInit == Init => Kept
<1> SUFFICES ASSUME Init PROVE Kept
  OBVIOUS
<1>1. Stored
  <2>1. StoredIn({}) /\ {} \in SUBSET Behind
    BY StoredInit
  <2> QED
    BY <2>1 DEF Stored
<1>2. Tallied
  BY TurnRecordsAssumption DEF Init, Tallied
<1> QED
  BY <1>1, <1>2, FramedInit, CourseInit DEF Kept

\* Whatever a process does, it keeps them.
LEMMA KeptStep == Kept /\ [Next]_vars => Kept'
  BY FramedStep, CourseStep, StoredStep, TalliedStep DEF Kept

\* The files have entries of turns, so every variable is of its type.
LEMMA KeptTypes == Kept => TypeOK
<1> SUFFICES ASSUME Kept PROVE TypeOK
  OBVIOUS
<1>1. PICK B \in SUBSET Behind : StoredIn(B)
  BY DEF Kept, Stored
<1>2. PICK E : E = LessonsOf(B)
  OBVIOUS
<1>3. B \subseteq Turns /\ E \subseteq Entries
  BY <1>1, <1>2 DEF Behind, LessonsOf, Entries
<1>4. Seq(B) \subseteq Seq(Turns) /\ Seq(E) \subseteq Seq(Entries)
  BY <1>3, ListOf
<1>5. Seq(B) \subseteq Seq(Turns \cup Entries) /\ Seq(E) \subseteq Seq(Turns \cup Entries)
  BY <1>3, ListOf
<1>6. Typed /\ Tallied
  BY DEF Kept, Framed
<1>7. /\ diary \in Seq(Turns) /\ dispatches \in Seq(Turns) /\ todo \in [Procs -> Seq(Turns)]
      /\ fd \in [Procs -> {"none", "tmp", "live", "gone"}]
  BY <1>1, <1>4 DEF StoredIn
<1>8. \A p \in Procs : base[p] \in Seq(Turns \cup Entries)
  BY <1>1, <1>2, <1>5 DEF StoredIn, Hand
<1>9. \A f \in Files : hot[f] \in Seq(Entries) /\ tmp[f] \in Seq(Entries) \cup {NoFile}
  BY <1>1, <1>2, <1>4 DEF StoredIn
<1>10. base \in [Procs -> Seq(Turns \cup Entries)]
  BY <1>6, <1>8 DEF Tallied
<1>11. hot \in [Files -> Seq(Entries)] /\ tmp \in [Files -> Seq(Entries) \cup {NoFile}]
  BY <1>6, <1>9 DEF Tallied
<1> QED
  BY <1>6, <1>7, <1>10, <1>11 DEF TypeOK, Typed, Tallied, PCs, Results, Stores

\* A turn leaves nothing behind but its record before it is in the archive of its
\* session, wherever it or another process dies.
THEOREM TheArchiveComesFirst == Spec => []ArchiveComesFirst
<1>1. Kept => ArchiveComesFirst
  <2> SUFFICES ASSUME Kept, NEW t \in Turns, "archive" \in asked[t].steps,
                      \A i \in DOMAIN archive[asked[t].session] : archive[asked[t].session][i] # t
               PROVE  /\ t \notin ToSet(diary) \cup ToSet(dispatches)
                      /\ \A f \in Files : \A e \in ToSet(hot[f]) : e.of # t
    BY DEF ArchiveComesFirst
  <2>1. PICK B \in SUBSET Behind : StoredIn(B)
    BY DEF Kept, Stored
  <2>2. t \notin B
    <3>1. ~(seq[t] > 0)
      BY DEF Course, Kept, Numbered
    <3> QED
      BY <2>1, <3>1 DEF Behind
  <2>3. \A X : \A q \in Seq(X) : ToSet(q) \subseteq X
    BY DEF ToSet
  <2>4. ToSet(diary) \subseteq B /\ ToSet(dispatches) \subseteq B
    BY <2>1, <2>3 DEF StoredIn
  <2>5. \A f \in Files : ToSet(hot[f]) \subseteq LessonsOf(B)
    BY <2>1, <2>3 DEF StoredIn
  <2> QED
    BY <2>2, <2>4, <2>5 DEF LessonsOf
<1> QED
  BY <1>1, KeptInit, KeptStep, PTL DEF Spec

--------------------------------------------------------------------------------
(* No lesson is repeated *)

\* No two entries have one id.
Distinct(q) == \A i, j \in DOMAIN q : q[i].id = q[j].id => i = j

\* An entry with a new id keeps the ids apart.
LEMMA AppendDistinct ==
  ASSUME NEW q, Listlike(q), Distinct(q), NEW e, e.id \notin Ids(q)
  PROVE  Distinct(Append(q, e))
<1>1. q \in Seq(ToSet(q)) /\ Len(q) \in Nat /\ DOMAIN q = 1 .. Len(q)
  BY DEF Listlike
<1>2. \A i \in 1 .. Len(q) : q[i] \in ToSet(q)
  BY <1>1 DEF ToSet
<1>3. \A i \in 1 .. Len(q) : q[i].id \in Ids(q)
  BY <1>2 DEF Ids
<1>4. PICK r : r = Append(q, e)
  OBVIOUS
<1>5. DOMAIN r = 1 .. Len(q) + 1 /\ r[Len(q) + 1] = e /\ \A i \in 1 .. Len(q) : r[i] = q[i]
  <2>1. q \in Seq(ToSet(q) \cup {e}) /\ e \in ToSet(q) \cup {e}
    BY <1>1, ListOf
  <2> QED
    BY <1>1, <1>4, <2>1
<1>6. ASSUME NEW i \in DOMAIN r, NEW j \in DOMAIN r, r[i].id = r[j].id PROVE i = j
  <2>1. CASE i \in 1 .. Len(q) /\ j \in 1 .. Len(q)
    BY <1>1, <1>5, <1>6, <2>1 DEF Distinct
  <2>2. CASE i \in 1 .. Len(q) /\ j = Len(q) + 1
    BY <1>3, <1>5, <1>6, <2>2
  <2>3. CASE i = Len(q) + 1 /\ j \in 1 .. Len(q)
    BY <1>3, <1>5, <1>6, <2>3
  <2>4. CASE i = Len(q) + 1 /\ j = Len(q) + 1
    BY <2>4
  <2> QED
    BY <1>1, <1>5, <2>1, <2>2, <2>3, <2>4
<1> QED
  BY <1>4, <1>6 DEF Distinct

\* While a process writes, what it has to distill stays.
LEMMA TodoStays ==
  ASSUME Framed, [Next]_vars, NEW p \in Procs, part'[p] # "none"
  PROVE  todo'[p] = todo[p]
<1>t. Typed /\ Placed
  BY DEF Framed
<1>1. CASE \E t \in Turns : Turn(t)
  BY <1>1 DEF Turn, Remember, Prepare, Archive, Replay, Summarise, DecideDiary, DiaryFails, ReadDiary,
              TruncateDiary, FillDiary, BuildSpawner, Spawn, DispatchFails, locals
<1>2. CASE \E q \in Procs : Write(q) \/ Crash(q) \/ StartDistill(q)
  <2>1. PICK q \in Procs : Write(q) \/ Crash(q) \/ StartDistill(q)
    BY <1>2
  <2>2. \/ todo' = todo
        \/ /\ \E x : todo' = [todo EXCEPT ![q] = x]
           /\ part' = [part EXCEPT ![q] = "none"] \/ (part' = part /\ ~Appending(q))
    BY <2>1 DEF Write, ReadHot, OpenTmp, FillTmp, RenameTmp, HotFails, ReadDay, StartDistill, Crash, Ended,
                locals, Appending
  <2>3. CASE part' = [part EXCEPT ![q] = "none"]
    BY <2>2, <2>3, <1>t DEF Typed
  <2>4. CASE part' = part /\ ~Appending(q)
    BY <2>2, <2>4, <1>t DEF Typed, Placed
  <2> QED
    BY <2>2, <2>3, <2>4
<1>3. CASE UNCHANGED vars
  BY <1>3 DEF vars
<1> QED
  BY <1>1, <1>2, <1>3 DEF Next, Procs

\* While a process writes, it is about the same entry.
LEMMA AddedStays ==
  ASSUME Kept, Kept', [Next]_vars, NEW p \in Procs, part'[p] # "none"
  PROVE  pc'[p] = pc[p] /\ EntryOf(p)' = EntryOf(p) /\ FileOf(p)' = FileOf(p)
<1>t. Framed /\ Framed' /\ Course /\ Placed' /\ Typed'
  BY DEF Kept, Framed
<1>1. pc'[p] = pc[p]
  <2>1. CASE OpenTmp(p) \/ FillTmp(p)
    BY <2>1 DEF OpenTmp, FillTmp
  <2>2. CASE ~(OpenTmp(p) \/ FillTmp(p))
    BY <2>2, <1>t, Untouched
  <2> QED
    BY <2>1, <2>2
<1>2. todo'[p] = todo[p]
  BY <1>t, TodoStays
<1>3. pc[p] = "distill" => seq'[Head(todo[p])] = seq[Head(todo[p])]
  <2>1. SUFFICES ASSUME pc[p] = "distill" PROVE seq'[Head(todo[p])] = seq[Head(todo[p])]
    OBVIOUS
  <2>2. todo[p] # <<>>
    BY <1>1, <1>2, <1>t, <2>1 DEF Placed, Appending
  <2>3. PICK B \in SUBSET Behind : StoredIn(B)
    BY DEF Kept, Stored
  <2>4. todo[p] \in Seq(B)
    BY <2>3 DEF StoredIn
  <2>5. Head(todo[p]) \in B
    BY <2>2, <2>4
  <2>6. Head(todo[p]) \in Turns /\ Started(Head(todo[p]))
    BY <2>3, <2>5 DEF Behind
  <2>7. PICK t \in Turns : t = Head(todo[p])
    BY <2>6
  <2> QED
    BY <1>t, <2>6, <2>7, Forward
<1>4. EntryOf(p)' = IF pc'[p] = "distill" THEN [id |-> seq'[Head(todo'[p])], of |-> Head(todo'[p])]
                                          ELSE [id |-> p, of |-> p]
  BY DEF EntryOf
<1>5. EntryOf(p)' = EntryOf(p)
  BY <1>1, <1>2, <1>3, <1>4 DEF EntryOf
<1> QED
  BY <1>1, <1>5 DEF FileOf

\* What a process adds to the lessons is not there yet.
Adds(p) ==
  /\ EntryOf(p).id \notin Ids(hot["experiences"])
  /\ part[p] = "rename" => tmp["experiences"] = Append(hot["experiences"], EntryOf(p))

Unrepeated ==
  "experiences" \notin hurt =>
    /\ Distinct(hot["experiences"])
    /\ \A p \in Procs : Writing(p, "experiences") => Adds(p)

\* At first there are no lessons.
LEMMA UnrepeatedInit == Init => Unrepeated
  BY DEF Init, Unrepeated, Distinct, Writing, Files

\* Whatever a process does, no lesson is filed twice: a writer has looked at the
\* file that nobody else was changing.
LEMMA UnrepeatedStep == Kept /\ Kept' /\ Excl /\ Filed /\ Unrepeated /\ [Next]_vars => Unrepeated'
<1> DEFINE f == "experiences"
<1> SUFFICES ASSUME Kept, Kept', Excl, Filed, Unrepeated, [Next]_vars, f \notin hurt'
             PROVE  Distinct(hot'[f]) /\ \A p \in Procs : Writing(p, f)' => Adds(p)'
  BY DEF Unrepeated, Distinct, Writing
<1>t. /\ Framed /\ Typed /\ Placed /\ f \in Files \ hurt /\ Written(f)
      /\ Distinct(hot[f]) /\ \A p \in Procs : Writing(p, f) => Adds(p)
  <2>1. Framed /\ Typed /\ Placed /\ f \in Files
    BY DEF Kept, Framed, Files
  <2>2. f \notin hurt
    BY Owners
  <2>3. Written(f)
    BY <2>1, <2>2 DEF Filed
  <2> QED
    BY <2>1, <2>2, <2>3 DEF Unrepeated
<1>w. ASSUME NEW p \in Procs, Writing(p, f)'
      PROVE  /\ part'[p] # "none" /\ FileOf(p) = f /\ pc'[p] = pc[p]
             /\ EntryOf(p)' = EntryOf(p)
  BY <1>w, AddedStays DEF Writing
<1>a. ASSUME NEW p \in Procs, Writing(p, f)', hot'[f] = hot[f], EntryOf(p).id \notin Ids(hot[f]),
             part'[p] = "rename" => tmp'[f] = Append(hot[f], EntryOf(p))
      PROVE  Adds(p)'
  <2>1. EntryOf(p)' = EntryOf(p)
    BY <1>a, <1>w
  <2>2. Ids(hot["experiences"])' = Ids(hot[f])
    BY <1>a DEF Ids
  <2> QED
    BY <1>a, <2>1, <2>2 DEF Adds
\* A process that goes on where nothing is changed.
<1>q. ASSUME NEW p \in Procs, Writing(p, f)', ~OpenTmp(p), ~FillTmp(p), hot'[f] = hot[f], tmp'[f] = tmp[f]
      PROVE  Adds(p)'
  <2>1. part'[p] # "none" /\ FileOf(p) = f
    BY <1>q, <1>w
  <2>2. CASE ReadHot(p) /\ part'[p] = "open"
    <3>1. EntryOf(p).id \notin Ids(hot[f])
      <4>1. CASE EntryOf(p).id \in Ids(hot[f])
        <5>1. Ended(p, "failed") /\ Appending(p)
          BY <2>1, <2>2, <4>1 DEF ReadHot
        <5>2. part'[p] = "none"
          BY <5>1, <1>t, Ending DEF Typed
        <5> QED
          BY <2>2, <5>2
      <4> QED
        BY <4>1
    <3> QED
      BY <1>q, <2>2, <3>1, <1>a
  <2>3. CASE part'[p] = part[p]
    <3>1. Writing(p, f)
      BY <2>1, <2>3 DEF Writing
    <3>2. Adds(p)
      BY <3>1, <1>t
    <3> QED
      BY <1>q, <2>3, <3>2, <1>a DEF Adds
  <2> QED
    BY <1>q, <1>t, <2>1, <2>2, <2>3, Untouched
<1>1. ASSUME NEW p \in Procs, OpenTmp(p)
      PROVE  Distinct(hot'[f]) /\ \A q \in Procs : Writing(q, f)' => Adds(q)'
  <2>1. /\ part[p] = "open" /\ part' = [part EXCEPT ![p] = "fill"] /\ hot' = hot
        /\ tmp' = [tmp EXCEPT ![FileOf(p)] = <<>>]
    BY <1>1 DEF OpenTmp
  <2>2. ASSUME NEW q \in Procs, Writing(q, f)' PROVE Adds(q)'
    <3>1. FileOf(q) = f /\ part'[q] # "none"
      BY <2>2, <1>w
    <3>2. Writing(q, f) /\ (q # p => part'[q] = part[q])
      BY <2>1, <3>1, <1>t DEF Writing, Typed
    <3>3. Adds(q)
      BY <3>2, <1>t
    <3>4. CASE q = p
      BY <2>1, <2>2, <3>3, <3>4, <1>a, <1>t DEF Adds, Typed
    <3>5. CASE q # p
      <4>1. FileOf(p) # f
        BY <2>1, <3>2, <3>5, <1>t, Sole DEF Writing
      <4>2. tmp'[f] = tmp[f]
        BY <2>1, <4>1, <1>t DEF Typed
      <4> QED
        BY <2>1, <2>2, <3>2, <3>3, <3>5, <4>2, <1>a DEF Adds
    <3> QED
      BY <3>4, <3>5
  <2> QED
    BY <2>1, <2>2, <1>t
<1>2. ASSUME NEW p \in Procs, FillTmp(p)
      PROVE  Distinct(hot'[f]) /\ \A q \in Procs : Writing(q, f)' => Adds(q)'
  <2>1. /\ part[p] = "fill" /\ part' = [part EXCEPT ![p] = "rename"]
        /\ tmp' = IF fd[p] = "tmp" THEN [tmp EXCEPT ![FileOf(p)] = Overlay(NewContent(p), tmp[FileOf(p)])] ELSE tmp
        /\ hot' = IF fd[p] = "live" THEN [hot EXCEPT ![FileOf(p)] = Overlay(NewContent(p), hot[FileOf(p)])] ELSE hot
    BY <1>2 DEF FillTmp
  <2>2. CASE FileOf(p) = f
    <3>1. Writing(p, f)
      BY <2>1, <2>2 DEF Writing
    <3>2. base[p] = hot[f] /\ fd[p] = "tmp" /\ tmp[f] = <<>> /\ Listlike(hot[f])
      BY <2>1, <3>1, <1>t DEF Written
    <3>3. Listlike(NewContent(p)) /\ NewContent(p) = Append(hot[f], EntryOf(p))
      BY <3>2, AppendList DEF NewContent
    <3>4. hot' = hot /\ tmp'[f] = Append(hot[f], EntryOf(p))
      <4>1. Overlay(NewContent(p), <<>>) = NewContent(p)
        BY <3>3, FillEmpty
      <4> QED
        BY <2>1, <2>2, <3>2, <3>3, <4>1, <1>t DEF Typed
    <3>5. ASSUME NEW q \in Procs, Writing(q, f)' PROVE Adds(q)'
      <4>1. q = p
        <5>1. part'[q] # "none" /\ FileOf(q) = f
          BY <3>5, <1>w
        <5>2. Writing(q, f)
          BY <2>1, <5>1, <1>t DEF Writing, Typed
        <5> QED
          BY <3>1, <5>2, <1>t, Sole
      <4>2. EntryOf(q).id \notin Ids(hot[f])
        BY <3>1, <4>1, <1>t DEF Adds
      <4> QED
        BY <3>4, <3>5, <4>1, <4>2, <1>a
    <3> QED
      BY <3>4, <3>5, <1>t
  <2>3. CASE FileOf(p) # f
    <3>1. hot'[f] = hot[f] /\ tmp'[f] = tmp[f]
      BY <2>1, <2>3, <1>t DEF Typed
    <3>2. ASSUME NEW q \in Procs, Writing(q, f)' PROVE Adds(q)'
      <4>1. part'[q] # "none" /\ FileOf(q) = f
        BY <3>2, <1>w
      <4>2. q # p /\ part'[q] = part[q]
        BY <2>1, <2>3, <4>1, <1>t DEF Typed
      <4>3. Adds(q)
        BY <4>1, <4>2, <1>t DEF Writing
      <4> QED
        BY <3>1, <3>2, <4>2, <4>3, <1>a DEF Adds
    <3> QED
      BY <3>1, <3>2, <1>t
  <2> QED
    BY <2>2, <2>3
<1>3. ASSUME NEW p \in Procs, RenameTmp(p)
      PROVE  Distinct(hot'[f]) /\ \A q \in Procs : Writing(q, f)' => Adds(q)'
  <2>1. part[p] = "rename" /\ Appending(p)
    BY <1>3, <1>t DEF RenameTmp, Placed
  <2>2. PICK result \in {"applied", "failed"} : Ended(p, result)
    BY <1>3 DEF RenameTmp
  <2>3. part' = [part EXCEPT ![p] = "none"]
    BY <2>1, <2>2, <1>t, Ending
  <2>4. \A q \in Procs : part'[q] = IF q = p THEN "none" ELSE part[q]
    BY <2>3, <1>t DEF Typed
  <2>5. CASE FileOf(p) = f /\ hot'[f] = tmp[f]
    <3>1. Writing(p, f)
      BY <2>1, <2>5 DEF Writing
    <3>2. Adds(p)
      BY <3>1, <1>t
    <3>3. hot'[f] = Append(hot[f], EntryOf(p)) /\ EntryOf(p).id \notin Ids(hot[f])
      BY <2>1, <2>5, <3>2 DEF Adds
    <3>4. Distinct(hot'[f])
      <4>1. Listlike(hot[f])
        BY <1>t DEF Written
      <4>2. PICK c, e : c = hot[f] /\ e = EntryOf(p)
        OBVIOUS
      <4>3. Distinct(Append(c, e))
        BY <3>3, <4>1, <4>2, <1>t, AppendDistinct
      <4> QED
        BY <3>3, <4>2, <4>3
    <3>5. ASSUME NEW q \in Procs, Writing(q, f)' PROVE FALSE
      <4>1. part'[q] # "none" /\ FileOf(q) = f
        BY <3>5, <1>w
      <4>2. q # p /\ Writing(q, f)
        BY <2>4, <4>1 DEF Writing
      <4> QED
        BY <3>1, <4>2, <1>t, Sole
    <3> QED
      BY <3>4, <3>5
  <2>6. CASE hot'[f] = hot[f] /\ tmp'[f] = tmp[f]
    <3>1. ASSUME NEW q \in Procs, Writing(q, f)' PROVE Adds(q)'
      <4>1. part'[q] # "none" /\ FileOf(q) = f
        BY <3>1, <1>w
      <4>2. part'[q] = part[q] /\ Writing(q, f)
        BY <2>4, <4>1 DEF Writing
      <4> QED
        BY <2>6, <3>1, <4>2, <1>a, <1>t DEF Adds
    <3> QED
      BY <2>6, <3>1, <1>t
  <2>7. \/ hot' = hot /\ tmp' = tmp
        \/ hot' = [hot EXCEPT ![FileOf(p)] = tmp[FileOf(p)]] /\ tmp' = [tmp EXCEPT ![FileOf(p)] = NoFile]
    BY <1>3 DEF RenameTmp
  <2> QED
    BY <2>5, <2>6, <2>7, <1>t DEF Typed
<1>4. ASSUME \A p \in Procs : ~OpenTmp(p) /\ ~FillTmp(p) /\ ~RenameTmp(p)
      PROVE  Distinct(hot'[f]) /\ \A q \in Procs : Writing(q, f)' => Adds(q)'
  <2>1. hot' = hot /\ tmp' = tmp
    BY <1>4, Owners
  <2> QED
    BY <1>4, <2>1, <1>q, <1>t
<1> QED
  BY <1>1, <1>2, <1>3, <1>4

\* Every variable keeps its type, and distilling the same day again repeats no lesson.
THEOREM LessonsAreNotRepeated == Spec => []RecordsWellFormed
<1>1. Init => Kept /\ Excl /\ Filed /\ Unrepeated
  BY KeptInit, ExclInit, FiledInit, UnrepeatedInit
<1>2. Kept /\ Excl /\ Filed /\ Unrepeated /\ [Next]_vars => Kept' /\ Excl' /\ Filed' /\ Unrepeated'
  BY KeptStep, ExclStep, FiledStep, UnrepeatedStep DEF Kept
<1>3. Kept /\ Unrepeated => RecordsWellFormed
  BY KeptTypes DEF Unrepeated, Distinct, RecordsWellFormed, DistilledOnce
<1> QED
  BY <1>1, <1>2, <1>3, PTL DEF Spec

--------------------------------------------------------------------------------
(* The diary keeps up *)

\* Only the decision about the diary lets a turn pass by it.
LEMMA Skips ==
  ASSUME Framed, [Next]_vars, NEW t \in Turns, status'[t]["diary"] = "skipped", status[t]["diary"] # "skipped"
  PROVE  /\ pc[t] = "diary" /\ ~Due(t) /\ UNCHANGED <<diary, base, seq>>
         /\ pc' = [pc EXCEPT ![t] = pc'[t]] /\ pc'[t] \notin {"truncate", "fill"}
<1>t. Typed /\ Placed /\ t \in Procs
  BY DEF Framed, Procs
<1>r. {"applied", "failed", "skipped"} \subseteq Results /\ {"archive", "diary", "dispatch"} \subseteq Steps
  BY DEF Results, Steps
<1>m. ASSUME NEW u \in Turns, NEW s \in Steps, NEW result \in Results, Mark(u, s, result)
      PROVE  u = t /\ result = "skipped"
  <2>1. status' = [status EXCEPT ![u] = [status[u] EXCEPT ![s] = result]]
    BY <1>m, Marking
  <2> QED
    BY <2>1, <1>t, <1>r DEF Typed
<1>1. CASE \E u \in Turns : Turn(u)
  <2>1. PICK u \in Turns : Turn(u)
    BY <1>1
  <2>2. CASE Remember(u) \/ Archive(u) \/ Replay(u) \/ ReadDiary(u) \/ TruncateDiary(u) \/ BuildSpawner(u)
    BY <2>2 DEF Remember, Archive, Replay, ReadDiary, TruncateDiary, BuildSpawner
  <2>3. CASE Prepare(u)
    <3>1. PICK refused \in SUBSET Steps :
            LET st == [s \in Steps |-> IF s \in refused THEN "failed" ELSE status[u][s]]
            IN status' = [status EXCEPT ![u] = st]
      BY <2>3 DEF Prepare, Steps
    <3>2. status'[t]["diary"] \in {"failed", status[t]["diary"]}
      <4>1. CASE u = t
        BY <3>1, <4>1, <1>t, <1>r DEF Typed
      <4>2. CASE u # t
        BY <3>1, <4>2, <1>t DEF Typed
      <4> QED
        BY <4>1, <4>2
    <3> QED
      BY <3>2
  <2>4. CASE Summarise(u) \/ DiaryFails(u) \/ Spawn(u) \/ DispatchFails(u)
    <3>1. \E s \in {"archive", "diary", "dispatch"}, result \in {"applied", "failed"} : Mark(u, s, result)
      BY <2>4 DEF Summarise, DiaryFails, Spawn, DispatchFails
    <3> QED
      BY <3>1, <1>m, <1>r
  <2>5. CASE FillDiary(u)
    <3>1. CASE Mark(u, "diary", "applied")
      BY <3>1, <1>m, <1>r
    <3>2. CASE status' = [status EXCEPT ![u].diary = "applied"]
      BY <3>2, <1>t, <1>r DEF Typed
    <3> QED
      BY <2>5, <3>1, <3>2 DEF FillDiary
  <2>6. CASE DecideDiary(u)
    <3>1. ~Due(u) /\ Mark(u, "diary", "skipped")
      BY <2>6 DEF DecideDiary
    <3>2. u = t
      BY <3>1, <1>m, <1>r
    <3>3. pc' = [pc EXCEPT ![t] = pc'[t]] /\ pc'[t] \in Steps \cup {"done", "error", "append", "distill"}
      BY <2>6, <3>2, Rests
    <3> QED
      BY <2>6, <3>1, <3>2, <3>3 DEF DecideDiary, locals, texts, Steps
  <2> QED
    BY <2>1, <2>2, <2>3, <2>4, <2>5, <2>6 DEF Turn
<1>2. CASE \E p \in Procs : Write(p) \/ Crash(p) \/ StartDistill(p)
  <2>1. PICK p \in Procs : Write(p) \/ Crash(p) \/ StartDistill(p)
    BY <1>2
  <2>e. ASSUME Appending(p), NEW result \in {"applied", "failed"}, Ended(p, result)
        PROVE  FALSE
    <3>1. pc[p] # "distill"
      BY <2>e, Ending
    <3>2. p \in Turns /\ pc[p] \in Steps /\ Mark(p, pc[p], result) /\ result \in Results /\ result # "skipped"
      BY <2>e, <3>1, <1>r, Ending DEF Ended, Steps
    <3> QED
      BY <3>2, <1>m
  <2>2. CASE OpenTmp(p) \/ FillTmp(p) \/ ReadDay(p) \/ Crash(p) \/ StartDistill(p)
    BY <2>2 DEF OpenTmp, FillTmp, ReadDay, Crash, StartDistill
  <2>3. CASE ReadHot(p) \/ RenameTmp(p) \/ HotFails(p)
    <3>1. Appending(p) /\ (status' = status \/ \E result \in {"applied", "failed"} : Ended(p, result))
      BY <2>3, <1>t DEF ReadHot, RenameTmp, HotFails, Placed
    <3> QED
      BY <3>1, <2>e
  <2> QED
    BY <2>1, <2>2, <2>3 DEF Write
<1>3. CASE UNCHANGED vars
  BY <1>3 DEF vars
<1> QED
  BY <1>1, <1>2, <1>3 DEF Next, Procs

\* The last entry of a session is that of a turn, or none.
LEMMA LastOf ==
  ASSUME Kept, NEW s \in Sessions
  PROVE  /\ LastEntry(s) \in Nat
         /\ LastEntry(s) # 0 => \E u \in ToSet(diary) : u \in Turns /\ asked[u].session = s /\ seq[u] = LastEntry(s)
         /\ \A u \in ToSet(diary) : asked[u].session = s => seq[u] <= LastEntry(s)
<1> DEFINE noted == {seq[t] : t \in {u \in ToSet(diary) : asked[u].session = s}}
           n == Len(archive[s])
<1>1. ToSet(diary) \subseteq Turns
  <2>1. diary \in Seq(Turns)
    BY KeptTypes DEF TypeOK
  <2> QED
    BY <2>1 DEF ToSet
<1>2. n \in Nat /\ archive[s] \in Seq(Turns) /\ seq \in [Turns -> Nat]
  BY DEF Kept, Framed, Typed
<1>3. noted \subseteq 0 .. n
  <2>1. ASSUME NEW u \in Turns, asked[u].session = s PROVE seq[u] \in 0 .. n
    <3>1. seq[u] > 0 => seq[u] \in DOMAIN archive[s]
      BY <2>1 DEF Course, Kept, Numbered
    <3> QED
      BY <1>2, <3>1
  <2> QED
    BY <1>1, <2>1
<1>4. LastEntry(s) = IF noted = {} THEN 0 ELSE Max(noted)
  BY DEF LastEntry
<1>5. \A u \in ToSet(diary) : asked[u].session = s => seq[u] \in noted
  OBVIOUS
<1>6. \A m \in noted : \E u \in ToSet(diary) : asked[u].session = s /\ seq[u] = m
  OBVIOUS
<1> HIDE DEF noted
<1>7. CASE noted = {}
  BY <1>4, <1>5, <1>7
<1>8. CASE noted # {}
  <2>1. Max(noted) \in noted /\ \A m \in noted : m <= Max(noted)
    BY <1>2, <1>3, <1>8, LargestNat
  <2>2. PICK m : m = Max(noted)
    OBVIOUS
  <2>3. LastEntry(s) = m /\ m \in noted /\ \A k \in noted : k <= m
    BY <1>4, <1>8, <2>1, <2>2
  <2> QED
    BY <1>1, <1>2, <1>3, <1>5, <1>6, <2>3
<1> QED
  BY <1>7, <1>8

\* A turn that is no Threshold after an entry of its session among those of S.
Near(t, S) ==
  \/ seq[t] < Threshold
  \/ \E u \in S : asked[u].session = asked[t].session /\ seq[t] < seq[u] + Threshold

\* Turns past the archive keep their numbers, so what is near stays near.
LEMMA NearStays ==
  ASSUME Kept, [Next]_vars, NEW t \in Turns, Started(t), NEW S, S \subseteq Behind, Near(t, S)
  PROVE  Near(t, S)'
<1>1. seq'[t] = seq[t] /\ asked' = asked
  BY Forward, Owners DEF Kept
<1>2. \A u \in S : seq'[u] = seq[u]
  BY Forward DEF Kept, Behind
<1> QED
  BY <1>1, <1>2 DEF Near

\* A turn that leaves the diary alone is near an entry of it.
Paced ==
  "diary" \notin hurt => \A t \in Turns : status[t]["diary"] = "skipped" =>
    /\ \A u \in Turns : pc[u] = "fill" => Near(t, ToSet(base[u]))
    /\ (\A u \in Turns : pc[u] # "fill") => Near(t, ToSet(diary))

\* At first no turn has left the diary alone.
LEMMA PacedInit == Init => Paced
<1> SUFFICES ASSUME Init PROVE Paced
  OBVIOUS
<1>1. \A t \in Turns : status[t]["diary"] # "skipped"
  BY DEF Init, Steps
<1> QED
  BY <1>1 DEF Paced

\* Whatever a process does, a turn that leaves the diary alone is near an entry
\* of it.
LEMMA PacedStep == Kept /\ Kept' /\ Excl /\ Dated /\ Dated' /\ Paced /\ [Next]_vars => Paced'
<1> SUFFICES ASSUME Kept, Kept', Excl, Dated, Dated', Paced, [Next]_vars, "diary" \notin hurt',
                    NEW t \in Turns, status'[t]["diary"] = "skipped"
             PROVE  /\ \A u \in Turns : pc'[u] = "fill" => Near(t, ToSet(base[u]))'
                    /\ (\A u \in Turns : pc'[u] # "fill") => Near(t, ToSet(diary))'
  BY DEF Paced
<1>t. /\ Framed /\ Typed /\ Placed /\ "diary" \notin hurt /\ "diary" \in Stores
      /\ \A u \in Turns : u \in Procs
  BY Owners DEF Kept, Framed, Procs, Stores
<1>x. ASSUME NEW u \in Turns, pc[u] \in {"truncate", "fill"}
      PROVE  \A v \in Turns \ {u} : pc[v] \notin {"truncate", "fill"}
  BY <1>t, <1>x DEF Excl, Changing
<1>b. /\ ToSet(diary) \subseteq Behind
      /\ \A u \in Turns : pc[u] \in {"truncate", "fill"} => ToSet(base[u]) \subseteq Behind
  <2>1. PICK B \in SUBSET Behind : StoredIn(B)
    BY DEF Kept, Stored
  <2>2. \A q \in Seq(B) : ToSet(q) \subseteq B
    BY DEF ToSet
  <2> QED
    BY <2>1, <2>2, <1>t DEF StoredIn, Hand
<1>s. CourseOf(t)
  BY DEF Course, Kept
<1>1. CASE status[t]["diary"] = "skipped"
  <2>1. Started(t)
    BY <1>1, <1>s DEF CourseOf
  <2>2. ASSUME NEW v \in Turns, TruncateDiary(v)
        PROVE  \A u \in Turns : pc'[u] = "fill" => Near(t, ToSet(base[u]))'
    <3>1. pc[v] = "truncate" /\ base' = base /\ pc' = [pc EXCEPT ![v] = "fill"]
      BY <2>2 DEF TruncateDiary, locals, Goto
    <3>2. \A u \in Turns \ {v} : pc[u] \notin {"truncate", "fill"}
      BY <3>1, <1>x
    <3>3. base[v] = diary
      BY <3>1, <1>t DEF Dated
    <3>4. Near(t, ToSet(diary))
      BY <3>1, <3>2, <1>1, <1>t DEF Paced
    <3>5. PICK S : S = ToSet(diary)
      OBVIOUS
    <3>6. Near(t, S)'
      BY <3>4, <3>5, <2>1, <1>b, NearStays
    <3>7. ToSet(base[v])' = S
      BY <3>1, <3>3, <3>5 DEF ToSet
    <3>8. \A u \in Turns : pc'[u] = "fill" => u = v
      BY <3>1, <3>2, <1>t DEF Typed
    <3>9. Near(t, ToSet(base[v]))'
      BY <3>6, <3>7 DEF Near
    <3> QED
      BY <3>8, <3>9
  <2>3. ASSUME NEW v \in Turns, FillDiary(v)
        PROVE  Near(t, ToSet(diary))' /\ \A u \in Turns : pc'[u] # "fill"
    <3>1. pc[v] = "fill" /\ diary' = Overlay(Append(base[v], v), diary)
      BY <2>3 DEF FillDiary
    <3>2. \A u \in Turns \ {v} : pc[u] \notin {"truncate", "fill"}
      BY <3>1, <1>x
    <3>3. diary = <<>> /\ Listlike(base[v])
      BY <3>1, <1>t DEF Dated
    <3>4. Near(t, ToSet(base[v]))
      BY <3>1, <1>1, <1>t DEF Paced
    <3>5. PICK S : S = ToSet(base[v])
      OBVIOUS
    <3>6. Near(t, S)'
      BY <3>1, <3>4, <3>5, <2>1, <1>b, NearStays
    <3>7. S \subseteq ToSet(diary)'
      <4>1. PICK q : q = Append(base[v], v)
        OBVIOUS
      <4>2. Listlike(q) /\ ToSet(q) = S \cup {v}
        BY <3>3, <3>5, <4>1, AppendList
      <4>3. diary' = q
        BY <3>1, <3>3, <4>1, <4>2, FillEmpty
      <4> QED
        BY <4>2, <4>3 DEF ToSet
    <3>8. Near(t, ToSet(diary))'
      BY <3>6, <3>7 DEF Near
    <3>9. pc' = [pc EXCEPT ![v] = pc'[v]] /\ pc'[v] \in Steps \cup {"done", "error", "append", "distill"}
      BY <2>3, <1>t, Rests
    <3>10. \A u \in Turns : pc'[u] # "fill"
      BY <3>2, <3>9, <1>t DEF Typed, Steps
    <3> QED
      BY <3>8, <3>10
  <2>4. CASE \E v \in Turns : TruncateDiary(v)
    <3>1. PICK v \in Turns : TruncateDiary(v)
      BY <2>4
    <3>2. pc'[v] = "fill"
      BY <3>1, <1>t DEF TruncateDiary, Goto, Typed
    <3> QED
      BY <2>2, <3>1, <3>2
  <2>5. CASE \A v \in Turns : ~TruncateDiary(v) /\ ~FillDiary(v)
    <3>1. diary' = diary
      BY <2>5, Owners
    <3>2. \A u \in Turns : pc'[u] = "fill" <=> pc[u] = "fill"
      BY <2>5, <1>t, Goes, Leaving
    <3>3. ASSUME NEW u \in Turns, pc'[u] = "fill" PROVE Near(t, ToSet(base[u]))'
      <4>1. pc[u] = "fill" /\ base'[u] = base[u]
        BY <3>2, <3>3, <1>t, Holding
      <4>2. PICK S : S = ToSet(base[u])
        OBVIOUS
      <4>3. Near(t, S)'
        BY <4>1, <4>2, <2>1, <1>1, <1>b, <1>t, NearStays DEF Paced
      <4>4. ToSet(base[u])' = S
        BY <4>1, <4>2 DEF ToSet
      <4> QED
        BY <4>3, <4>4 DEF Near
    <3>4. ASSUME \A u \in Turns : pc'[u] # "fill" PROVE Near(t, ToSet(diary))'
      <4>1. PICK S : S = ToSet(diary)
        OBVIOUS
      <4>2. Near(t, S)'
        BY <3>2, <3>4, <4>1, <2>1, <1>1, <1>b, <1>t, NearStays DEF Paced
      <4>3. ToSet(diary)' = S
        BY <3>1, <4>1 DEF ToSet
      <4> QED
        BY <4>2, <4>3 DEF Near
    <3> QED
      BY <3>3, <3>4
  <2> QED
    BY <2>3, <2>4, <2>5
<1>2. CASE status[t]["diary"] # "skipped"
  <2>1. /\ pc[t] = "diary" /\ ~Due(t) /\ UNCHANGED <<diary, base, seq>>
        /\ pc' = [pc EXCEPT ![t] = pc'[t]] /\ pc'[t] \notin {"truncate", "fill"}
    BY <1>2, <1>t, Skips
  <2>2. asked' = asked /\ asked[t].session \in Sessions /\ Threshold \in Nat \ {0} /\ seq \in [Turns -> Nat]
    BY <1>t, Owners, TurnRecordsAssumption DEF Typed
  <2>3. ~(seq[t] >= LastEntry(asked[t].session) + Threshold)
    BY <2>1 DEF Due
  <2>4. Near(t, ToSet(diary))
    <3>1. PICK s \in Sessions : s = asked[t].session
      BY <2>2
    <3>2. PICK n \in Nat : n = LastEntry(s)
      BY LastOf
    <3>3. n # 0 => \E u \in ToSet(diary) : u \in Turns /\ asked[u].session = s /\ seq[u] = n
      BY <3>2, LastOf
    <3>4. seq[t] < n + Threshold
      BY <2>2, <2>3, <3>1, <3>2
    <3>5. CASE n = 0
      BY <2>2, <3>4, <3>5 DEF Near
    <3>6. CASE n # 0
      BY <3>1, <3>3, <3>4, <3>6 DEF Near
    <3> QED
      BY <3>5, <3>6
  <2>5. Near(t, ToSet(diary))'
    BY <2>1, <2>2, <2>4 DEF Near, ToSet
  <2>6. ASSUME NEW u \in Turns, pc'[u] = "fill" PROVE Near(t, ToSet(base[u]))'
    <3>1. pc[u] = "fill"
      BY <2>1, <2>6, <1>t DEF Typed
    <3>2. diary = <<>>
      BY <3>1, <1>t DEF Dated
    <3>3. ToSet(diary) = {}
      BY <3>2, EmptyList
    <3>4. seq'[t] < Threshold
      BY <2>1, <2>4, <3>3 DEF Near
    <3> QED
      BY <3>4 DEF Near
  <2> QED
    BY <2>5, <2>6
<1> QED
  BY <1>1, <1>2

\* As long as nothing of it fails, a session has an entry in the diary at least
\* every Threshold turns, however the turns of all sessions interleave.
THEOREM TheDiaryKeepsUp == Spec => []DiaryKeepsUp
<1>1. Kept /\ Dated /\ Paced => DiaryKeepsUp
  <2> SUFFICES ASSUME Kept, Dated, Paced, NEW s \in Sessions, "diary" \notin hurt,
                      \A t \in {t \in Turns : asked[t].session = s /\ seq[t] > 0} :
                        status[t].diary \in {"applied", "skipped"},
                      \A u \in Turns : pc[u] # "fill"
               PROVE  Len(archive[s]) < LastEntry(s) + Threshold
    BY DEF DiaryKeepsUp
  <2>1. archive[s] \in Seq(Turns) /\ Threshold \in Nat \ {0}
    BY TurnRecordsAssumption DEF Kept, Framed, Typed
  <2>2. PICK n \in Nat : n = Len(archive[s])
    BY <2>1
  <2>3. PICK m \in Nat : m = LastEntry(s)
    BY LastOf
  <2>4. \A u \in ToSet(diary) : asked[u].session = s => seq[u] <= m
    BY <2>3, LastOf
  <2>5. CASE n = 0
    BY <2>1, <2>2, <2>3, <2>5
  <2>6. CASE n # 0
    <3>1. PICK t \in Turns : t = archive[s][n]
      BY <2>1, <2>2, <2>6
    <3>2. n \in DOMAIN archive[s]
      BY <2>1, <2>2, <2>6
    <3>3. asked[t].session = s /\ seq[t] = n
      BY <3>1, <3>2 DEF Course, Kept, Numbered
    <3>4. status[t].diary \in {"applied", "skipped"}
      BY <2>2, <2>6, <3>3
    <3>5. CASE status[t].diary = "applied"
      <4>1. t \in ToSet(diary)
        BY <3>5 DEF Dated, Applied
      <4> QED
        BY <2>1, <2>2, <2>3, <2>4, <3>3, <4>1
    <3>6. CASE status[t].diary = "skipped"
      <4>1. Near(t, ToSet(diary))
        BY <3>6 DEF Paced
      <4>2. CASE n < Threshold
        BY <2>1, <2>2, <2>3, <4>2
      <4>3. ASSUME NEW u \in ToSet(diary), asked[u].session = s, n < seq[u] + Threshold
            PROVE  n < m + Threshold
        <5>1. seq[u] <= m /\ u \in Turns
          <6>1. diary \in Seq(Turns)
            BY KeptTypes DEF TypeOK
          <6> QED
            BY <2>4, <4>3, <6>1 DEF ToSet
        <5>2. seq[u] \in Nat
          BY <5>1 DEF Kept, Framed, Typed
        <5> QED
          BY <2>1, <4>3, <5>1, <5>2
      <4> QED
        BY <2>2, <2>3, <3>3, <4>1, <4>2, <4>3 DEF Near
    <3> QED
      BY <3>4, <3>5, <3>6
  <2> QED
    BY <2>5, <2>6
<1>2. Init => Kept /\ Excl /\ Dated /\ Paced
  BY KeptInit, ExclInit, DatedInit, PacedInit
<1>3. Kept /\ Excl /\ Dated /\ Paced /\ [Next]_vars => Kept' /\ Excl' /\ Dated' /\ Paced'
  BY KeptStep, ExclStep, DatedStep, PacedStep DEF Kept
<1> QED
  BY <1>1, <1>2, <1>3, PTL DEF Spec
================================================================================
