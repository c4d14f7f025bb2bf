-------------------------- MODULE SubagentQueueProofs --------------------------
(***************************************************************************)
(* Proofs about SubagentQueue, for every set of workers, of runs, every    *)
(* idle timeout and every bound.                                           *)
(***************************************************************************)
EXTENDS SubagentQueue, TLAPS

\* A process past its scan works on a run, with a payload of the right kind;
\* the operator only ever writes release markers.
PhaseOK ==
  /\ \A a \in Actors :
       /\ pc[a] \in {"create", "fill", "running", "write", "put", "rename"} => job[a] \in Runs
       /\ pc[a] \in {"create", "fill", "write", "put", "rename"} => out[a] \in Content
  /\ \A w \in Workers : pc[w] \in {"create", "fill"} => out[w].kind = "claim"
  /\ pc[Operator] \in {"idle", "write", "put", "rename"}
  /\ pc[Operator] # "idle" => out[Operator].kind = "release"

\* The stamp of a first claim is the one in the claim file that it creates.
FirstClaimOK ==
  /\ \A r \in Runs : firstClaim[r] = Absent <=> Claim(r) = Absent
  /\ \A w \in Workers : pc[w] = "fill" => firstClaim[job[w]] = out[w].at

\* Only a process in the middle of a write has a file open; one that was renamed
\* away under it is the published file of that name.
OpenOK ==
  /\ \A a \in Actors : fd[a] # "none" => pc[a] = "put"
  /\ \A a \in Actors : fd[a] = "live" => file[Target(a)] # Absent

\* A claim file is never gone again: it is behind all work and every report.
ClaimKept ==
  /\ \A w \in Workers :
       pc[w] \in {"running", "write", "put", "rename"} => Claim(job[w]) # Absent
  /\ \A r \in Runs :
       Report(r) # Absent \/ tmp[<<"report", r>>] # Absent => Claim(r) # Absent

\* Until a run is reopened its first claim is its only one: one worker is
\* engaged in it, nobody writes the claim again, so it stays readable once it
\* was filled, and a report ends the engagement.
OneHolder(r) ==
  /\ \A v, w \in Workers : Engaged(v, r) /\ Engaged(w, r) => v = w
  /\ Report(r) # Absent => Claim(r) \notin Torn /\ \A w \in Workers : ~Engaged(w, r)
  /\ Claim(r) \notin Torn \cup {Absent} => Claim(r).at = firstClaim[r]
  /\ \A w \in Workers : Engaged(w, r) /\ pc[w] # "fill" => Claim(r) \notin Torn
  /\ tmp[<<"claim", r>>] = Absent
  /\ \A w \in Workers :
       job[w] = r /\ pc[w] \in {"write", "put", "rename"} => out[w].kind # "claim"

IInv ==
  /\ TypeOK
  /\ PhaseOK
  /\ OpenOK
  /\ FirstClaimOK
  /\ ClaimKept
  /\ \A r \in Runs : Reopened(r) \/ OneHolder(r)

--------------------------------------------------------------------------------

\* Every variable has its type at the start.
LEMMA TypeInitial == Init => TypeOK
  BY QueueAssumption DEF Init, TypeOK, WorkerPC, OpenFile, Actors, NoRun

\* A payload is content of its kind, by its writer.
LEMMA PayloadTyped ==
  ASSUME TypeOK, NEW k \in Kinds, NEW a \in Actors
  PROVE  Payload(k, a) \in Content /\ Payload(k, a).kind = k
  BY DEF TypeOK, Payload, Content

\* Renaming leaves every process with an open file or none.
LEMMA MovedTyped ==
  ASSUME TypeOK, NEW a \in Actors
  PROVE  Moved(a) \in [Actors -> OpenFile]
<1>1. \A b \in Actors : fd[b] \in OpenFile
  BY DEF TypeOK
<1>2. "live" \in OpenFile /\ "gone" \in OpenFile
  BY DEF OpenFile
<1> QED
  BY <1>1, <1>2 DEF Moved

\* What a write through an open file does: it fills the temporary file, or the
\* published one that the temporary file has become, or neither.
LEMMA PutEffect ==
  ASSUME TypeOK, PhaseOK, NEW a \in Actors, PutTmp(a)
  PROVE  /\ pc[a] = "put" /\ pc' = [pc EXCEPT ![a] = "rename"]
         /\ fd' = [fd EXCEPT ![a] = "none"]
         /\ UNCHANGED <<dispatched, now, job, todo, out, faults, firstClaim>>
         /\ job[a] \in Runs /\ out[a] \in Content
         /\ Target(a) \in Kinds \X Runs
         /\ \E c \in Content \cup Torn :
              \/ tmp' = [tmp EXCEPT ![Target(a)] = c] /\ file' = file
              \/ /\ fd[a] = "live"
                 /\ file' = [file EXCEPT ![Target(a)] = c] /\ tmp' = tmp
              \/ tmp' = tmp /\ file' = file
<1>1. pc[a] = "put" /\ job[a] \in Runs /\ out[a] \in Content
  BY DEF PutTmp, PhaseOK
<1>2. Target(a) \in Kinds \X Runs
  BY <1>1 DEF Target, Content
<1>3. \A old : Written(old, out[a]) \subseteq Content \cup Torn
  BY <1>1 DEF Written, Torn
<1> QED
  BY <1>1, <1>2, <1>3 DEF PutTmp, Goto, Torn

\* What a rename does: the temporary file becomes the published one.
LEMMA RenameEffect ==
  ASSUME TypeOK, PhaseOK, NEW a \in Actors, RenameTmp(a)
  PROVE  /\ pc[a] = "rename" /\ job[a] \in Runs /\ out[a] \in Content
         /\ Target(a) \in Kinds \X Runs
         /\ tmp[Target(a)] \in Content \cup Torn /\ tmp[Target(a)] # Absent
         /\ file' = [file EXCEPT ![Target(a)] = tmp[Target(a)]]
         /\ tmp' = [tmp EXCEPT ![Target(a)] = Absent]
         /\ fd' = Moved(a)
         /\ pc' = [pc EXCEPT ![a] = IF out[a].kind = "claim" THEN "running" ELSE "idle"]
         /\ out' = [out EXCEPT ![a] = Absent]
         /\ job' = IF out[a].kind = "claim" THEN job ELSE [job EXCEPT ![a] = NoRun]
         /\ UNCHANGED <<dispatched, now, todo, faults, firstClaim>>
<1>1. pc[a] = "rename" /\ job[a] \in Runs /\ out[a] \in Content
  BY DEF RenameTmp, PhaseOK
<1>2. Target(a) \in Kinds \X Runs
  BY <1>1 DEF Target, Content
<1>3. tmp[Target(a)] \in Content \cup Torn \cup {Absent}
  BY <1>2 DEF TypeOK
<1> QED
  BY <1>1, <1>2, <1>3 DEF RenameTmp, Leave, Goto

\* Every step keeps the type of every variable.
LEMMA TypeStep == TypeOK /\ PhaseOK /\ [Next]_vars => TypeOK'
<1> SUFFICES ASSUME TypeOK, PhaseOK, [Next]_vars PROVE TypeOK'
  OBVIOUS
<1> USE QueueAssumption DEF TypeOK, WorkerPC, Actors, Goto
<1>1. ASSUME NEW r \in Runs, Dispatch(r) PROVE TypeOK'
  BY <1>1 DEF Dispatch
<1>2. ASSUME NEW w \in Workers, Work(w) PROVE TypeOK'
  <2>1. CASE ListDispatches(w)
    BY <2>1 DEF ListDispatches
  <2>2. CASE ListReports(w)
    BY <2>2 DEF ListReports
  <2>3. CASE NothingPending(w)
    BY <2>3 DEF NothingPending
  <2>4. CASE SkipClaimed(w)
    BY <2>4 DEF SkipClaimed, First
  <2>5. CASE ClaimUnreadable(w)
    BY <2>5 DEF ClaimUnreadable
  <2>6. CASE FindUnclaimed(w)
    BY <2>6, PayloadTyped DEF FindUnclaimed, PrepareClaim, Kinds, First
  <2>7. CASE FindReclaimable(w)
    <3>1. PICK r \in Runs : PrepareClaim(w, r, "write")
      BY <2>7 DEF FindReclaimable
    <3>2. todo' = [todo EXCEPT ![w] = {}] /\ Payload("claim", w) \in Content
      BY <2>7, PayloadTyped DEF FindReclaimable, Kinds
    <3>3. /\ pc' = [pc EXCEPT ![w] = "write"] /\ job' = [job EXCEPT ![w] = r]
          /\ out' = [out EXCEPT ![w] = Payload("claim", w)] /\ now' = now + 1
          /\ UNCHANGED <<dispatched, file, tmp, fd, faults, firstClaim>>
      BY <3>1 DEF PrepareClaim
    <3>4. /\ pc' \in [Actors -> WorkerPC] /\ job' \in [Actors -> Runs \cup {NoRun}]
          /\ out' \in [Actors -> Content \cup {Absent}] /\ now' \in Nat
      BY <3>2, <3>3
    <3>5. todo' \in [Workers -> SUBSET Runs]
      BY <3>2
    <3> HIDE DEF WorkerPC
    <3> QED
      BY <3>3, <3>4, <3>5
  <2>8. CASE CreateClaim(w)
    BY <2>8 DEF CreateClaim, PhaseOK, Content, Kinds, Torn
  <2>9. CASE CreateLost(w)
    BY <2>9 DEF CreateLost, NoRun
  <2>10. CASE FillClaim(w)
    BY <2>10 DEF FillClaim, PhaseOK, Content, Kinds
  <2>11. CASE RunnerReports(w)
    BY <2>11, PayloadTyped DEF RunnerReports, Kinds
  <2> QED
    BY <1>2, <2>1, <2>2, <2>3, <2>4, <2>5, <2>6, <2>7, <2>8, <2>9, <2>10, <2>11 DEF Work
<1>3. ASSUME NEW w \in Workers, RunnerFails(w) PROVE TypeOK'
  BY <1>3, PayloadTyped DEF RunnerFails, Fault, Kinds
<1>4. ASSUME NEW w \in Workers, Crash(w) PROVE TypeOK'
  BY <1>4 DEF Crash, Fault, Leave, OpenFile
<1>5. ASSUME NEW r \in Runs, OperatorReleases(r) PROVE TypeOK'
  BY <1>5, PayloadTyped DEF OperatorReleases, Fault, Kinds
<1>6. ASSUME NEW a \in Actors, Publish(a) PROVE TypeOK'
  <2>1. CASE OpenTmp(a)
    BY <2>1 DEF OpenTmp, PhaseOK, Content, Target, Torn, OpenFile
  <2>2. CASE RenameTmp(a)
    <3> HIDE DEF WorkerPC
    <3>1. Moved(a) \in [Actors -> OpenFile]
      BY MovedTyped
    <3>2. /\ file' \in [Kinds \X Runs -> Content \cup Torn \cup {Absent}]
          /\ tmp' \in [Kinds \X Runs -> Content \cup Torn \cup {Absent}]
      <4>1. /\ Target(a) \in Kinds \X Runs /\ tmp[Target(a)] \in Content \cup Torn
            /\ file' = [file EXCEPT ![Target(a)] = tmp[Target(a)]]
            /\ tmp' = [tmp EXCEPT ![Target(a)] = Absent]
        BY <2>2, RenameEffect
      <4> QED
        BY <4>1
    <3>3. /\ pc' \in [Actors -> WorkerPC]
          /\ job' \in [Actors -> Runs \cup {NoRun}]
          /\ out' \in [Actors -> Content \cup {Absent}]
      BY <2>2, RenameEffect DEF WorkerPC
    <3>4. UNCHANGED <<dispatched, now, todo, faults, firstClaim>> /\ fd' = Moved(a)
      BY <2>2, RenameEffect
    <3> QED
      BY <3>1, <3>2, <3>3, <3>4
  <2>3. CASE RenameFails(a)
    <3>1. UNCHANGED <<dispatched, file, tmp, fd, todo, faults, firstClaim>>
      BY <2>3 DEF RenameFails
    <3>2. CASE out[a].kind = "report"
      <4>1. /\ pc' = [pc EXCEPT ![a] = "write"]
            /\ out' = [out EXCEPT ![a] = Payload("release", a)]
            /\ now' = now + 1 /\ job' = job
        BY <2>3, <3>2 DEF RenameFails
      <4> QED
        BY <3>1, <4>1, PayloadTyped DEF Kinds
    <3>3. CASE out[a].kind # "report"
      <4>1. /\ pc' = [pc EXCEPT ![a] = "idle"]
            /\ out' = [out EXCEPT ![a] = Absent]
            /\ job' = [job EXCEPT ![a] = NoRun] /\ now' = now
        BY <2>3, <3>3 DEF RenameFails, Leave
      <4> QED
        BY <3>1, <4>1
    <3> QED
      BY <3>2, <3>3
  <2>4. CASE PutTmp(a)
    <3> HIDE DEF WorkerPC
    <3>1. \A c \in Content \cup Torn :
            /\ [tmp EXCEPT ![Target(a)] = c] \in [Kinds \X Runs -> Content \cup Torn \cup {Absent}]
            /\ [file EXCEPT ![Target(a)] = c] \in [Kinds \X Runs -> Content \cup Torn \cup {Absent}]
      OBVIOUS
    <3>2. /\ file' \in [Kinds \X Runs -> Content \cup Torn \cup {Absent}]
          /\ tmp' \in [Kinds \X Runs -> Content \cup Torn \cup {Absent}]
      BY <2>4, <3>1, PutEffect
    <3>3. /\ pc' \in [Actors -> WorkerPC] /\ fd' \in [Actors -> OpenFile]
          /\ UNCHANGED <<dispatched, now, job, todo, out, faults, firstClaim>>
      BY <2>4, PutEffect DEF WorkerPC, OpenFile
    <3> QED
      BY <3>2, <3>3
  <2> QED
    BY <1>6, <2>1, <2>2, <2>3, <2>4 DEF Publish
<1>7. CASE Tick
  BY <1>7 DEF Tick
<1>8. CASE UNCHANGED vars
  BY <1>8 DEF vars
<1> QED
  BY <1>1, <1>2, <1>3, <1>4, <1>5, <1>6, <1>7, <1>8 DEF Next

\* A step leaves every process with a payload that fits its control point.
LEMMA PhaseStep == TypeOK /\ PhaseOK /\ [Next]_vars => PhaseOK'
<1> SUFFICES ASSUME TypeOK, PhaseOK, [Next]_vars PROVE PhaseOK'
  OBVIOUS
<1> USE QueueAssumption DEF TypeOK, PhaseOK, Actors, Goto
<1>1. ASSUME NEW r \in Runs, Dispatch(r) PROVE PhaseOK'
  BY <1>1 DEF Dispatch
<1>2. ASSUME NEW w \in Workers, Work(w) PROVE PhaseOK'
  <2>1. CASE ListDispatches(w)
    BY <2>1 DEF ListDispatches
  <2>2. CASE ListReports(w)
    BY <2>2 DEF ListReports
  <2>3. CASE NothingPending(w)
    BY <2>3 DEF NothingPending
  <2>4. CASE SkipClaimed(w)
    BY <2>4 DEF SkipClaimed, First
  <2>5. CASE ClaimUnreadable(w)
    BY <2>5 DEF ClaimUnreadable
  <2>6. CASE FindUnclaimed(w)
    BY <2>6 DEF FindUnclaimed, PrepareClaim, Payload, Content, Kinds, First
  <2>7. CASE FindReclaimable(w)
    BY <2>7 DEF FindReclaimable, PrepareClaim, Payload, Content, Kinds, First
  <2>8. CASE CreateClaim(w)
    BY <2>8 DEF CreateClaim, Content, Kinds
  <2>9. CASE CreateLost(w)
    BY <2>9 DEF CreateLost
  <2>10. CASE FillClaim(w)
    BY <2>10 DEF FillClaim, Content, Kinds
  <2>11. CASE RunnerReports(w)
    BY <2>11 DEF RunnerReports, Payload, Content, Kinds
  <2> QED
    BY <1>2, <2>1, <2>2, <2>3, <2>4, <2>5, <2>6, <2>7, <2>8, <2>9, <2>10, <2>11 DEF Work
<1>3. ASSUME NEW w \in Workers, RunnerFails(w) PROVE PhaseOK'
  BY <1>3 DEF RunnerFails, Payload, Content, Kinds
<1>4. ASSUME NEW w \in Workers, Crash(w) PROVE PhaseOK'
  BY <1>4 DEF Crash, Leave
<1>5. ASSUME NEW r \in Runs, OperatorReleases(r) PROVE PhaseOK'
  BY <1>5 DEF OperatorReleases, Payload, Content, Kinds
<1>6. ASSUME NEW a \in Actors, Publish(a) PROVE PhaseOK'
  <2>1. CASE OpenTmp(a)
    BY <2>1 DEF OpenTmp
  <2>2. CASE RenameTmp(a)
    <3>1. /\ pc' = [pc EXCEPT ![a] = IF out[a].kind = "claim" THEN "running" ELSE "idle"]
          /\ out' = [out EXCEPT ![a] = Absent]
          /\ job' = IF out[a].kind = "claim" THEN job ELSE [job EXCEPT ![a] = NoRun]
          /\ pc[a] = "rename"
      BY <2>2, RenameEffect
    <3>2. CASE out[a].kind = "claim"
      BY <3>1, <3>2
    <3>3. CASE out[a].kind # "claim"
      BY <3>1, <3>3
    <3> QED
      BY <3>2, <3>3
  <2>3. CASE RenameFails(a)
    BY <2>3 DEF RenameFails, Leave, Payload, Content, Kinds
  <2>4. CASE PutTmp(a)
    BY <2>4, PutEffect
  <2> QED
    BY <1>6, <2>1, <2>2, <2>3, <2>4 DEF Publish
<1>7. CASE Tick
  BY <1>7 DEF Tick
<1>8. CASE UNCHANGED vars
  BY <1>8 DEF vars
<1> QED
  BY <1>1, <1>2, <1>3, <1>4, <1>5, <1>6, <1>7, <1>8 DEF Next

\* A step keeps claim files and first stamps in agreement.
LEMMA FirstClaimStep == TypeOK /\ PhaseOK /\ ClaimKept /\ FirstClaimOK /\ [Next]_vars => FirstClaimOK'
<1> SUFFICES ASSUME TypeOK, PhaseOK, ClaimKept, FirstClaimOK, [Next]_vars PROVE FirstClaimOK'
  OBVIOUS
<1> USE QueueAssumption DEF TypeOK, PhaseOK, FirstClaimOK, Actors, Goto, Claim, Target
<1>1. ASSUME NEW r \in Runs, Dispatch(r) PROVE FirstClaimOK'
  BY <1>1 DEF Dispatch
<1>2. ASSUME NEW w \in Workers, Work(w) PROVE FirstClaimOK'
  <2>1. CASE ListDispatches(w)
    BY <2>1 DEF ListDispatches
  <2>2. CASE ListReports(w)
    BY <2>2 DEF ListReports
  <2>3. CASE NothingPending(w)
    BY <2>3 DEF NothingPending
  <2>4. CASE SkipClaimed(w)
    BY <2>4 DEF SkipClaimed, First
  <2>5. CASE ClaimUnreadable(w)
    BY <2>5 DEF ClaimUnreadable
  <2>6. CASE FindUnclaimed(w)
    BY <2>6 DEF FindUnclaimed, PrepareClaim, Payload, Content, Kinds, First
  <2>7. CASE FindReclaimable(w)
    BY <2>7 DEF FindReclaimable, PrepareClaim, Payload, Content, Kinds, First
  <2>8. CASE CreateClaim(w)
    <3>1. /\ pc' = [pc EXCEPT ![w] = "fill"]
          /\ file' = [file EXCEPT ![<<"claim", job[w]>>] = Empty]
          /\ firstClaim' = [firstClaim EXCEPT ![job[w]] = out[w].at]
          /\ job' = job /\ out' = out
          /\ job[w] \in Runs /\ out[w] \in Content
          /\ firstClaim[job[w]] = Absent
      BY <2>8 DEF CreateClaim
    <3>2. out[w].at \in Nat /\ out[w].at # Absent
      BY <3>1 DEF Content
    <3>3. ASSUME NEW r \in Runs PROVE (firstClaim[r] = Absent <=> Claim(r) = Absent)'
      BY <3>1, <3>2 DEF Kinds
    <3>4. ASSUME NEW v \in Workers, pc'[v] = "fill" PROVE firstClaim'[job[v]] = out[v].at
      <4>1. CASE v = w
        BY <3>1, <4>1
      <4>2. CASE v # w
        <5>1. pc[v] = "fill" /\ job[v] \in Runs /\ out[v].at \in Nat
          BY <4>2, <3>1, <3>4 DEF Content
        <5>2. firstClaim[job[v]] # Absent
          BY <5>1
        <5> QED
          BY <3>1, <5>1, <5>2
      <4> QED
        BY <4>1, <4>2
    <3> QED
      BY <3>1, <3>3, <3>4
  <2>9. CASE CreateLost(w)
    BY <2>9 DEF CreateLost
  <2>10. CASE FillClaim(w)
    BY <2>10 DEF FillClaim, Content, Kinds
  <2>11. CASE RunnerReports(w)
    BY <2>11 DEF RunnerReports, Payload, Content, Kinds
  <2> QED
    BY <1>2, <2>1, <2>2, <2>3, <2>4, <2>5, <2>6, <2>7, <2>8, <2>9, <2>10, <2>11 DEF Work
<1>3. ASSUME NEW w \in Workers, RunnerFails(w) PROVE FirstClaimOK'
  BY <1>3 DEF RunnerFails, Payload, Content, Kinds
<1>4. ASSUME NEW w \in Workers, Crash(w) PROVE FirstClaimOK'
  BY <1>4 DEF Crash, Leave
<1>5. ASSUME NEW r \in Runs, OperatorReleases(r) PROVE FirstClaimOK'
  BY <1>5 DEF OperatorReleases, Payload, Content, Kinds
<1>6. ASSUME NEW a \in Actors, Publish(a) PROVE FirstClaimOK'
  <2>1. CASE OpenTmp(a)
    BY <2>1 DEF OpenTmp, Content, Kinds, Torn
  <2>2. CASE RenameTmp(a)
    <3> DEFINE target == Target(a)
    <3>1. /\ pc[a] = "rename"
          /\ target \in Kinds \X Runs
          /\ tmp[target] # Absent
          /\ file' = [file EXCEPT ![target] = tmp[target]]
          /\ tmp' = [tmp EXCEPT ![target] = Absent]
          /\ firstClaim' = firstClaim
      BY <2>2, RenameEffect
    <3>2. /\ pc' = [pc EXCEPT ![a] = IF out[a].kind = "claim" THEN "running" ELSE "idle"]
          /\ out' = [out EXCEPT ![a] = Absent]
          /\ job' = IF out[a].kind = "claim" THEN job ELSE [job EXCEPT ![a] = NoRun]
      BY <2>2, RenameEffect
    <3>3. \A k \in Kinds, r \in Runs :
            file'[<<k, r>>] = IF <<k, r>> = target THEN tmp[target] ELSE file[<<k, r>>]
      BY <3>1
    <3>4. \A k \in Kinds, r \in Runs :
            tmp'[<<k, r>>] = IF <<k, r>> = target THEN Absent ELSE tmp[<<k, r>>]
      BY <3>1
    <3>5. out[a].kind = "claim" => a \in Workers /\ Claim(job[a]) # Absent
      BY <3>1 DEF ClaimKept
    <3>6. tmp[target] # Absent
      BY <3>1
    <3>7. ASSUME NEW r \in Runs PROVE Claim(r)' = Absent <=> Claim(r) = Absent
      <4>1. CASE <<"claim", r>> = target
        BY <3>1, <3>3, <3>5, <3>6, <4>1 DEF Kinds
      <4>2. CASE <<"claim", r>> # target
        BY <3>3, <4>2 DEF Kinds
      <4> QED
        BY <4>1, <4>2
    <3>8. ASSUME NEW w \in Workers, pc'[w] = "fill"
          PROVE  w # a /\ pc[w] = "fill" /\ job'[w] = job[w] /\ out'[w] = out[w]
      BY <3>1, <3>2, <3>8
    <3>9. \A r \in Runs : (firstClaim[r] = Absent <=> Claim(r) = Absent)'
      BY <3>1, <3>7
    <3>10. \A w \in Workers : (pc[w] = "fill" => firstClaim[job[w]] = out[w].at)'
      BY <3>1, <3>8
    <3> QED
      BY <3>9, <3>10
  <2>3. CASE RenameFails(a)
    BY <2>3 DEF RenameFails, Leave, Payload, Content, Kinds
  <2>4. CASE PutTmp(a)
    <3>1. /\ pc' = [pc EXCEPT ![a] = "rename"] /\ pc[a] = "put"
          /\ UNCHANGED <<job, out, firstClaim>>
      BY <2>4, PutEffect
    <3>2. PICK c \in Content \cup Torn :
            file' = file \/ file' = [file EXCEPT ![Target(a)] = c]
      BY <2>4, PutEffect
    <3>3. c # Absent
      BY DEF Torn
    <3>4. out[a].kind = "claim" => a \in Workers /\ Claim(job[a]) # Absent
      BY <3>1 DEF ClaimKept
    <3>5. ASSUME NEW r \in Runs PROVE Claim(r)' = Absent <=> Claim(r) = Absent
      <4>1. CASE Target(a) = <<"claim", r>>
        BY <3>2, <3>3, <3>4, <4>1 DEF Kinds
      <4>2. CASE Target(a) # <<"claim", r>>
        BY <3>2, <4>2 DEF Kinds
      <4> QED
        BY <4>1, <4>2
    <3> QED
      BY <3>1, <3>5
  <2> QED
    BY <1>6, <2>1, <2>2, <2>3, <2>4 DEF Publish
<1>7. CASE Tick
  BY <1>7 DEF Tick
<1>8. CASE UNCHANGED vars
  BY <1>8 DEF vars
<1> QED
  BY <1>1, <1>2, <1>3, <1>4, <1>5, <1>6, <1>7, <1>8 DEF Next

\* A step leaves a claim behind all work and every report.
LEMMA ClaimKeptStep == TypeOK /\ PhaseOK /\ ClaimKept /\ [Next]_vars => ClaimKept'
<1> SUFFICES ASSUME TypeOK, PhaseOK, ClaimKept, [Next]_vars PROVE ClaimKept'
  OBVIOUS
<1> USE QueueAssumption DEF TypeOK, PhaseOK, ClaimKept, Actors, Goto, Claim, Report, Target
<1>1. ASSUME NEW r \in Runs, Dispatch(r) PROVE ClaimKept'
  BY <1>1 DEF Dispatch
<1>2. ASSUME NEW w \in Workers, Work(w) PROVE ClaimKept'
  <2>1. CASE ListDispatches(w)
    BY <2>1 DEF ListDispatches
  <2>2. CASE ListReports(w)
    BY <2>2 DEF ListReports
  <2>3. CASE NothingPending(w)
    BY <2>3 DEF NothingPending
  <2>4. CASE SkipClaimed(w)
    BY <2>4 DEF SkipClaimed, First
  <2>5. CASE ClaimUnreadable(w)
    BY <2>5 DEF ClaimUnreadable
  <2>6. CASE FindUnclaimed(w)
    BY <2>6 DEF FindUnclaimed, PrepareClaim, Payload, Content, Kinds, First
  <2>7. CASE FindReclaimable(w)
    <3>1. PICK r \in Runs : /\ Claim(r) # Absent
                            /\ PrepareClaim(w, r, "write")
      BY <2>7 DEF FindReclaimable
    <3> QED
      BY <3>1 DEF PrepareClaim
  <2>8. CASE CreateClaim(w)
    BY <2>8 DEF CreateClaim, Content, Kinds
  <2>9. CASE CreateLost(w)
    BY <2>9 DEF CreateLost
  <2>10. CASE FillClaim(w)
    BY <2>10 DEF FillClaim, Content, Kinds
  <2>11. CASE RunnerReports(w)
    BY <2>11 DEF RunnerReports, Payload, Content, Kinds
  <2> QED
    BY <1>2, <2>1, <2>2, <2>3, <2>4, <2>5, <2>6, <2>7, <2>8, <2>9, <2>10, <2>11 DEF Work
<1>3. ASSUME NEW w \in Workers, RunnerFails(w) PROVE ClaimKept'
  BY <1>3 DEF RunnerFails, Payload, Content, Kinds
<1>4. ASSUME NEW w \in Workers, Crash(w) PROVE ClaimKept'
  BY <1>4 DEF Crash, Leave
<1>5. ASSUME NEW r \in Runs, OperatorReleases(r) PROVE ClaimKept'
  BY <1>5 DEF OperatorReleases, Payload, Content, Kinds
<1>6. ASSUME NEW a \in Actors, Publish(a) PROVE ClaimKept'
  <2>1. CASE OpenTmp(a)
    BY <2>1 DEF OpenTmp, Content, Kinds, Torn
  <2>2. CASE RenameTmp(a)
    <3> DEFINE target == Target(a)
    <3>1. /\ pc[a] = "rename"
          /\ target \in Kinds \X Runs
          /\ tmp[target] # Absent
          /\ file' = [file EXCEPT ![target] = tmp[target]]
          /\ tmp' = [tmp EXCEPT ![target] = Absent]
          /\ firstClaim' = firstClaim
      BY <2>2, RenameEffect
    <3>2. /\ pc' = [pc EXCEPT ![a] = IF out[a].kind = "claim" THEN "running" ELSE "idle"]
          /\ out' = [out EXCEPT ![a] = Absent]
          /\ job' = IF out[a].kind = "claim" THEN job ELSE [job EXCEPT ![a] = NoRun]
      BY <2>2, RenameEffect
    <3>3. \A k \in Kinds, r \in Runs :
            file'[<<k, r>>] = IF <<k, r>> = target THEN tmp[target] ELSE file[<<k, r>>]
      BY <3>1
    <3>4. \A k \in Kinds, r \in Runs :
            tmp'[<<k, r>>] = IF <<k, r>> = target THEN Absent ELSE tmp[<<k, r>>]
      BY <3>1
    <3>5. \A r \in Runs : Claim(r) # Absent => Claim(r)' # Absent
      BY <3>1, <3>3 DEF Kinds
    <3>6. ASSUME NEW w \in Workers, pc'[w] \in {"running", "write", "put", "rename"}
          PROVE  pc[w] \in {"running", "write", "put", "rename"} /\ job'[w] = job[w] /\ job[w] \in Runs
      BY <3>1, <3>2, <3>6
    <3>7. ASSUME NEW r \in Runs, Report(r)' # Absent \/ tmp'[<<"report", r>>] # Absent
          PROVE  Report(r) # Absent \/ tmp[<<"report", r>>] # Absent
      <4>1. CASE <<"report", r>> = target
        BY <3>1, <4>1
      <4>2. CASE <<"report", r>> # target
        BY <3>3, <3>4, <3>7, <4>2 DEF Kinds
      <4> QED
        BY <4>1, <4>2
    <3> QED
      BY <3>5, <3>6, <3>7
  <2>3. CASE RenameFails(a)
    <3>1. UNCHANGED <<file, tmp>> /\ pc[a] = "rename"
      BY <2>3 DEF RenameFails
    <3>2. \A w \in Workers : pc'[w] \in {"running", "write", "put", "rename"} =>
            pc[w] \in {"running", "write", "put", "rename"} /\ job'[w] = job[w]
      BY <2>3, <3>1 DEF RenameFails, Leave
    <3> QED
      BY <3>1, <3>2
  <2>4. CASE PutTmp(a)
    <3>1. /\ pc' = [pc EXCEPT ![a] = "rename"] /\ pc[a] = "put"
          /\ job[a] \in Runs /\ UNCHANGED job
      BY <2>4, PutEffect
    <3>2. PICK c \in Content \cup Torn :
            /\ file' = file \/ file' = [file EXCEPT ![Target(a)] = c]
            /\ tmp' = tmp \/ tmp' = [tmp EXCEPT ![Target(a)] = c]
      BY <2>4, PutEffect
    <3>3. c # Absent
      BY DEF Torn
    <3>4. \A r \in Runs : Claim(r) # Absent => Claim(r)' # Absent
      BY <3>2, <3>3 DEF Kinds
    <3>5. ASSUME NEW r \in Runs, Report(r)' # Absent \/ tmp'[<<"report", r>>] # Absent
          PROVE  Claim(r) # Absent
      <4>1. CASE Target(a) = <<"report", r>>
        BY <3>1, <4>1
      <4>2. CASE Target(a) # <<"report", r>>
        BY <3>2, <3>5, <4>2 DEF Kinds
      <4> QED
        BY <4>1, <4>2
    <3> QED
      BY <3>1, <3>4, <3>5
  <2> QED
    BY <1>6, <2>1, <2>2, <2>3, <2>4 DEF Publish
<1>7. CASE Tick
  BY <1>7 DEF Tick
<1>8. CASE UNCHANGED vars
  BY <1>8 DEF vars
<1> QED
  BY <1>1, <1>2, <1>3, <1>4, <1>5, <1>6, <1>7, <1>8 DEF Next

\* A file that was published never goes away.
LEMMA FilesStay ==
  TypeOK /\ PhaseOK /\ [Next]_vars
    => \A x \in Kinds \X Runs : file[x] # Absent => file'[x] # Absent
<1> SUFFICES ASSUME TypeOK, PhaseOK, [Next]_vars
             PROVE  \A x \in Kinds \X Runs : file[x] # Absent => file'[x] # Absent
  OBVIOUS
<1> DEFINE Grows == \E x \in Kinds \X Runs, c \in Content \cup Torn : file' = [file EXCEPT ![x] = c]
<1>1. ASSUME NEW w \in Workers, CreateClaim(w) \/ FillClaim(w) PROVE Grows
  <2>1. job[w] \in Runs /\ out[w] \in Content /\ <<"claim", job[w]>> \in Kinds \X Runs
    BY <1>1 DEF CreateClaim, FillClaim, PhaseOK, Actors, Kinds
  <2> QED
    BY <1>1, <2>1 DEF CreateClaim, FillClaim, Torn
<1>2. ASSUME NEW a \in Actors, PutTmp(a) PROVE Grows \/ UNCHANGED file
  BY <1>2, PutEffect
<1>3. ASSUME NEW a \in Actors, RenameTmp(a) PROVE Grows
  BY <1>3, RenameEffect
<1>4. Grows \/ UNCHANGED file
  BY <1>1, <1>2, <1>3
     DEF Next, vars, Dispatch, Work, ListDispatches, ListReports, NothingPending,
         SkipClaimed, ClaimUnreadable, FindUnclaimed, FindReclaimable, PrepareClaim,
         CreateLost, RunnerReports, RunnerFails, Crash, OperatorReleases, Publish,
         OpenTmp, RenameFails, Tick
<1>5. \A c \in Content \cup Torn : c # Absent
  BY QueueAssumption DEF Torn
<1> QED
  BY <1>4, <1>5 DEF TypeOK

\* A step leaves open files only with processes that are writing.
LEMMA OpenStep == TypeOK /\ PhaseOK /\ OpenOK /\ [Next]_vars => OpenOK'
<1> SUFFICES ASSUME TypeOK, PhaseOK, OpenOK, [Next]_vars PROVE OpenOK'
  OBVIOUS
<1> USE QueueAssumption DEF TypeOK, PhaseOK, OpenOK
<1>a. \A x \in Kinds \X Runs : file[x] # Absent => file'[x] # Absent
  BY FilesStay
<1>b. \A a \in Actors : fd[a] # "none" => Target(a) \in Kinds \X Runs
  BY DEF Target, Content
<1>c. ASSUME \A a \in Actors : fd'[a] # "none" =>
               pc'[a] = "put" /\ fd'[a] = fd[a] /\ Target(a)' = Target(a)
      PROVE  OpenOK'
  BY <1>a, <1>b, <1>c
<1>1. ASSUME NEW w \in Workers, Work(w) \/ RunnerFails(w) PROVE OpenOK'
  <2>1. pc[w] # "put" /\ fd' = fd
    BY <1>1 DEF Work, ListDispatches, ListReports, NothingPending, SkipClaimed, ClaimUnreadable,
                FindUnclaimed, FindReclaimable, PrepareClaim, CreateClaim, CreateLost,
                FillClaim, RunnerReports, RunnerFails
  <2>2. \A a \in Actors \ {w} : UNCHANGED <<pc[a], job[a], out[a]>>
    BY <1>1 DEF Work, ListDispatches, ListReports, NothingPending, SkipClaimed, ClaimUnreadable,
                FindUnclaimed, FindReclaimable, PrepareClaim, CreateClaim, CreateLost,
                FillClaim, RunnerReports, RunnerFails, Goto
  <2> QED
    BY <1>c, <2>1, <2>2 DEF Target
<1>2. ASSUME NEW r \in Runs, OperatorReleases(r) PROVE OpenOK'
  <2>1. pc[Operator] # "put" /\ fd' = fd
    BY <1>2 DEF OperatorReleases
  <2>2. \A a \in Actors \ {Operator} : UNCHANGED <<pc[a], job[a], out[a]>>
    BY <1>2 DEF OperatorReleases, Goto
  <2> QED
    BY <1>c, <2>1, <2>2 DEF Target
<1>3. ASSUME NEW w \in Workers, Crash(w) PROVE OpenOK'
  <2>1. /\ fd' = [fd EXCEPT ![w] = "none"] /\ w \in Actors
        /\ \A a \in Actors \ {w} : UNCHANGED <<pc[a], job[a], out[a]>>
    BY <1>3 DEF Crash, Leave, Goto, Actors
  <2> QED
    BY <1>c, <2>1 DEF Target
<1>4. ASSUME NEW b \in Actors, OpenTmp(b) PROVE OpenOK'
  <2>1. /\ fd' = [fd EXCEPT ![b] = "tmp"] /\ pc' = [pc EXCEPT ![b] = "put"]
        /\ UNCHANGED <<file, job, out>>
    BY <1>4 DEF OpenTmp, Goto
  <2> QED
    BY <2>1 DEF Target
<1>5. ASSUME NEW b \in Actors, PutTmp(b) PROVE OpenOK'
  <2>1. /\ fd' = [fd EXCEPT ![b] = "none"] /\ pc' = [pc EXCEPT ![b] = "rename"]
        /\ UNCHANGED <<job, out>>
    BY <1>5, PutEffect
  <2> QED
    BY <1>c, <2>1 DEF Target
<1>6. ASSUME NEW b \in Actors, RenameTmp(b) PROVE OpenOK'
  <2>1. /\ pc[b] = "rename" /\ fd[b] = "none" /\ fd' = Moved(b)
        /\ file' = [file EXCEPT ![Target(b)] = tmp[Target(b)]]
        /\ tmp[Target(b)] # Absent
        /\ \A a \in Actors \ {b} : UNCHANGED <<pc[a], job[a], out[a]>>
    BY <1>6, RenameEffect
  <2>2. SUFFICES ASSUME NEW a \in Actors, fd'[a] # "none"
                 PROVE  pc'[a] = "put" /\ (fd'[a] = "live" => file'[Target(a)'] # Absent)
    OBVIOUS
  <2>3. fd[a] # "none" /\ a # b
    BY <2>1, <2>2 DEF Moved
  <2>4. Target(a)' = Target(a) /\ pc'[a] = "put"
    BY <2>1, <2>3 DEF Target
  <2>5. CASE Target(a) = Target(b)
    BY <1>b, <2>1, <2>3, <2>4, <2>5
  <2>6. CASE Target(a) # Target(b)
    BY <1>a, <1>b, <2>1, <2>3, <2>4, <2>6 DEF Moved
  <2> QED
    BY <2>5, <2>6
<1>7. ASSUME NEW b \in Actors, RenameFails(b) PROVE OpenOK'
  <2>1. /\ pc[b] = "rename" /\ fd' = fd
        /\ \A a \in Actors \ {b} : UNCHANGED <<pc[a], job[a], out[a]>>
    BY <1>7 DEF RenameFails, Leave, Goto
  <2> QED
    BY <1>c, <2>1 DEF Target
<1>8. CASE Tick \/ (\E r \in Runs : Dispatch(r)) \/ UNCHANGED vars
  BY <1>c, <1>8 DEF Tick, Dispatch, vars, Target
<1> QED
  BY <1>1, <1>2, <1>3, <1>4, <1>5, <1>6, <1>7, <1>8 DEF Next, Publish

\* What reopens a run is never undone.
LEMMA ReopenedStays == TypeOK /\ PhaseOK /\ FirstClaimOK /\ ClaimKept /\ [Next]_vars => (\A r \in Runs : Reopened(r) => Reopened(r)')
<1> SUFFICES ASSUME TypeOK, PhaseOK, FirstClaimOK, ClaimKept, [Next]_vars PROVE \A r \in Runs : Reopened(r) => Reopened(r)'
  OBVIOUS
<1> USE QueueAssumption DEF TypeOK, PhaseOK, FirstClaimOK, Goto, Claim, Release, Reopened, Target
<1>1. ASSUME NEW q \in Runs, Dispatch(q) PROVE (\A r \in Runs : Reopened(r) => Reopened(r)')
  BY <1>1 DEF Dispatch
<1>2. ASSUME NEW w \in Workers, Work(w) PROVE (\A r \in Runs : Reopened(r) => Reopened(r)')
  <2>1. CASE ListDispatches(w)
    BY <2>1 DEF ListDispatches
  <2>2. CASE ListReports(w)
    BY <2>2 DEF ListReports
  <2>3. CASE NothingPending(w)
    BY <2>3 DEF NothingPending
  <2>4. CASE SkipClaimed(w)
    BY <2>4 DEF SkipClaimed, First
  <2>5. CASE ClaimUnreadable(w)
    BY <2>5 DEF ClaimUnreadable
  <2>6. CASE FindUnclaimed(w)
    <3>1. now' = now + 1 /\ UNCHANGED <<file, firstClaim>>
      BY <2>6 DEF FindUnclaimed, PrepareClaim
    <3>2. \A r \in Runs : Release(r)' = Release(r) /\ firstClaim'[r] = firstClaim[r]
      BY <3>1
    <3> QED
      BY <3>1, <3>2
  <2>7. CASE FindReclaimable(w)
    <3>1. now' = now + 1 /\ UNCHANGED <<file, firstClaim>>
      BY <2>7 DEF FindReclaimable, PrepareClaim
    <3>2. \A r \in Runs : Release(r)' = Release(r) /\ firstClaim'[r] = firstClaim[r]
      BY <3>1
    <3> QED
      BY <3>1, <3>2
  <2>8. CASE CreateClaim(w)
    BY <2>8 DEF CreateClaim, Content, Kinds
  <2>9. CASE CreateLost(w)
    BY <2>9 DEF CreateLost
  <2>10. CASE FillClaim(w)
    BY <2>10 DEF FillClaim, Content, Kinds
  <2>11. CASE RunnerReports(w)
    BY <2>11 DEF RunnerReports, Payload, Content, Kinds
  <2> QED
    BY <1>2, <2>1, <2>2, <2>3, <2>4, <2>5, <2>6, <2>7, <2>8, <2>9, <2>10, <2>11 DEF Work
<1>3. ASSUME NEW w \in Workers, RunnerFails(w) PROVE (\A r \in Runs : Reopened(r) => Reopened(r)')
  BY <1>3 DEF RunnerFails, Payload, Content, Kinds
<1>4. ASSUME NEW w \in Workers, Crash(w) PROVE (\A r \in Runs : Reopened(r) => Reopened(r)')
  BY <1>4 DEF Crash, Leave
<1>5. ASSUME NEW q \in Runs, OperatorReleases(q) PROVE (\A r \in Runs : Reopened(r) => Reopened(r)')
  BY <1>5 DEF OperatorReleases, Payload, Content, Kinds
<1>6. ASSUME NEW a \in Actors, Publish(a) PROVE (\A r \in Runs : Reopened(r) => Reopened(r)')
  <2>1. CASE OpenTmp(a)
    BY <2>1 DEF OpenTmp, Content, Kinds, Torn
  <2>2. CASE RenameTmp(a)
    <3> DEFINE target == Target(a)
    <3>1. /\ target \in Kinds \X Runs
          /\ tmp[target] # Absent
          /\ file' = [file EXCEPT ![target] = tmp[target]]
          /\ firstClaim' = firstClaim /\ now' = now
      BY <2>2, RenameEffect
    <3>2. \A k \in Kinds, r \in Runs :
            file'[<<k, r>>] = IF <<k, r>> = target THEN tmp[target] ELSE file[<<k, r>>]
      BY <3>1
    <3>3. \A r \in Runs : Release(r) # Absent => Release(r)' # Absent
      BY <3>1, <3>2 DEF Kinds
    <3> QED
      BY <3>1, <3>3
  <2>3. CASE RenameFails(a)
    BY <2>3 DEF RenameFails, Leave, Payload, Content, Kinds
  <2>4. CASE PutTmp(a)
    <3>1. UNCHANGED <<firstClaim, now>>
      BY <2>4, PutEffect
    <3>2. PICK c \in Content \cup Torn :
            file' = file \/ file' = [file EXCEPT ![Target(a)] = c]
      BY <2>4, PutEffect
    <3>3. \A r \in Runs : Release(r) # Absent => Release(r)' # Absent
      BY <3>2 DEF Kinds, Torn
    <3> QED
      BY <3>1, <3>3
  <2> QED
    BY <1>6, <2>1, <2>2, <2>3, <2>4 DEF Publish
<1>7. CASE Tick
  BY <1>7 DEF Tick
<1>8. CASE UNCHANGED vars
  BY <1>8 DEF vars
<1> QED
  BY <1>1, <1>2, <1>3, <1>4, <1>5, <1>6, <1>7, <1>8 DEF Next

\* A run keeps its one holder when its files stay, nobody becomes engaged in it
\* and nobody sets out to write its claim.
LEMMA HolderStays ==
  ASSUME NEW r \in Runs, OneHolder(r),
         UNCHANGED <<Claim(r), Report(r), tmp[<<"claim", r>>], firstClaim[r]>>,
         \A w \in Workers : Engaged(w, r)' => Engaged(w, r) /\ (pc[w] = "fill" => pc'[w] = "fill"),
         \A w \in Workers : job'[w] = r /\ pc'[w] \in {"write", "put", "rename"} => out'[w].kind # "claim"
  PROVE  OneHolder(r)'
  BY DEF OneHolder

\* A step keeps a run that is not reopened with at most one holder.
LEMMA HolderStep == IInv /\ [Next]_vars => \A r \in Runs : (Reopened(r) \/ OneHolder(r))'
<1> SUFFICES ASSUME IInv, [Next]_vars, NEW r \in Runs, ~Reopened(r)' PROVE OneHolder(r)'
  OBVIOUS
<1> USE QueueAssumption DEF TypeOK, PhaseOK, Goto, Actors, Claim, Report, Engaged, OneHolder, Target
<1>a. TypeOK /\ PhaseOK /\ OpenOK /\ FirstClaimOK /\ ClaimKept
  BY DEF IInv
<1>b. ~Reopened(r)
  BY <1>a, ReopenedStays
<1>c. OneHolder(r)
  BY <1>b DEF IInv
<1> SUFFICES ASSUME TypeOK, PhaseOK, OpenOK, FirstClaimOK, ClaimKept, OneHolder(r)
             PROVE  OneHolder(r)'
  BY <1>a, <1>c
<1>1. ASSUME NEW q \in Runs, Dispatch(q) PROVE OneHolder(r)'
  BY <1>1 DEF Dispatch
<1>2. ASSUME NEW w \in Workers, Work(w) PROVE OneHolder(r)'
  <2>1. CASE ListDispatches(w)
    BY <2>1 DEF ListDispatches
  <2>2. CASE ListReports(w)
    BY <2>2 DEF ListReports
  <2>3. CASE NothingPending(w)
    BY <2>3 DEF NothingPending
  <2>4. CASE SkipClaimed(w)
    BY <2>4 DEF SkipClaimed, First
  <2>5. CASE ClaimUnreadable(w)
    BY <2>5 DEF ClaimUnreadable
  <2>6. CASE FindUnclaimed(w)
    BY <2>6 DEF FindUnclaimed, PrepareClaim, Payload, Content, Kinds, First
  <2>7. CASE FindReclaimable(w)
    <3>1. PICK q \in Runs : /\ Claim(q) # Absent /\ ~Unreadable(q)
                            /\ Released(q) \/ Stale(q)
                            /\ PrepareClaim(w, q, "write")
      BY <2>7 DEF FindReclaimable
    <3>2. ASSUME q = r PROVE FALSE
      <4>1. Release(r) = Absent
        BY <1>b DEF Reopened
      <4>2. firstClaim[r] \in Nat /\ now >= firstClaim[r] + Timeout
        BY <3>1, <3>2, <4>1 DEF FirstClaimOK, Released, Stale, Unreadable
      <4> QED
        BY <1>b, <4>2 DEF Reopened
    <3>3. /\ pc' = [pc EXCEPT ![w] = "write"]
          /\ job' = [job EXCEPT ![w] = q]
          /\ out' = [out EXCEPT ![w] = Payload("claim", w)]
          /\ UNCHANGED <<file, tmp, firstClaim>>
      BY <3>1 DEF PrepareClaim
    <3> QED
      BY <3>2, <3>3
  <2>8. CASE CreateClaim(w)
    <3>1. /\ pc' = [pc EXCEPT ![w] = "fill"]
          /\ file' = [file EXCEPT ![<<"claim", job[w]>>] = Empty]
          /\ firstClaim' = [firstClaim EXCEPT ![job[w]] = out[w].at]
          /\ UNCHANGED <<tmp, job, out>>
          /\ Claim(job[w]) = Absent
          /\ job[w] \in Runs
      BY <2>8 DEF CreateClaim
    <3>2. CASE job[w] = r
      <4>1. \A v \in Workers : pc[v] = "fill" => out[v].at # Absent
        BY DEF Content
      <4>2. \A v \in Workers : ~Engaged(v, r)
        BY <3>1, <3>2, <4>1 DEF FirstClaimOK, ClaimKept
      <4>3. \A v \in Workers : Engaged(v, r)' => v = w
        BY <3>1, <4>2
      <4>4. Report(r)' = Absent
        BY <3>1, <3>2 DEF ClaimKept, Kinds
      <4>5. Claim(r)' \in Torn
        BY <3>1, <3>2 DEF Kinds, Torn
      <4> QED
        BY <3>1, <4>3, <4>4, <4>5
    <3>3. CASE job[w] # r
      BY <3>1, <3>3 DEF Kinds
    <3> QED
      BY <3>2, <3>3
  <2>9. CASE CreateLost(w)
    BY <2>9 DEF CreateLost
  <2>10. CASE FillClaim(w)
    <3>1. /\ pc[w] = "fill"
          /\ pc' = [pc EXCEPT ![w] = "running"]
          /\ file' = [file EXCEPT ![<<"claim", job[w]>>] = out[w]]
          /\ out' = [out EXCEPT ![w] = Absent]
          /\ UNCHANGED <<tmp, job, firstClaim>>
          /\ job[w] \in Runs
      BY <2>10 DEF FillClaim
    <3>2. \A v \in Workers : Engaged(v, r)' <=> Engaged(v, r)
      BY <3>1
    <3>3. Report(r)' = Report(r)
      BY <3>1 DEF Kinds
    <3>4. CASE job[w] = r
      <4>1. Claim(r)' = out[w] /\ out[w] \notin Torn /\ firstClaim[r] = out[w].at
        BY <3>1, <3>4 DEF FirstClaimOK, Kinds, Torn
      <4>2. Report(r)' = Absent
        BY <3>1, <3>3, <3>4
      <4>3. \A v \in Workers : job'[v] = r /\ pc'[v] \in {"write", "put", "rename"} => out'[v].kind # "claim"
        BY <3>1
      <4>4. \A u, v \in Workers : Engaged(u, r)' /\ Engaged(v, r)' => u = v
        BY <3>2
      <4>5. Claim(r)' \notin Torn /\ Claim(r)'.at = firstClaim'[r]
        BY <3>1, <4>1
      <4>6. tmp'[<<"claim", r>>] = Absent
        BY <3>1
      <4> QED
        BY <4>2, <4>3, <4>4, <4>5, <4>6
    <3>5. CASE job[w] # r
      <4>1. Claim(r)' = Claim(r)
        BY <3>1, <3>5 DEF Kinds
      <4>2. \A v \in Workers : Engaged(v, r)' => (pc[v] = "fill" => pc'[v] = "fill")
        BY <3>1, <3>5
      <4>3. \A v \in Workers : job'[v] = r /\ pc'[v] \in {"write", "put", "rename"} => out'[v].kind # "claim"
        BY <3>1
      <4> QED
        BY <3>1, <3>2, <3>3, <4>1, <4>2, <4>3, HolderStays
    <3> QED
      BY <3>4, <3>5
  <2>11. CASE RunnerReports(w)
    <3>1. /\ pc[w] = "running" /\ pc' = [pc EXCEPT ![w] = "write"]
          /\ out' = [out EXCEPT ![w] = Payload("report", w)]
          /\ UNCHANGED <<file, tmp, job, firstClaim>>
      BY <2>11 DEF RunnerReports
    <3>2. Payload("report", w).kind # "claim"
      BY DEF Payload
    <3>a. UNCHANGED <<Claim(r), Report(r), tmp[<<"claim", r>>], firstClaim[r]>>
      BY <3>1
    <3>b. \A v \in Workers : Engaged(v, r)' => Engaged(v, r) /\ (pc[v] = "fill" => pc'[v] = "fill")
      BY <3>1
    <3>c. \A v \in Workers : job'[v] = r /\ pc'[v] \in {"write", "put", "rename"} => out'[v].kind # "claim"
      BY <3>1, <3>2
    <3> HIDE DEF OneHolder
    <3> QED
      BY <3>a, <3>b, <3>c, HolderStays
  <2> QED
    BY <1>2, <2>1, <2>2, <2>3, <2>4, <2>5, <2>6, <2>7, <2>8, <2>9, <2>10, <2>11 DEF Work
<1>3. ASSUME NEW w \in Workers, RunnerFails(w) PROVE OneHolder(r)'
  <2>1. /\ pc[w] = "running" /\ pc' = [pc EXCEPT ![w] = "write"]
        /\ out' = [out EXCEPT ![w] = Payload("release", w)]
        /\ UNCHANGED <<file, tmp, job, firstClaim>>
    BY <1>3 DEF RunnerFails
  <2>2. Payload("release", w).kind # "claim"
    BY DEF Payload
  <2>a. UNCHANGED <<Claim(r), Report(r), tmp[<<"claim", r>>], firstClaim[r]>>
    BY <2>1
  <2>b. \A v \in Workers : Engaged(v, r)' => Engaged(v, r) /\ (pc[v] = "fill" => pc'[v] = "fill")
    BY <2>1
  <2>c. \A v \in Workers : job'[v] = r /\ pc'[v] \in {"write", "put", "rename"} => out'[v].kind # "claim"
    BY <2>1, <2>2
  <2> HIDE DEF OneHolder
  <2> QED
    BY <2>a, <2>b, <2>c, HolderStays
<1>4. ASSUME NEW w \in Workers, Crash(w) PROVE OneHolder(r)'
  BY <1>4 DEF Crash, Leave
<1>5. ASSUME NEW q \in Runs, OperatorReleases(q) PROVE OneHolder(r)'
  BY <1>5 DEF OperatorReleases, Payload, Content, Kinds
<1>6. ASSUME NEW a \in Actors, Publish(a) PROVE OneHolder(r)'
  <2>1. CASE OpenTmp(a)
    <3>1. /\ pc[a] = "write" /\ pc' = [pc EXCEPT ![a] = "put"]
          /\ tmp' = [tmp EXCEPT ![Target(a)] = Empty]
          /\ UNCHANGED <<file, job, out, firstClaim>>
      BY <2>1 DEF OpenTmp
    <3>2. Target(a) # <<"claim", r>> /\ Target(a) \in Kinds \X Runs
      BY <3>1 DEF Content
    <3>3. tmp'[<<"claim", r>>] = tmp[<<"claim", r>>]
      BY <3>1, <3>2 DEF Kinds
    <3>a. UNCHANGED <<Claim(r), Report(r), tmp[<<"claim", r>>], firstClaim[r]>>
      BY <3>1, <3>3
    <3>b. \A v \in Workers : Engaged(v, r)' => Engaged(v, r) /\ (pc[v] = "fill" => pc'[v] = "fill")
      BY <3>1
    <3>c. \A v \in Workers : job'[v] = r /\ pc'[v] \in {"write", "put", "rename"} => out'[v].kind # "claim"
      BY <3>1
    <3> HIDE DEF OneHolder
    <3> QED
      BY <3>a, <3>b, <3>c, HolderStays
  <2>2. CASE RenameTmp(a)
    <3> DEFINE target == Target(a)
    <3>1. /\ pc[a] = "rename"
          /\ target \in Kinds \X Runs
          /\ tmp[target] # Absent
          /\ file' = [file EXCEPT ![target] = tmp[target]]
          /\ tmp' = [tmp EXCEPT ![target] = Absent]
          /\ firstClaim' = firstClaim
      BY <2>2, RenameEffect
    <3>2. /\ pc' = [pc EXCEPT ![a] = IF out[a].kind = "claim" THEN "running" ELSE "idle"]
          /\ out' = [out EXCEPT ![a] = Absent]
          /\ job' = IF out[a].kind = "claim" THEN job ELSE [job EXCEPT ![a] = NoRun]
      BY <2>2, RenameEffect
    <3>3. \A k \in Kinds, q \in Runs :
            file'[<<k, q>>] = IF <<k, q>> = target THEN tmp[target] ELSE file[<<k, q>>]
      BY <3>1
    <3>4. \A k \in Kinds, q \in Runs :
            tmp'[<<k, q>>] = IF <<k, q>> = target THEN Absent ELSE tmp[<<k, q>>]
      BY <3>1
    <3>5. target # <<"claim", r>>
      BY <3>1
    <3>6. \A w \in Workers : Engaged(w, r)' => Engaged(w, r)
      BY <3>1, <3>2 DEF NoRun
    <3>7. Claim(r)' = Claim(r) /\ tmp'[<<"claim", r>>] = Absent
      BY <3>3, <3>4, <3>5 DEF Kinds
    <3>8. ASSUME Report(r)' # Absent, NEW w \in Workers PROVE ~Engaged(w, r)'
      <4>1. CASE target = <<"report", r>>
        BY <3>1, <3>2, <3>6, <4>1 DEF NoRun
      <4>2. CASE target # <<"report", r>>
        BY <3>3, <3>6, <3>8, <4>2 DEF Kinds
      <4> QED
        BY <4>1, <4>2
    <3>9. ASSUME NEW w \in Workers, job'[w] = r, pc'[w] \in {"write", "put", "rename"}
          PROVE  out'[w].kind # "claim"
      BY <3>1, <3>2, <3>9
    <3>10. Report(r)' # Absent => Claim(r) \notin Torn
      <4>1. CASE target = <<"report", r>>
        <5>1. a \in Workers /\ Engaged(a, r) /\ pc[a] # "fill"
          BY <3>1, <4>1
        <5> QED
          BY <5>1
      <4>2. CASE target # <<"report", r>>
        BY <3>3, <4>2 DEF Kinds
      <4> QED
        BY <4>1, <4>2
    <3>11. \A w \in Workers : Engaged(w, r)' /\ pc'[w] # "fill" => pc[w] # "fill"
      BY <3>1, <3>2 DEF NoRun
    <3> QED
      BY <3>1, <3>6, <3>7, <3>8, <3>9, <3>10, <3>11
  <2>3. CASE RenameFails(a)
    <3>1. UNCHANGED <<file, tmp, firstClaim>> /\ pc[a] = "rename"
      BY <2>3 DEF RenameFails
    <3>2. CASE out[a].kind = "report"
      <4>1. /\ pc' = [pc EXCEPT ![a] = "write"]
            /\ out' = [out EXCEPT ![a] = Payload("release", a)]
            /\ job' = job
        BY <2>3, <3>2 DEF RenameFails
      <4>2. Payload("release", a).kind # "claim"
        BY DEF Payload
      <4>a. UNCHANGED <<Claim(r), Report(r), tmp[<<"claim", r>>], firstClaim[r]>>
        BY <3>1
      <4>b. \A v \in Workers : Engaged(v, r)' => Engaged(v, r) /\ (pc[v] = "fill" => pc'[v] = "fill")
        BY <3>1, <4>1
      <4>c. \A v \in Workers : job'[v] = r /\ pc'[v] \in {"write", "put", "rename"} => out'[v].kind # "claim"
        BY <3>1, <4>1, <4>2
      <4> HIDE DEF OneHolder
      <4> QED
        BY <4>a, <4>b, <4>c, HolderStays
    <3>3. CASE out[a].kind # "report"
      <4>1. /\ pc' = [pc EXCEPT ![a] = "idle"]
            /\ out' = [out EXCEPT ![a] = Absent]
            /\ job' = [job EXCEPT ![a] = NoRun]
        BY <2>3, <3>3 DEF RenameFails, Leave
      <4>a. UNCHANGED <<Claim(r), Report(r), tmp[<<"claim", r>>], firstClaim[r]>>
        BY <3>1
      <4>b. \A v \in Workers : Engaged(v, r)' => Engaged(v, r) /\ (pc[v] = "fill" => pc'[v] = "fill")
        BY <3>1, <4>1
      <4>c. \A v \in Workers : job'[v] = r /\ pc'[v] \in {"write", "put", "rename"} => out'[v].kind # "claim"
        BY <3>1, <4>1
      <4> HIDE DEF OneHolder
      <4> QED
        BY <4>a, <4>b, <4>c, HolderStays
    <3> QED
      BY <3>2, <3>3
  <2>4. CASE PutTmp(a)
    <3>1. /\ pc' = [pc EXCEPT ![a] = "rename"] /\ pc[a] = "put"
          /\ job[a] \in Runs /\ UNCHANGED <<job, out, firstClaim>>
      BY <2>4, PutEffect
    <3>2. PICK c \in Content \cup Torn :
            /\ \/ file' = file
               \/ fd[a] = "live" /\ file' = [file EXCEPT ![Target(a)] = c]
            /\ tmp' = tmp \/ tmp' = [tmp EXCEPT ![Target(a)] = c]
      BY <2>4, PutEffect
    <3>3. Target(a) # <<"claim", r>>
      BY <3>1
    <3>4. Claim(r)' = Claim(r) /\ tmp'[<<"claim", r>>] = Absent
      BY <3>2, <3>3 DEF Kinds
    <3>5. \A w \in Workers : Engaged(w, r)' <=> Engaged(w, r)
      BY <3>1
    <3>6. Report(r)' # Absent => Report(r) # Absent
      <4>1. CASE Target(a) = <<"report", r>>
        BY <3>2, <4>1 DEF OpenOK
      <4>2. CASE Target(a) # <<"report", r>>
        BY <3>2, <4>2 DEF Kinds
      <4> QED
        BY <4>1, <4>2
    <3> QED
      BY <3>1, <3>4, <3>5, <3>6
  <2> QED
    BY <1>6, <2>1, <2>2, <2>3, <2>4 DEF Publish
<1>7. CASE Tick
  BY <1>7 DEF Tick
<1>8. CASE UNCHANGED vars
  BY <1>8 DEF vars
<1> QED
  BY <1>1, <1>2, <1>3, <1>4, <1>5, <1>6, <1>7, <1>8 DEF Next

--------------------------------------------------------------------------------
\* The strengthening holds at the start ...
LEMMA InvInitial == Init => IInv
<1> SUFFICES ASSUME Init PROVE IInv
  OBVIOUS
<1> USE QueueAssumption DEF Init, Actors, Claim, Report, Release, Kinds
<1>1. TypeOK
  BY TypeInitial
<1>2. PhaseOK /\ OpenOK /\ FirstClaimOK /\ ClaimKept
  BY DEF PhaseOK, OpenOK, FirstClaimOK, ClaimKept
<1>3. \A r \in Runs : OneHolder(r)
  BY DEF OneHolder, Engaged
<1> QED
  BY <1>1, <1>2, <1>3 DEF IInv

\* ... and every step keeps it.
LEMMA InvStep == IInv /\ [Next]_vars => IInv'
<1> SUFFICES ASSUME IInv, [Next]_vars PROVE IInv'
  OBVIOUS
<1>1. TypeOK /\ PhaseOK /\ OpenOK /\ FirstClaimOK /\ ClaimKept
  BY DEF IInv
<1>2. TypeOK' /\ PhaseOK' /\ OpenOK' /\ FirstClaimOK' /\ ClaimKept'
  BY <1>1, TypeStep, PhaseStep, OpenStep, FirstClaimStep, ClaimKeptStep
<1>3. \A r \in Runs : (Reopened(r) \/ OneHolder(r))'
  BY HolderStep
<1> QED
  BY <1>2, <1>3 DEF IInv

\* The strengthening of the queue's safety properties is an invariant.
THEOREM Inductive == Spec => []IInv
  BY InvInitial, InvStep, PTL DEF Spec

\* Without a release marker and within the idle timeout of its first claim, a
\* run is executed by at most one worker, however many workers race for it.
THEOREM ExclusiveExecution == Spec => []Exclusive
<1>1. IInv => Exclusive
  <2> SUFFICES ASSUME IInv, NEW r \in Runs, NEW v \in Workers, NEW w \in Workers,
                      Executing(v, r), Executing(w, r), ~Reopened(r)
               PROVE  v = w
    BY DEF Exclusive
  <2>1. OneHolder(r)
    BY DEF IInv
  <2>2. Engaged(v, r) /\ Engaged(w, r)
    BY DEF Executing, Engaged
  <2> QED
    BY <2>1, <2>2 DEF OneHolder
<1> QED
  BY <1>1, Inductive, PTL

\* Behind all work and every report there is a claim file, and it is readable until
\* the run is released or timed out: however many writers truncate and fill the shared
\* temporary file over each other, and wherever one dies, no claim is spoiled before.
THEOREM ClaimBeforeWork == Spec => []WorkIsClaimed
<1>1. IInv => WorkIsClaimed
  <2> SUFFICES ASSUME IInv, NEW r \in Runs,
                      Report(r) # Absent \/ \E w \in Workers : Executing(w, r)
               PROVE  Claim(r) # Absent /\ (Reopened(r) \/ Claim(r) \notin Torn)
    BY DEF WorkIsClaimed
  <2>1. Claim(r) # Absent
    BY DEF IInv, ClaimKept, Executing
  <2>2. ASSUME OneHolder(r) PROVE Claim(r) \notin Torn
    BY <2>2 DEF OneHolder, Engaged, Executing
  <2> QED
    BY <2>1, <2>2 DEF IInv
<1> QED
  BY <1>1, Inductive, PTL

\* A report is replaced only in a run that was reopened before.
LEMMA ReportStep ==
  IInv /\ [Next]_vars
    => \A r \in Runs : Report(r) # Absent /\ Report(r)' # Report(r) => Reopened(r)
<1> SUFFICES ASSUME IInv, [Next]_vars, NEW r \in Runs, ~Reopened(r),
                    Report(r) # Absent
             PROVE  Report(r)' = Report(r)
  OBVIOUS
<1> USE DEF Report
<1>1. /\ TypeOK /\ PhaseOK
      /\ \A w \in Workers : ~Engaged(w, r)
  BY DEF IInv, OneHolder
<1>2. ASSUME NEW w \in Workers, CreateClaim(w) \/ FillClaim(w) PROVE Report(r)' = Report(r)
  BY <1>1, <1>2 DEF CreateClaim, FillClaim, TypeOK, Kinds
<1>3. ASSUME NEW a \in Actors, PutTmp(a) \/ RenameTmp(a) PROVE Report(r)' = Report(r)
  <2>1. pc[a] \in {"put", "rename"}
    BY <1>3 DEF PutTmp, RenameTmp
  <2>2. Target(a) # <<"report", r>>
    <3>1. CASE a \in Workers
      BY <1>1, <2>1, <3>1 DEF Target, Engaged
    <3>2. CASE a = Operator
      BY <1>1, <2>1, <3>2 DEF Target, PhaseOK
    <3> QED
      BY <3>1, <3>2 DEF Actors
  <2>3. file' = file \/ \E c : file' = [file EXCEPT ![Target(a)] = c]
    BY <1>1, <1>3, PutEffect, RenameEffect
  <2> QED
    BY <1>1, <2>2, <2>3 DEF TypeOK, Kinds
<1>4. CASE UNCHANGED file
  BY <1>4
<1> QED
  <2>1. \/ UNCHANGED file
        \/ \E w \in Workers : CreateClaim(w) \/ FillClaim(w)
        \/ \E a \in Actors : PutTmp(a) \/ RenameTmp(a)
    BY DEF Next, vars, Dispatch, Work, ListDispatches, ListReports, NothingPending,
           SkipClaimed, ClaimUnreadable, FindUnclaimed, FindReclaimable, PrepareClaim,
           CreateLost, RunnerReports, RunnerFails, Crash, OperatorReleases, Publish,
           OpenTmp, RenameFails, Tick
  <2> QED
    BY <2>1, <1>2, <1>3, <1>4

\* The first answer to a run stays its answer until the run is reopened.
THEOREM FirstReportStands == Spec => ReportStable
<1>1. IInv /\ [Next]_vars
        => [\A r \in Runs :
              Report(r) # Absent /\ Report(r)' # Report(r) => Reopened(r)]_vars
  BY ReportStep
<1> QED
  BY <1>1, Inductive, PTL DEF Spec, ReportStable
================================================================================
