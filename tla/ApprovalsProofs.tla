---------------------------- MODULE ApprovalsProofs ----------------------------
(***************************************************************************)
(* Proofs about Approvals, for every number of processes, calls, kinds,    *)
(* rules and crashes.  The marker file decides: at most one process is     *)
(* between the marker and the run of an id, and it got there with a yes    *)
(* for that id and a decision of that kind.                                *)
(***************************************************************************)
EXTENDS Approvals, TLAPS

\* A process that may still run the call holds what the run must stand on.
AnswersKnown ==
  /\ \A id \in ApprovalIds : ticket[id] # "none" => id \in consent
  /\ \A p \in Procs :
       /\ pc[p] = "resuming" => receipt[p] \in consent
       /\ pc[p] \in {"checked", "cleared"} => held[p] \in consent /\ seen[p] = held[p].kind

\* A process that cleared an id is the only one, and it has not run it yet.
MarkersExclusive ==
  /\ \A id \in ApprovalIds : ran[id] # <<>> => id \in spent
  /\ \A p \in Procs : pc[p] = "cleared" =>
       /\ held[p] \in spent
       /\ ran[held[p]] = <<>>
       /\ \A q \in Procs : pc[q] = "cleared" /\ held[q] = held[p] => p = q

\* A pending file is filled by the process that created it.
WritersExclusive ==
  \A p \in Procs : pc[p] = "filling" =>
    /\ pending[held[p]] = "torn"
    /\ \A q \in Procs : pc[q] = "filling" /\ held[q] = held[p] => p = q

RunInv == TypeOK /\ AnswersKnown /\ MarkersExclusive /\ OncePerApproval /\ ConsentedTo /\ RanAsShown

FileInv == TypeOK /\ WritersExclusive /\ PromptIsDurable

--------------------------------------------------------------------------------

\* An id is a call and a kind the operator is asked about.
LEMMA IdsAreRecords ==
  ASSUME NEW id \in ApprovalIds
  PROVE  id.call \in Calls /\ id.kind \in Kinds
  BY DEF ApprovalIds

\* Leaving changes the process' own variables only, and types them.
LEMMA LeaveTyped ==
  ASSUME TypeOK, NEW p \in Procs, Leave(p)
  PROVE  /\ pc' \in [Procs -> Steps]
         /\ held' \in [Procs -> ApprovalIds \cup {NoId}]
         /\ receipt' \in [Procs -> ApprovalIds \cup {NoId}]
         /\ seen' \in [Procs -> Decisions]
         /\ reason' \in [Procs -> {"none"} \cup Rules]
         /\ pc'[p] = "idle"
         /\ \A q \in Procs : q # p => /\ pc'[q] = pc[q] /\ held'[q] = held[q]
                                      /\ receipt'[q] = receipt[q] /\ seen'[q] = seen[q]
                                      /\ reason'[q] = reason[q]
  BY DEF TypeOK, Leave, Goto, Steps, Decisions

\* Moving on changes where the process stands.
LEMMA GotoTyped ==
  ASSUME TypeOK, NEW p \in Procs, NEW where \in Steps, Goto(p, where)
  PROVE  /\ pc' \in [Procs -> Steps]
         /\ pc'[p] = where
         /\ \A q \in Procs : q # p => pc'[q] = pc[q]
  BY DEF TypeOK, Goto

\* Every variable has its type at the start.
LEMMA TypeInitial == Init => TypeOK
<1>1. 0 \in 0 .. MaxCrashes
  BY ApprovalsAssumption
<1> QED
  BY <1>1 DEF Init, TypeOK, Steps, Decisions

\* Every step keeps the type of every variable.
LEMMA TypeStep == TypeOK /\ [Next]_vars => TypeOK'
<1> SUFFICES ASSUME TypeOK, [Next]_vars PROVE TypeOK'
  OBVIOUS
<1> USE DEF world, files, locals, history
<1>1. ASSUME NEW p \in Procs, Step(p) PROVE TypeOK'
  <2>1. ASSUME NEW c \in Calls, Ask(p, c) PROVE TypeOK'
    <3>1. policy[c] \in Kinds /\ [call |-> c, kind |-> policy[c]] \in ApprovalIds
      BY <2>1 DEF Ask, NeedsApproval, ApprovalIds
    <3>2. "asking" \in Steps
      BY DEF Steps
    <3> QED
      BY <2>1, <3>1, <3>2, GotoTyped DEF Ask, TypeOK
  <2>2. CASE CreatePending(p)
    BY <2>2, GotoTyped DEF CreatePending, TypeOK, Steps
  <2>3. CASE FillPending(p)
    BY <2>3, GotoTyped DEF FillPending, TypeOK, Steps
  <2>4. CASE FindPending(p)
    BY <2>4, GotoTyped DEF FindPending, TypeOK, Steps
  <2>5. CASE PendingConflict(p)
    BY <2>5, LeaveTyped DEF PendingConflict, TypeOK
  <2>6. CASE SayYes(p)
    BY <2>6, GotoTyped DEF SayYes, TypeOK, Steps
  <2>7. CASE SayNo(p)
    BY <2>7, LeaveTyped DEF SayNo, TypeOK
  <2>8. ASSUME NEW id \in ApprovalIds, NEW signed \in ApprovalIds, BringTicket(p, id, signed)
        PROVE  TypeOK'
    BY <2>8, GotoTyped DEF BringTicket, TypeOK, Steps
  <2>9. CASE CheckAgain(p)
    <3>1. held[p].call \in Calls
      BY <2>9, IdsAreRecords DEF CheckAgain, TypeOK
    <3> QED
      BY <2>9, <3>1, GotoTyped DEF CheckAgain, TypeOK, Steps
  <2>10. CASE Refuse(p)
    BY <2>10, LeaveTyped DEF Refuse, TypeOK
  <2>11. CASE Consume(p)
    BY <2>11, GotoTyped DEF Consume, TypeOK, Steps
  <2>12. CASE AlreadyConsumed(p)
    BY <2>12, LeaveTyped DEF AlreadyConsumed, TypeOK
  <2>13. CASE RunCall(p)
    <3>1. ran' \in [ApprovalIds -> Seq(Decisions)]
      BY <2>13 DEF RunCall, TypeOK
    <3> QED
      BY <2>13, <3>1, LeaveTyped DEF RunCall, TypeOK
  <2>14. CASE Crash(p)
    <3>1. crashes' \in 0 .. MaxCrashes
      BY <2>14, ApprovalsAssumption DEF Crash, TypeOK
    <3> QED
      BY <2>14, <3>1, LeaveTyped DEF Crash, TypeOK
  <2> QED
    BY <1>1, <2>1, <2>2, <2>3, <2>4, <2>5, <2>6, <2>7, <2>8, <2>9, <2>10, <2>11, <2>12, <2>13,
       <2>14 DEF Step
<1>2. CASE World
  BY <1>2 DEF World, SignTicket, TicketExpires, EditPolicy, EditRules, SwitchIdentity, TypeOK
<1>3. CASE UNCHANGED vars
  BY <1>3 DEF vars, TypeOK
<1> QED
  BY <1>1, <1>2, <1>3 DEF Next

\* Every variable keeps its type.
THEOREM TypeCorrect == Spec => []TypeOK
  BY TypeInitial, TypeStep, PTL DEF Spec

--------------------------------------------------------------------------------

\* At first no approval was asked for, so nothing has run.
LEMMA RunInitial == Init => RunInv
<1> SUFFICES ASSUME Init PROVE RunInv
  OBVIOUS
<1>1. TypeOK
  BY TypeInitial
<1>2. \A id \in ApprovalIds : ran[id] = <<>> /\ ticket[id] = "none"
  BY DEF Init
<1>3. \A p \in Procs : pc[p] = "idle"
  BY DEF Init
<1> QED
  BY <1>1, <1>2, <1>3
     DEF RunInv, AnswersKnown, MarkersExclusive, OncePerApproval, ConsentedTo, RanAsShown

\* A step that only makes a process leave, and touches no ticket, marker, yes
\* or run, keeps the invariant.
LEMMA LeaveKeepsRunInv ==
  ASSUME RunInv, TypeOK', NEW p \in Procs, Leave(p), UNCHANGED <<ticket, spent, consent, ran>>
  PROVE  RunInv'
<1>1. TypeOK
  BY DEF RunInv
<1>2. /\ pc'[p] = "idle"
      /\ \A q \in Procs : q # p => /\ pc'[q] = pc[q] /\ held'[q] = held[q]
                                   /\ receipt'[q] = receipt[q] /\ seen'[q] = seen[q]
  BY <1>1, LeaveTyped
<1>3. AnswersKnown'
  BY <1>2 DEF RunInv, AnswersKnown
<1>4. MarkersExclusive'
  BY <1>2 DEF RunInv, MarkersExclusive
<1> QED
  BY <1>3, <1>4 DEF RunInv, OncePerApproval, ConsentedTo, RanAsShown

\* A step that only moves a process to a place where it has no answer yet
\* keeps the invariant.
LEMMA AskingKeepsRunInv ==
  ASSUME RunInv, TypeOK', NEW p \in Procs,
         pc'[p] \notin {"resuming", "checked", "cleared"},
         \A q \in Procs : q # p => /\ pc'[q] = pc[q] /\ held'[q] = held[q]
                                   /\ receipt'[q] = receipt[q] /\ seen'[q] = seen[q],
         UNCHANGED <<ticket, spent, consent, ran>>
  PROVE  RunInv'
<1>1. AnswersKnown'
  BY DEF RunInv, AnswersKnown
<1>2. MarkersExclusive'
  BY DEF RunInv, MarkersExclusive
<1> QED
  BY <1>1, <1>2 DEF RunInv, OncePerApproval, ConsentedTo, RanAsShown

\* Whatever a process does, nothing runs but what was consented to, once, as it
\* was shown.
LEMMA RunStep == RunInv /\ [Next]_vars => RunInv'
<1> SUFFICES ASSUME RunInv, [Next]_vars PROVE RunInv'
  OBVIOUS
<1>0. TypeOK /\ TypeOK'
  BY TypeStep DEF RunInv
<1> USE DEF world, files, locals, history
<1>1. ASSUME NEW p \in Procs, Step(p) PROVE RunInv'
  <2>1. ASSUME NEW c \in Calls, Ask(p, c) PROVE RunInv'
    BY <1>0, <2>1, AskingKeepsRunInv, GotoTyped DEF Ask, Goto, TypeOK, Steps
  <2>2. CASE CreatePending(p) \/ FillPending(p) \/ FindPending(p)
    <3>1. CASE CreatePending(p)
      BY <1>0, <3>1, AskingKeepsRunInv DEF CreatePending, Goto, TypeOK, Steps
    <3>2. CASE FillPending(p)
      BY <1>0, <3>2, AskingKeepsRunInv DEF FillPending, Goto, TypeOK, Steps
    <3>3. CASE FindPending(p)
      BY <1>0, <3>3, AskingKeepsRunInv DEF FindPending, Goto, TypeOK, Steps
    <3> QED
      BY <2>2, <3>1, <3>2, <3>3
  <2>3. CASE PendingConflict(p) \/ SayNo(p) \/ Refuse(p) \/ AlreadyConsumed(p) \/ Crash(p)
    BY <1>0, <2>3, LeaveKeepsRunInv DEF PendingConflict, SayNo, Refuse, AlreadyConsumed, Crash
  <2>4. CASE SayYes(p)
    <3>1. /\ pc' = [pc EXCEPT ![p] = "resuming"] /\ receipt' = [receipt EXCEPT ![p] = held[p]]
          /\ consent' = consent \cup {held[p]} /\ UNCHANGED <<ticket, spent, held, seen, ran>>
      BY <2>4 DEF SayYes, Goto
    <3>2. AnswersKnown'
      BY <1>0, <3>1 DEF RunInv, AnswersKnown, TypeOK
    <3>3. MarkersExclusive'
      BY <1>0, <3>1 DEF RunInv, MarkersExclusive, TypeOK
    <3> QED
      BY <1>0, <3>1, <3>2, <3>3 DEF RunInv, OncePerApproval, ConsentedTo, RanAsShown
  <2>5. ASSUME NEW id \in ApprovalIds, NEW signed \in ApprovalIds, BringTicket(p, id, signed)
        PROVE  RunInv'
    <3>1. /\ pc' = [pc EXCEPT ![p] = "resuming"] /\ receipt' = [receipt EXCEPT ![p] = signed]
          /\ held' = [held EXCEPT ![p] = id] /\ ticket[signed] = "fresh"
          /\ UNCHANGED <<ticket, spent, seen, ran, consent>>
      BY <2>5 DEF BringTicket, Goto
    <3>2. AnswersKnown'
      BY <1>0, <3>1 DEF RunInv, AnswersKnown, TypeOK
    <3>3. MarkersExclusive'
      BY <1>0, <3>1 DEF RunInv, MarkersExclusive, TypeOK
    <3> QED
      BY <1>0, <3>1, <3>2, <3>3 DEF RunInv, OncePerApproval, ConsentedTo, RanAsShown
  <2>6. CASE CheckAgain(p)
    <3>1. /\ pc' = [pc EXCEPT ![p] = "checked"] /\ seen' = [seen EXCEPT ![p] = held[p].kind]
          /\ pc[p] = "resuming" /\ receipt[p] = held[p]
          /\ UNCHANGED <<ticket, spent, held, receipt, ran, consent>>
      BY <2>6 DEF CheckAgain, Goto, Resumable, ReceiptMatches, StillAsked
    <3>2. AnswersKnown'
      BY <1>0, <3>1 DEF RunInv, AnswersKnown, TypeOK
    <3>3. MarkersExclusive'
      BY <1>0, <3>1 DEF RunInv, MarkersExclusive, TypeOK
    <3> QED
      BY <1>0, <3>1, <3>2, <3>3 DEF RunInv, OncePerApproval, ConsentedTo, RanAsShown
  <2>7. CASE Consume(p)
    <3>1. /\ pc' = [pc EXCEPT ![p] = "cleared"] /\ spent' = spent \cup {held[p]}
          /\ pc[p] = "checked" /\ held[p] \notin spent
          /\ UNCHANGED <<ticket, held, receipt, seen, ran, consent>>
      BY <2>7 DEF Consume, Goto, MayConsume
    <3>2. AnswersKnown'
      BY <1>0, <3>1 DEF RunInv, AnswersKnown, TypeOK
    <3>3. held[p] \in ApprovalIds /\ ran[held[p]] = <<>>
      BY <1>0, <3>1 DEF RunInv, MarkersExclusive, TypeOK
    <3>4. MarkersExclusive'
      BY <1>0, <3>1, <3>3 DEF RunInv, MarkersExclusive, TypeOK
    <3> QED
      BY <1>0, <3>1, <3>2, <3>4 DEF RunInv, OncePerApproval, ConsentedTo, RanAsShown
  <2>8. CASE RunCall(p)
    <3>1. /\ pc[p] = "cleared" /\ ran' = [ran EXCEPT ![held[p]] = Append(ran[held[p]], seen[p])]
          /\ UNCHANGED <<ticket, spent, consent>>
      BY <2>8 DEF RunCall
    <3>2. /\ pc'[p] = "idle"
          /\ \A q \in Procs : q # p => /\ pc'[q] = pc[q] /\ held'[q] = held[q]
                                       /\ receipt'[q] = receipt[q] /\ seen'[q] = seen[q]
      BY <1>0, <2>8, LeaveTyped DEF RunCall
    <3>3. /\ held[p] \in ApprovalIds /\ held[p] \in spent /\ held[p] \in consent
          /\ ran[held[p]] = <<>> /\ seen[p] = held[p].kind
      BY <1>0, <3>1 DEF RunInv, MarkersExclusive, AnswersKnown, TypeOK
    <3>4. Append(ran[held[p]], seen[p]) = <<held[p].kind>>
      BY <3>3
    <3>5. ran' = [ran EXCEPT ![held[p]] = <<held[p].kind>>]
      BY <3>1, <3>4
    <3>6. AnswersKnown'
      BY <3>1, <3>2 DEF RunInv, AnswersKnown
    <3>7. MarkersExclusive'
      <4>1. \A id \in ApprovalIds : id # held[p] => ran'[id] = ran[id]
        BY <1>0, <3>5 DEF TypeOK
      <4>2. \A id \in ApprovalIds : ran'[id] # <<>> => id \in spent'
        BY <3>1, <3>3, <4>1 DEF RunInv, MarkersExclusive
      <4>3. \A q \in Procs : pc'[q] = "cleared" =>
              q # p /\ pc[q] = "cleared" /\ held'[q] = held[q] /\ held[q] \in ApprovalIds
        BY <1>0, <3>2 DEF TypeOK
      <4>4. \A q \in Procs : pc'[q] = "cleared" => held[q] # held[p] /\ ran[held[q]] = <<>>
        BY <3>1, <4>3 DEF RunInv, MarkersExclusive
      <4>5. \A q \in Procs : pc'[q] = "cleared" => held'[q] \in spent' /\ ran'[held'[q]] = <<>>
        BY <3>1, <4>1, <4>3, <4>4 DEF RunInv, MarkersExclusive
      <4>6. \A q, r \in Procs :
              pc'[q] = "cleared" /\ pc'[r] = "cleared" /\ held'[r] = held'[q] => q = r
        BY <4>3 DEF RunInv, MarkersExclusive
      <4> QED
        BY <4>2, <4>5, <4>6 DEF MarkersExclusive
    <3>8. /\ Len(<<held[p].kind>>) = 1 /\ <<held[p].kind>> # <<>>
          /\ DOMAIN <<held[p].kind>> = {1} /\ <<held[p].kind>>[1] = held[p].kind
      OBVIOUS
    <3>9. OncePerApproval' /\ RanAsShown'
      BY <1>0, <3>3, <3>5, <3>8 DEF RunInv, OncePerApproval, RanAsShown, TypeOK
    <3>10. ConsentedTo'
      BY <1>0, <3>1, <3>3, <3>5 DEF RunInv, ConsentedTo, TypeOK
    <3> QED
      BY <1>0, <3>6, <3>7, <3>9, <3>10 DEF RunInv
  <2> QED
    BY <1>1, <2>1, <2>2, <2>3, <2>4, <2>5, <2>6, <2>7, <2>8 DEF Step
<1>2. CASE World
  <2>1. UNCHANGED <<pc, held, receipt, seen, spent, ran>> /\ consent \subseteq consent'
    BY <1>2 DEF World, SignTicket, TicketExpires, EditPolicy, EditRules, SwitchIdentity
  <2>2. \A id \in ApprovalIds : ticket'[id] # "none" => id \in consent'
    BY <1>0, <1>2 DEF World, SignTicket, TicketExpires, EditPolicy, EditRules, SwitchIdentity,
                      RunInv, AnswersKnown, TypeOK
  <2> QED
    BY <1>0, <2>1, <2>2
       DEF RunInv, AnswersKnown, MarkersExclusive, OncePerApproval, ConsentedTo, RanAsShown
<1>3. CASE UNCHANGED vars
  BY <1>0, <1>3
     DEF vars, RunInv, AnswersKnown, MarkersExclusive, OncePerApproval, ConsentedTo, RanAsShown
<1> QED
  BY <1>1, <1>2, <1>3 DEF Next

\* What runs was consented to, throughout.
LEMMA RunInvAlways == Spec => []RunInv
  BY RunInitial, RunStep, PTL DEF Spec

\* An approval runs its call at most once.
THEOREM RunsOnce == Spec => []OncePerApproval
<1>1. RunInv => OncePerApproval
  BY DEF RunInv
<1> QED
  BY <1>1, RunInvAlways, PTL

\* Only a call the operator said yes to is run, as the kind of action it was shown as.
THEOREM RunsWithConsent == Spec => []RunsAsApproved
<1>1. RunInv => RunsAsApproved
  BY DEF RunInv, RunsAsApproved
<1> QED
  BY <1>1, RunInvAlways, PTL

\* An approval is spent for good, whether or not its call was run.
THEOREM StaysSpent == Spec => SpentForGood
<1>1. TypeOK /\ [Next]_vars =>
        [/\ spent \subseteq spent'
         /\ \A id \in spent :
              (\A p \in Procs : pc[p] = "cleared" => held[p] # id) => ran'[id] = ran[id]]_vars
  <2> SUFFICES ASSUME TypeOK, Next
               PROVE  /\ spent \subseteq spent'
                      /\ \A id \in spent :
                           (\A p \in Procs : pc[p] = "cleared" => held[p] # id)
                             => ran'[id] = ran[id]
    OBVIOUS
  <2> USE DEF world, files, history
  <2>1. CASE World
    BY <2>1 DEF World, SignTicket, TicketExpires, EditPolicy, EditRules, SwitchIdentity
  <2>2. ASSUME NEW p \in Procs, Step(p), ~RunCall(p)
        PROVE  spent \subseteq spent' /\ UNCHANGED ran
    BY <2>2 DEF Step, Ask, CreatePending, FillPending, FindPending, PendingConflict, SayYes,
                SayNo, BringTicket, CheckAgain, Refuse, Consume, AlreadyConsumed, Crash
  <2>3. ASSUME NEW p \in Procs, RunCall(p)
        PROVE  /\ UNCHANGED spent /\ pc[p] = "cleared"
               /\ \A id \in ApprovalIds : id # held[p] => ran'[id] = ran[id]
    BY <2>3 DEF RunCall, TypeOK
  <2> QED
    BY <2>1, <2>2, <2>3 DEF Next, TypeOK
<1> QED
  BY <1>1, TypeCorrect, PTL DEF Spec, SpentForGood

--------------------------------------------------------------------------------

\* At first no process writes a file.
LEMMA FileInitial == Init => FileInv
  BY TypeInitial DEF Init, FileInv, WritersExclusive, PromptIsDurable

\* Whatever a process does, a pending file has one writer, and the operator is only
\* asked about a file that is complete.
LEMMA FileStep == FileInv /\ [Next]_vars => FileInv'
<1> SUFFICES ASSUME FileInv, [Next]_vars PROVE FileInv'
  OBVIOUS
<1>0. TypeOK /\ TypeOK'
  BY TypeStep DEF FileInv
<1> USE DEF world, files, locals, history, FileInv, WritersExclusive, PromptIsDurable
<1>1. ASSUME NEW p \in Procs, Step(p) PROVE FileInv'
  <2>1. ASSUME NEW c \in Calls, Ask(p, c) PROVE FileInv'
    BY <1>0, <2>1 DEF Ask, Goto, TypeOK
  <2>2. CASE CreatePending(p)
    <3>1. /\ pc' = [pc EXCEPT ![p] = "filling"] /\ pending' = [pending EXCEPT ![held[p]] = "torn"]
          /\ pending[held[p]] = "none" /\ held[p] \in ApprovalIds /\ UNCHANGED <<held, reason>>
      BY <1>0, <2>2 DEF CreatePending, Goto, CreateNew, TypeOK
    <3>2. \A q \in Procs : pc[q] = "prompt" => reason[q] # "none"
      BY <1>0, ApprovalsAssumption DEF TypeOK
    <3>3. WritersExclusive'
      BY <1>0, <3>1 DEF TypeOK
    <3>4. PromptIsDurable'
      BY <1>0, <3>1, <3>2 DEF TypeOK
    <3> QED
      BY <1>0, <3>3, <3>4
  <2>3. CASE FillPending(p)
    <3>1. /\ pc' = [pc EXCEPT ![p] = "prompt"] /\ pc[p] = "filling"
          /\ pending' = [pending EXCEPT ![held[p]] = reason[p]]
          /\ held[p] \in ApprovalIds /\ UNCHANGED <<held, reason>>
      BY <1>0, <2>3 DEF FillPending, Goto, TypeOK
    <3>2. \A q \in Procs : pc[q] = "prompt" => reason[q] # "torn"
      BY <1>0, ApprovalsAssumption DEF TypeOK
    <3>3. WritersExclusive'
      BY <1>0, <3>1 DEF TypeOK
    <3>4. PromptIsDurable'
      BY <1>0, <3>1, <3>2 DEF TypeOK
    <3> QED
      BY <1>0, <3>3, <3>4
  <2>4. CASE FindPending(p)
    BY <1>0, <2>4 DEF FindPending, Goto, SameBytes, TypeOK
  <2>5. CASE PendingConflict(p) \/ SayNo(p) \/ Refuse(p) \/ AlreadyConsumed(p) \/ Crash(p)
             \/ RunCall(p)
    <3>1. UNCHANGED pending /\ Leave(p)
      BY <2>5 DEF PendingConflict, SayNo, Refuse, AlreadyConsumed, Crash, RunCall
    <3> QED
      BY <1>0, <3>1, LeaveTyped
  <2>6. CASE SayYes(p)
    BY <1>0, <2>6 DEF SayYes, Goto, TypeOK
  <2>7. ASSUME NEW id \in ApprovalIds, NEW signed \in ApprovalIds, BringTicket(p, id, signed)
        PROVE  FileInv'
    BY <1>0, <2>7 DEF BringTicket, Goto, TypeOK
  <2>8. CASE CheckAgain(p) \/ Consume(p)
    BY <1>0, <2>8 DEF CheckAgain, Consume, Goto, TypeOK
  <2> QED
    BY <1>1, <2>1, <2>2, <2>3, <2>4, <2>5, <2>6, <2>7, <2>8 DEF Step
<1>2. CASE World
  BY <1>0, <1>2 DEF World, SignTicket, TicketExpires, EditPolicy, EditRules, SwitchIdentity
<1>3. CASE UNCHANGED vars
  BY <1>0, <1>3 DEF vars
<1> QED
  BY <1>1, <1>2, <1>3 DEF Next

\* Both hold throughout.
LEMMA FileInvAlways == Spec => []FileInv
  BY FileInitial, FileStep, PTL DEF Spec

\* The prompt names a pending file that is complete and tells this turn's reason.
THEOREM PromptsAreDurable == Spec => []PromptIsDurable
<1>1. FileInv => PromptIsDurable
  BY DEF FileInv
<1> QED
  BY <1>1, FileInvAlways, PTL

\* A pending file, complete or torn, is never replaced.
THEOREM FilesStand == Spec => PendingStands
<1>1. FileInv /\ [Next]_vars =>
        [\A id \in ApprovalIds :
           /\ Abandoned(id) => Abandoned(id)'
           /\ pending[id] \in Rules => pending'[id] = pending[id]]_vars
  <2> SUFFICES ASSUME FileInv, Next, NEW id \in ApprovalIds
               PROVE  /\ Abandoned(id) => Abandoned(id)'
                      /\ pending[id] \in Rules => pending'[id] = pending[id]
    OBVIOUS
  <2>0. TypeOK /\ "none" \notin Rules /\ "torn" \notin Rules
    BY ApprovalsAssumption DEF FileInv
  <2> USE DEF world, files, Abandoned, Filled
  <2>1. CASE World
    BY <2>1 DEF World, SignTicket, TicketExpires, EditPolicy, EditRules, SwitchIdentity, locals
  <2>2. ASSUME NEW p \in Procs, CreatePending(p)
        PROVE  /\ Abandoned(id) => Abandoned(id)'
               /\ pending[id] \in Rules => pending'[id] = pending[id]
    BY <2>0, <2>2 DEF CreatePending, CreateNew, Goto, TypeOK
  <2>3. ASSUME NEW p \in Procs, FillPending(p)
        PROVE  /\ Abandoned(id) => Abandoned(id)'
               /\ pending[id] \in Rules => pending'[id] = pending[id]
    <3>1. /\ pc[p] = "filling" /\ pending[held[p]] = "torn" /\ held[p] \in ApprovalIds
          /\ pending' = [pending EXCEPT ![held[p]] = reason[p]]
          /\ pc' = [pc EXCEPT ![p] = "prompt"] /\ UNCHANGED held
      BY <2>0, <2>3 DEF FillPending, Goto, FileInv, WritersExclusive, TypeOK
    <3> QED
      BY <2>0, <3>1 DEF TypeOK
  <2>4. ASSUME NEW p \in Procs, Step(p), ~CreatePending(p), ~FillPending(p)
        PROVE  /\ Abandoned(id) => Abandoned(id)'
               /\ pending[id] \in Rules => pending'[id] = pending[id]
    <3>1. UNCHANGED pending
      BY <2>4 DEF Step, Ask, FindPending, PendingConflict, SayYes, SayNo, BringTicket, CheckAgain,
                  Refuse, Consume, AlreadyConsumed, RunCall, Crash
    <3>2. pc'[p] # "filling" /\ \A q \in Procs : q # p => pc'[q] = pc[q] /\ held'[q] = held[q]
      BY <2>0, <2>4 DEF Step, Ask, FindPending, PendingConflict, SayYes, SayNo, BringTicket,
                  CheckAgain, Refuse, Consume, AlreadyConsumed, RunCall, Crash, Leave, Goto, TypeOK
    <3> QED
      BY <3>1, <3>2
  <2> QED
    BY <2>1, <2>2, <2>3, <2>4 DEF Next
<1> QED
  BY <1>1, FileInvAlways, PTL DEF Spec, PendingStands

--------------------------------------------------------------------------------

\* Nobody who takes a step other than a crash drops an approval between its marker
\* and its run, or a pending file between its creation and its content.
LEMMA StuckStep == TypeOK /\ StuckOnlyByCrash /\ [Next]_vars => StuckOnlyByCrash'
<1> SUFFICES ASSUME TypeOK, StuckOnlyByCrash, [Next]_vars, crashes' = 0, NEW id \in ApprovalIds
             PROVE  /\ id \in spent' /\ ran'[id] = <<>>
                         => \E p \in Procs : pc'[p] = "cleared" /\ held'[p] = id
                    /\ pending'[id] = "torn" => Filled(id)'
  BY DEF StuckOnlyByCrash
<1>0. "torn" \notin Rules
  BY ApprovalsAssumption
<1>1. crashes = 0 => /\ id \in spent /\ ran[id] = <<>>
                           => \E p \in Procs : pc[p] = "cleared" /\ held[p] = id
                     /\ pending[id] = "torn" => \E p \in Procs : pc[p] = "filling" /\ held[p] = id
  BY DEF StuckOnlyByCrash, Filled
<1> USE DEF world, files, locals, history, Filled
<1>2. ASSUME NEW p \in Procs, Consume(p) \/ CreatePending(p)
      PROVE  /\ id \in spent' /\ ran'[id] = <<>>
                  => \E q \in Procs : pc'[q] = "cleared" /\ held'[q] = id
             /\ pending'[id] = "torn" => Filled(id)'
  BY <1>1, <1>2 DEF Consume, CreatePending, Goto, TypeOK
<1>3. ASSUME NEW p \in Procs, FillPending(p)
      PROVE  /\ id \in spent' /\ ran'[id] = <<>>
                  => \E q \in Procs : pc'[q] = "cleared" /\ held'[q] = id
             /\ pending'[id] = "torn" => Filled(id)'
  <2>1. pending'[held[p]] \in Rules
    BY <1>3 DEF FillPending, TypeOK
  <2> QED
    BY <1>0, <1>1, <1>3, <2>1 DEF FillPending, Goto, TypeOK
<1>4. ASSUME NEW p \in Procs, RunCall(p)
      PROVE  /\ id \in spent' /\ ran'[id] = <<>>
                  => \E q \in Procs : pc'[q] = "cleared" /\ held'[q] = id
             /\ pending'[id] = "torn" => Filled(id)'
  <2>1. held[p] \in ApprovalIds /\ pc[p] = "cleared" /\ UNCHANGED <<spent, pending, crashes>>
    BY <1>4 DEF RunCall, TypeOK
  <2>2. ran'[held[p]] # <<>> /\ (id # held[p] => ran'[id] = ran[id])
    <3>1. ran[held[p]] \in Seq(Decisions) /\ seen[p] \in Decisions
      BY <2>1 DEF TypeOK
    <3>2. Append(ran[held[p]], seen[p]) # <<>>
      BY <3>1
    <3> QED
      BY <1>4, <2>1, <3>2 DEF RunCall, TypeOK
  <2>3. \A q \in Procs : q # p => pc'[q] = pc[q] /\ held'[q] = held[q]
    BY <1>4, LeaveTyped DEF RunCall
  <2> QED
    BY <1>1, <2>1, <2>2, <2>3
<1>5. ASSUME NEW p \in Procs, Step(p),
             ~Consume(p), ~CreatePending(p), ~FillPending(p), ~RunCall(p)
      PROVE  /\ id \in spent' /\ ran'[id] = <<>>
                  => \E q \in Procs : pc'[q] = "cleared" /\ held'[q] = id
             /\ pending'[id] = "torn" => Filled(id)'
  <2>1. ~Crash(p)
    BY DEF Crash, TypeOK
  <2>2. UNCHANGED <<spent, ran, pending, crashes>> /\ pc[p] \notin {"cleared", "filling"}
    BY <1>5, <2>1 DEF Step, Ask, FindPending, PendingConflict, SayYes, SayNo, BringTicket,
                      CheckAgain, Refuse, AlreadyConsumed
  <2>3. \A q \in Procs : q # p => pc'[q] = pc[q] /\ held'[q] = held[q]
    BY <1>5, <2>1 DEF Step, Ask, FindPending, PendingConflict, SayYes, SayNo, BringTicket,
                      CheckAgain, Refuse, AlreadyConsumed, Leave, Goto, TypeOK
  <2> QED
    BY <1>1, <2>2, <2>3
<1>6. CASE World \/ UNCHANGED vars
  BY <1>1, <1>6 DEF World, SignTicket, TicketExpires, EditPolicy, EditRules, SwitchIdentity, vars
<1> QED
  BY <1>2, <1>3, <1>4, <1>5, <1>6 DEF Next

\* As long as nobody crashes, an approval that is spent is run or about to be, and
\* a pending file is complete or being written.
THEOREM OnlyCrashesStick == Spec => []StuckOnlyByCrash
<1>1. Init => StuckOnlyByCrash
  BY DEF Init, StuckOnlyByCrash
<1> QED
  BY <1>1, TypeInitial, TypeStep, StuckStep, PTL DEF Spec
================================================================================
