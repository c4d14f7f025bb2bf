----------------------------- MODULE ToolLoopProofs -----------------------------
(***************************************************************************)
(* Proofs about ToolLoop, for every number of rounds, of retries and of    *)
(* controls.                                                               *)
(***************************************************************************)
EXTENDS ToolLoop, SequenceTheorems, TLAPS

\* A result is there once the loop has ended, and not before.
ResultOK == result = "none" <=> pc \notin {"done", "recorded"}

\* A tool runs only because the model asked for it.
ToolOK == pc \in {"check_tool", "start_tool", "tool", "check_record"} => output \in {"tool", "spawn"}

\* Nothing begins late unless a stop was accepted; a safe point that is passed
\* finds nothing late, and what begins behind it is one tool or one model call
\* and its retries.
LateOK ==
  /\ ~StopRequested => late.models = 0 /\ late.tools = 0
  /\ pc \in {"start", "check_model", "read_guidance", "check_tool", "start_tool", "out_of_rounds",
             "last_guidance", "check_final", "start_final"} => late.models = 0 /\ late.tools = 0
  /\ pc \in {"model", "check_output"} => late.tools = 0 /\ late.models <= 1 + retries
  /\ pc \in {"tool", "check_record"} => late.tools <= 1 /\ late.models = 0
  /\ pc = "final_model" => late.tools = 0 /\ late.models <= 1

\* The last call of the model comes only when nothing is missing.
DemandsMet ==
  pc \in {"last_guidance", "check_final", "start_final", "final_model"} => ~Demanded

IInv ==
  /\ TypeOK
  /\ ResultOK
  /\ ToolOK
  /\ LateOK
  /\ StopTakesEffect
  /\ DemandsMet
  /\ GuidanceReachesModel
  /\ AnswersAreVerified

--------------------------------------------------------------------------------

\* Reading the rest of a file after what was read of it gives the whole file.
LEMMA ReadRest ==
  ASSUME NEW S, NEW s \in Seq(S), NEW c \in 0 .. Len(s)
  PROVE  /\ SubSeq(s, c + 1, Len(s)) \in Seq(S)
         /\ SubSeq(s, 1, c) \o SubSeq(s, c + 1, Len(s)) = SubSeq(s, 1, Len(s))
<1>1. \A i \in c + 1 .. Len(s) : s[i] \in S
  OBVIOUS
<1>2. SubSeq(s, c + 1, Len(s)) \in Seq(S)
  BY <1>1, SubSeqProperties
<1>3. SubSeq(s, 1, c) \o SubSeq(s, c + 1, Len(s)) = SubSeq(s, 1, Len(s))
  <2>1. 1 \in 1 .. Len(s) + 1 /\ c \in 1 - 1 .. Len(s) /\ Len(s) \in c .. Len(s)
    OBVIOUS
  <2> QED
    BY <2>1, ConcatAdjacentSubSeq
<1> QED
  BY <1>2, <1>3

\* What is appended to a file changes nothing of what was read of it.
LEMMA AppendKeepsPrefix ==
  ASSUME NEW S, NEW s \in Seq(S), NEW x \in S, NEW c \in 0 .. Len(s)
  PROVE  SubSeq(Append(s, x), 1, c) = SubSeq(s, 1, c)
<1>1. CASE c = 0
  BY <1>1, SubSeqEmpty
<1>2. CASE c # 0
  BY <1>2, AppendIsConcat, SubSeqOfConcat1, <<x>> \in Seq(S)
<1> QED
  BY <1>1, <1>2

\* What begins late is counted.
LEMMA LateType ==
  ASSUME late \in [models : Nat, tools : Nat], LateModel \/ LateTool
  PROVE  late' \in [models : Nat, tools : Nat]
<1>1. CASE LateModel
  BY <1>1 DEF LateModel
<1>2. CASE LateTool
  BY <1>2 DEF LateTool
<1> QED
  BY <1>1, <1>2

\* Every variable keeps its type.
LEMMA TypeStep == TypeOK /\ ToolOK /\ [Next]_vars => TypeOK'
<1> SUFFICES ASSUME TypeOK, ToolOK, [Next]_vars PROVE TypeOK'
  OBVIOUS
<1> USE ToolLoopAssumption DEF TypeOK, Places, Outputs, TextOutputs, ToolOutcomes, Results, Needs, Finish
<1>a. ASSUME NEW t \in {"locate", "tool", "spawn"}, NEW r \in 0 .. MaxToolRounds, NEW o \in ToolOutcomes
      PROVE  Append(calls, [tool |-> t, round |-> r, outcome |-> o]) \in Seq(Call)
  BY AppendProperties DEF Call
<1>b. SubSeq(notes, cursor + 1, Len(notes)) \in Seq(Note)
  BY ReadRest
<1>c. LateModel \/ LateTool => late' \in [models : Nat, tools : Nat]
  BY LateType
<1>d. NextRound => /\ pc' \in Places /\ round' \in 0 .. MaxToolRounds
                   /\ retries' \in 0 .. MaxModelRetries /\ result' = result
  BY DEF NextRound
<1>1. CASE Fail
  BY <1>1 DEF Fail
<1>2. CASE Begin
  <2>1. 0 \in 0 .. MaxToolRounds
    OBVIOUS
  <2>2. calls' \in Seq(Call)
    BY <1>2, <2>1, <1>a DEF Begin
  <2> QED
    BY <1>2, <2>2, <1>d DEF Begin
<1>3. CASE CheckModel
  BY <1>3 DEF CheckModel, Cancelled
<1>4. CASE ReadGuidance
  <2>1. injected' \in Seq(Note)
    BY <1>4, <1>b, ConcatProperties DEF ReadGuidance, ReadNotes
  <2> QED
    BY <1>4, <2>1, <1>c DEF ReadGuidance, ReadNotes, NewCursor
<1>5. CASE ModelRetried
  <2>1. retries < MaxModelRetries
    BY <1>5 DEF ModelRetried, MayRetry
  <2> QED
    BY <1>5, <2>1, <1>c DEF ModelRetried
<1>6. CASE ProviderFails
  BY <1>6 DEF ProviderFails
<1>7. CASE ModelReturns
  BY <1>7 DEF ModelReturns
<1>8. CASE CheckOutput
  BY <1>8 DEF CheckOutput, Cancelled
<1>9. CASE FinalAnswer
  <2>1. (Finish("answer") /\ UNCHANGED <<round, retries>>) \/ NextRound
    BY <1>9 DEF FinalAnswer
  <2> QED
    BY <1>9, <1>d, <2>1 DEF FinalAnswer
<1>10. CASE PlainText
  <2>1. plain' \in 0 .. MaxToolRounds
    BY <1>10 DEF PlainText
  <2>2. (Finish("answer") /\ UNCHANGED <<round, retries>>) \/ NextRound
    BY <1>10 DEF PlainText
  <2> QED
    BY <1>10, <1>d, <2>1, <2>2 DEF PlainText
<1>11. CASE ProtocolError
  BY <1>11, <1>d DEF ProtocolError, Unstopped
<1>12. CASE ToolCall
  BY <1>12 DEF ToolCall, Unstopped
<1>13. CASE CheckTool
  BY <1>13 DEF CheckTool, Cancelled
<1>14. CASE StartTool
  BY <1>14, <1>c DEF StartTool
<1>15. CASE ToolEnds
  BY <1>15 DEF ToolEnds
<1>16. CASE RecordTool
  <2>1. CASE Cancelled
    BY <1>16, <2>1 DEF RecordTool, Cancelled
  <2>2. CASE ~Cancelled
    <3>1. output \in {"locate", "tool", "spawn"} /\ record \in ToolOutcomes /\ round \in 0 .. MaxToolRounds
      BY <1>16 DEF RecordTool, ToolOK
    <3>2. calls' \in Seq(Call)
      <4>1. calls' = Append(calls, [tool |-> output, round |-> round, outcome |-> record])
        BY <1>16, <2>2 DEF RecordTool
      <4>2. Append(calls, [tool |-> output, round |-> round, outcome |-> record]) \in Seq(Call)
        BY <3>1, <1>a
      <4> QED
        BY <4>1, <4>2
    <3>3. /\ pc' \in Places /\ round' \in 0 .. MaxToolRounds /\ retries' \in 0 .. MaxModelRetries
          /\ result' \in Results \cup {"none"}
          /\ UNCHANGED <<need, observe, output, record, plain, notes, cursor, injected, late>>
      <4>1. CASE record \in {"pending_approval", "human_input_required"}
        BY <1>16, <2>2, <4>1 DEF RecordTool
      <4>2. CASE record \notin {"pending_approval", "human_input_required"}
        BY <1>16, <2>2, <4>2, <1>d DEF RecordTool
      <4> QED
        BY <4>1, <4>2
    <3> QED
      BY <3>2, <3>3
  <2> QED
    BY <2>1, <2>2
<1>17. CASE OutOfRounds
  BY <1>17 DEF OutOfRounds
<1>18. CASE LastGuidance
  <2>1. injected' \in Seq(Note)
    BY <1>18, <1>b, ConcatProperties DEF LastGuidance, ReadNotes
  <2> QED
    BY <1>18, <2>1 DEF LastGuidance, ReadNotes, NewCursor
<1>19. CASE CheckFinal
  BY <1>19 DEF CheckFinal, Cancelled
<1>20. CASE StartFinal
  BY <1>20, <1>c DEF StartFinal
<1>21. CASE FinalModel
  BY <1>21 DEF FinalModel
<1>22. CASE Record
  BY <1>22 DEF Record
<1>23. CASE Control
  BY <1>23 DEF Control, loopVars, Note
<1>24. CASE UNCHANGED vars
  BY <1>24 DEF vars
<1> QED
  BY <1>1, <1>2, <1>3, <1>4, <1>5, <1>6, <1>7, <1>8, <1>9, <1>10, <1>11, <1>12, <1>13, <1>14,
     <1>15, <1>16, <1>17, <1>18, <1>19, <1>20, <1>21, <1>22, <1>23, <1>24 DEF Next, Step

\* Every step keeps what the control points promise.
LEMMA PlaceStep == TypeOK /\ ResultOK /\ ToolOK /\ DemandsMet /\ [Next]_vars => (ResultOK /\ ToolOK /\ DemandsMet)'
<1> SUFFICES ASSUME TypeOK, ResultOK, ToolOK, DemandsMet, [Next]_vars
             PROVE (ResultOK /\ ToolOK /\ DemandsMet)'
  OBVIOUS
<1> USE DEF ResultOK, ToolOK, DemandsMet, Demanded, MissingSpawn, MissingAction, HasCalled, Finish, NextRound
<1>1. CASE Fail
  BY <1>1 DEF Fail
<1>2. CASE Begin
  BY <1>2 DEF Begin
<1>3. CASE CheckModel
  BY <1>3 DEF CheckModel, Cancelled
<1>4. CASE ReadGuidance
  BY <1>4 DEF ReadGuidance
<1>5. CASE ModelRetried
  BY <1>5 DEF ModelRetried
<1>6. CASE ProviderFails
  BY <1>6 DEF ProviderFails
<1>7. CASE ModelReturns
  BY <1>7 DEF ModelReturns
<1>8. CASE CheckOutput
  BY <1>8 DEF CheckOutput, Cancelled
<1>9. CASE FinalAnswer
  BY <1>9 DEF FinalAnswer, Unstopped
<1>10. CASE PlainText
  BY <1>10 DEF PlainText, Unstopped
<1>11. CASE ProtocolError
  BY <1>11 DEF ProtocolError, Unstopped
<1>12. CASE ToolCall
  BY <1>12 DEF ToolCall, Unstopped
<1>13. CASE CheckTool
  BY <1>13 DEF CheckTool, Cancelled
<1>14. CASE StartTool
  BY <1>14 DEF StartTool
<1>15. CASE ToolEnds
  BY <1>15 DEF ToolEnds
<1>16. CASE RecordTool
  BY <1>16 DEF RecordTool, Cancelled
<1>17. CASE OutOfRounds
  BY <1>17 DEF OutOfRounds
<1>18. CASE LastGuidance
  BY <1>18 DEF LastGuidance
<1>19. CASE CheckFinal
  BY <1>19 DEF CheckFinal, Cancelled
<1>20. CASE StartFinal
  BY <1>20 DEF StartFinal
<1>21. CASE FinalModel
  BY <1>21 DEF FinalModel
<1>22. CASE Record
  BY <1>22 DEF Record
<1>23. CASE Control
  BY <1>23 DEF Control, loopVars
<1>24. CASE UNCHANGED vars
  BY <1>24 DEF vars
<1> QED
  BY <1>1, <1>2, <1>3, <1>4, <1>5, <1>6, <1>7, <1>8, <1>9, <1>10, <1>11, <1>12, <1>13, <1>14,
     <1>15, <1>16, <1>17, <1>18, <1>19, <1>20, <1>21, <1>22, <1>23, <1>24 DEF Next, Step

\* A stop, once accepted, stays so.
LEMMA StopStays ==
  ASSUME TypeOK, [Next]_vars
  PROVE  /\ StopRequested => StopRequested'
         /\ notes' = notes => StopRequested' = StopRequested
<1>1. notes' = notes \/ \E x \in Note : notes' = Append(notes, x)
  BY DEF Next, Step, vars, Fail, Begin, CheckModel, ReadGuidance, ModelRetried, ProviderFails, ModelReturns, CheckOutput,
         FinalAnswer, PlainText, ProtocolError, ToolCall, CheckTool, StartTool, ToolEnds, RecordTool,
         OutOfRounds, LastGuidance, CheckFinal, StartFinal, FinalModel, Record, ReadNotes, Control,
         TypeOK, Note
<1>2. CASE notes' = notes
  BY <1>2 DEF StopRequested
<1>3. CASE \E x \in Note : notes' = Append(notes, x)
  <2>1. PICK x \in Note : notes' = Append(notes, x)
    BY <1>3
  <2>2. notes \in Seq(Note)
    BY DEF TypeOK
  <2>3. /\ DOMAIN notes = 1 .. Len(notes)
        /\ DOMAIN notes' = 1 .. Len(notes) + 1
        /\ \A i \in 1 .. Len(notes) : notes'[i] = notes[i]
    BY <2>1, <2>2, AppendProperties
  <2>4. StopRequested => StopRequested'
    BY <2>2, <2>3 DEF StopRequested
  <2>5. notes' # notes
    BY <2>1, <2>2, AppendProperties
  <2> QED
    BY <2>4, <2>5
<1> QED
  BY <1>1, <1>2, <1>3

\* Every step keeps the account of what begins late.
LEMMA LateStep == TypeOK /\ ToolOK /\ LateOK /\ StopTakesEffect /\ [Next]_vars => (LateOK /\ StopTakesEffect)'
<1> SUFFICES ASSUME TypeOK, ToolOK, LateOK, StopTakesEffect, [Next]_vars
             PROVE (LateOK /\ StopTakesEffect)'
  OBVIOUS
<1> USE ToolLoopAssumption, StopStays DEF TypeOK, LateOK, StopTakesEffect, Finish, NextRound, LateModel, LateTool, StopSeen
<1>c. late.models \in Nat /\ late'.models \in Nat
  BY TypeStep
<1>1. CASE Fail
  BY <1>1 DEF Fail
<1>2. CASE Begin
  BY <1>2 DEF Begin
<1>3. CASE CheckModel
  BY <1>3 DEF CheckModel, Cancelled
<1>4. CASE ReadGuidance
  BY <1>4 DEF ReadGuidance
<1>5. CASE ModelRetried
  <2>1. late.tools = 0 /\ late.models <= 1 + retries /\ retries < MaxModelRetries
    BY <1>5 DEF ModelRetried, MayRetry
  <2>2. late'.tools = 0 /\ late'.models <= late.models + 1 /\ (~StopRequested => late' = late)
    BY <1>5, <2>1 DEF ModelRetried
  <2>3. StopRequested' = StopRequested /\ retries' = retries + 1 /\ pc' = "model"
    BY <1>5 DEF ModelRetried
  <2>4. late'.models <= 1 + retries' /\ late'.models <= 1 + MaxModelRetries
    BY <2>1, <2>2, <2>3, <1>c
  <2> QED
    BY <2>1, <2>2, <2>3, <2>4
<1>6. CASE ProviderFails
  BY <1>6 DEF ProviderFails
<1>7. CASE ModelReturns
  BY <1>7 DEF ModelReturns
<1>8. CASE CheckOutput
  BY <1>8 DEF CheckOutput, Cancelled
<1>9. CASE FinalAnswer
  BY <1>9 DEF FinalAnswer, Unstopped
<1>10. CASE PlainText
  BY <1>10 DEF PlainText, Unstopped
<1>11. CASE ProtocolError
  BY <1>11 DEF ProtocolError, Unstopped
<1>12. CASE ToolCall
  BY <1>12 DEF ToolCall, Unstopped
<1>13. CASE CheckTool
  BY <1>13 DEF CheckTool, Cancelled
<1>14. CASE StartTool
  BY <1>14 DEF StartTool
<1>15. CASE ToolEnds
  BY <1>15 DEF ToolEnds
<1>16. CASE RecordTool
  BY <1>16 DEF RecordTool, Cancelled
<1>17. CASE OutOfRounds
  BY <1>17 DEF OutOfRounds
<1>18. CASE LastGuidance
  BY <1>18 DEF LastGuidance
<1>19. CASE CheckFinal
  BY <1>19 DEF CheckFinal, Cancelled
<1>20. CASE StartFinal
  BY <1>20 DEF StartFinal
<1>21. CASE FinalModel
  BY <1>21 DEF FinalModel
<1>22. CASE Record
  BY <1>22 DEF Record
<1>23. CASE Control
  BY <1>23 DEF Control, loopVars
<1>24. CASE UNCHANGED vars
  BY <1>24 DEF vars
<1> QED
  BY <1>1, <1>2, <1>3, <1>4, <1>5, <1>6, <1>7, <1>8, <1>9, <1>10, <1>11, <1>12, <1>13, <1>14,
     <1>15, <1>16, <1>17, <1>18, <1>19, <1>20, <1>21, <1>22, <1>23, <1>24 DEF Next, Step

\* Every step keeps the guidance in order and in time.
LEMMA GuidanceStep == TypeOK /\ GuidanceReachesModel /\ [Next]_vars => GuidanceReachesModel'
<1> SUFFICES ASSUME TypeOK, GuidanceReachesModel, [Next]_vars PROVE GuidanceReachesModel'
  OBVIOUS
<1> USE DEF GuidanceReachesModel, Finish, NextRound
<1>a. notes \in Seq(Note) /\ cursor \in 0 .. Len(notes) /\ round \in Nat
  BY ToolLoopAssumption DEF TypeOK
<1>1. CASE Fail
  BY <1>1 DEF Fail
<1>2. CASE Begin
  BY <1>2 DEF Begin
<1>3. CASE CheckModel
  BY <1>3 DEF CheckModel, Cancelled
<1>4. CASE ReadGuidance
  <2>1. injected' = SubSeq(notes', 1, cursor') /\ cursor' = Len(notes')
    BY <1>4, <1>a, ReadRest DEF ReadGuidance, ReadNotes, NewCursor
  <2>2. \A i \in DOMAIN notes' : i <= cursor'
    BY <1>4, <1>a, <2>1 DEF ReadGuidance
  <2> QED
    BY <2>1, <2>2
<1>5. CASE ModelRetried
  BY <1>5 DEF ModelRetried
<1>6. CASE ProviderFails
  BY <1>6 DEF ProviderFails
<1>7. CASE ModelReturns
  BY <1>7 DEF ModelReturns
<1>8. CASE CheckOutput
  BY <1>8 DEF CheckOutput, Cancelled
<1>9. CASE FinalAnswer
  BY <1>9 DEF FinalAnswer, Unstopped
<1>10. CASE PlainText
  BY <1>10 DEF PlainText, Unstopped
<1>11. CASE ProtocolError
  BY <1>11 DEF ProtocolError, Unstopped
<1>12. CASE ToolCall
  BY <1>12 DEF ToolCall, Unstopped
<1>13. CASE CheckTool
  BY <1>13 DEF CheckTool, Cancelled
<1>14. CASE StartTool
  BY <1>14 DEF StartTool
<1>15. CASE ToolEnds
  BY <1>15 DEF ToolEnds
<1>16. CASE RecordTool
  BY <1>16 DEF RecordTool, Cancelled
<1>17. CASE OutOfRounds
  BY <1>17 DEF OutOfRounds
<1>18. CASE LastGuidance
  <2>1. injected' = SubSeq(notes', 1, cursor') /\ cursor' = Len(notes')
    BY <1>18, <1>a, ReadRest DEF LastGuidance, ReadNotes, NewCursor
  <2>2. \A i \in DOMAIN notes' : i <= cursor'
    BY <1>18, <1>a, <2>1 DEF LastGuidance
  <2> QED
    BY <2>1, <2>2
<1>19. CASE CheckFinal
  BY <1>19 DEF CheckFinal, Cancelled
<1>20. CASE StartFinal
  BY <1>20 DEF StartFinal
<1>21. CASE FinalModel
  BY <1>21 DEF FinalModel
<1>22. CASE Record
  BY <1>22 DEF Record
<1>23. CASE Control
  <2>a. PICK text \in {"guidance", "stop"} : notes' = Append(notes, [text |-> text, round |-> round])
    BY <1>23 DEF Control
  <2>b. [text |-> text, round |-> round] \in Note
    BY DEF Note, TypeOK
  <2>1. \E x \in Note : notes' = Append(notes, x) /\ x.round = round
    BY <2>a, <2>b
  <2>c. PICK x \in Note : notes' = Append(notes, x) /\ x.round = round
    BY <2>1
  <2>2. /\ \A i \in 1 .. Len(notes) : notes'[i] = notes[i]
        /\ notes'[Len(notes) + 1] = x
        /\ DOMAIN notes' = 1 .. Len(notes) + 1 /\ DOMAIN notes = 1 .. Len(notes)
    BY <1>a, <2>c, AppendProperties
  <2>3. UNCHANGED <<pc, round, cursor, injected>>
    BY <1>23 DEF Control, loopVars
  <2>4. injected' = SubSeq(notes', 1, cursor')
    BY <1>a, <2>c, <2>3, AppendKeepsPrefix
  <2>5. pc' = "model" => \A i \in DOMAIN notes' : notes'[i].round < round' => i <= cursor'
    BY <1>a, <2>c, <2>2, <2>3
  <2> QED
    BY <2>4, <2>5
<1>24. CASE UNCHANGED vars
  BY <1>24 DEF vars
<1> QED
  BY <1>1, <1>2, <1>3, <1>4, <1>5, <1>6, <1>7, <1>8, <1>9, <1>10, <1>11, <1>12, <1>13, <1>14,
     <1>15, <1>16, <1>17, <1>18, <1>19, <1>20, <1>21, <1>22, <1>23, <1>24 DEF Next, Step

\* Every way out of the loop keeps answers verified.
LEMMA VerifiedStep ==
  TypeOK /\ ResultOK /\ DemandsMet /\ AnswersAreVerified /\ [Next]_vars => AnswersAreVerified'
<1> SUFFICES ASSUME TypeOK, ResultOK, DemandsMet, AnswersAreVerified, [Next]_vars
             PROVE AnswersAreVerified'
  OBVIOUS
<1> USE DEF ResultOK, DemandsMet, Demanded, MissingSpawn, MissingAction, HasCalled, AnswersAreVerified, Finish, NextRound
<1>1. CASE Fail
  BY <1>1 DEF Fail
<1>2. CASE Begin
  BY <1>2 DEF Begin
<1>3. CASE CheckModel
  BY <1>3 DEF CheckModel, Cancelled
<1>4. CASE ReadGuidance
  BY <1>4 DEF ReadGuidance
<1>5. CASE ModelRetried
  BY <1>5 DEF ModelRetried
<1>6. CASE ProviderFails
  BY <1>6 DEF ProviderFails
<1>7. CASE ModelReturns
  BY <1>7 DEF ModelReturns
<1>8. CASE CheckOutput
  BY <1>8 DEF CheckOutput, Cancelled
<1>9. CASE FinalAnswer
  BY <1>9 DEF FinalAnswer, Unstopped
<1>10. CASE PlainText
  BY <1>10 DEF PlainText, Unstopped
<1>11. CASE ProtocolError
  BY <1>11 DEF ProtocolError, Unstopped
<1>12. CASE ToolCall
  BY <1>12 DEF ToolCall, Unstopped
<1>13. CASE CheckTool
  BY <1>13 DEF CheckTool, Cancelled
<1>14. CASE StartTool
  BY <1>14 DEF StartTool
<1>15. CASE ToolEnds
  BY <1>15 DEF ToolEnds
<1>16. CASE RecordTool
  BY <1>16 DEF RecordTool, Cancelled
<1>17. CASE OutOfRounds
  BY <1>17 DEF OutOfRounds
<1>18. CASE LastGuidance
  BY <1>18 DEF LastGuidance
<1>19. CASE CheckFinal
  BY <1>19 DEF CheckFinal, Cancelled
<1>20. CASE StartFinal
  BY <1>20 DEF StartFinal
<1>21. CASE FinalModel
  BY <1>21 DEF FinalModel
<1>22. CASE Record
  BY <1>22 DEF Record
<1>23. CASE Control
  BY <1>23 DEF Control, loopVars
<1>24. CASE UNCHANGED vars
  BY <1>24 DEF vars
<1> QED
  BY <1>1, <1>2, <1>3, <1>4, <1>5, <1>6, <1>7, <1>8, <1>9, <1>10, <1>11, <1>12, <1>13, <1>14,
     <1>15, <1>16, <1>17, <1>18, <1>19, <1>20, <1>21, <1>22, <1>23, <1>24 DEF Next, Step

\* The strengthening holds at the start.
LEMMA InvInitial == Init => IInv
<1> SUFFICES ASSUME Init PROVE IInv
  OBVIOUS
<1>1. TypeOK
  BY ToolLoopAssumption DEF Init, TypeOK, Places, Outputs, TextOutputs, ToolOutcomes
<1>2. ResultOK /\ ToolOK /\ DemandsMet /\ AnswersAreVerified
  BY DEF Init, ResultOK, ToolOK, DemandsMet, AnswersAreVerified
<1>3. LateOK /\ StopTakesEffect
  BY ToolLoopAssumption DEF Init, LateOK, StopTakesEffect
<1>4. GuidanceReachesModel
  BY SubSeqEmpty DEF Init, GuidanceReachesModel
<1> QED
  BY <1>1, <1>2, <1>3, <1>4 DEF IInv

\* Every step keeps the strengthening.
LEMMA InvStep == IInv /\ [Next]_vars => IInv'
  BY TypeStep, PlaceStep, LateStep, GuidanceStep, VerifiedStep DEF IInv

\* The strengthening of the loop's properties is an invariant.
THEOREM Inductive == Spec => []IInv
  BY InvInitial, InvStep, PTL DEF Spec

\* Every variable keeps its type: rounds, retries and the cursor stay within
\* their limits.
THEOREM TypeCorrect == Spec => []TypeOK
<1>1. IInv => TypeOK
  BY DEF IInv
<1> QED
  BY <1>1, Inductive, PTL

\* After an accepted stop at most one tool, or one model call with its retries,
\* begins.
THEOREM StopsTakeEffect == Spec => []StopTakesEffect
<1>1. IInv => StopTakesEffect
  BY DEF IInv
<1> QED
  BY <1>1, Inductive, PTL

\* Guidance reaches the model once, in order and in time.
THEOREM GuidanceArrives == Spec => []GuidanceReachesModel
<1>1. IInv => GuidanceReachesModel
  BY DEF IInv
<1> QED
  BY <1>1, Inductive, PTL

\* No unverified answer leaves the loop.
THEOREM AnswersVerified == Spec => []AnswersAreVerified
<1>1. IInv => AnswersAreVerified
  BY DEF IInv
<1> QED
  BY <1>1, Inductive, PTL

--------------------------------------------------------------------------------

\* A step that stays inside the loop and begins nothing late is no step of the turn.
LEMMA InnerStep ==
  ASSUME IInv, [Next]_vars, late' = late, result' = result, notes' = notes,
         pc \notin {"done", "recorded"}, pc' \notin {"done", "recorded"}
  PROVE  UNCHANGED Turn!turnVars
  BY StopStays DEF IInv, Turn!turnVars

\* A step that ends the loop ends the turn.
LEMMA EndStep ==
  ASSUME IInv, [Next]_vars, late' = late, notes' = notes, pc \notin {"done", "recorded"}, pc' = "done",
         result' \in Results, result' = "cancelled" => StopRequested
  PROVE  Turn!End
  BY StopStays DEF IInv, ResultOK, Results, Turn!End, Turn!TurnOutcomes

\* A step that begins a model call or a tool begins work of the turn if it was stopped.
LEMMA WorkStep ==
  ASSUME IInv, [Next]_vars, result' = result, notes' = notes,
         pc \notin {"done", "recorded"}, pc' \notin {"done", "recorded"},
         \/ LateModel /\ late.models <= MaxModelRetries /\ late.tools = 0
         \/ LateTool /\ late.models = 0 /\ late.tools = 0
  PROVE  [Turn!TurnNext]_(Turn!turnVars)
<1>1. StopRequested' = StopRequested
  BY StopStays DEF IInv
<1>2. late.models \in Nat /\ late.tools \in Nat /\ late \in [models : Nat, tools : Nat]
  BY DEF IInv, TypeOK
<1>3. CASE ~StopRequested
  BY <1>1, <1>3 DEF LateModel, LateTool, Turn!turnVars
<1>4. CASE StopRequested
  <2>1. late'.models + late'.tools = late.models + late.tools + 1
    BY <1>2, <1>4 DEF LateModel, LateTool
  <2>2. late.models + late.tools < 1 + MaxModelRetries
    BY <1>2, ToolLoopAssumption
  <2>3. Turn!BeginWork
    BY <1>1, <1>4, <2>1, <2>2 DEF Turn!BeginWork
  <2> QED
    BY <2>3 DEF Turn!TurnNext
<1> QED
  BY <1>3, <1>4

\* Every step of the loop is a step of the turn, or none.
LEMMA TurnStep == IInv /\ [Next]_vars => [Turn!TurnNext]_(Turn!turnVars)
<1> SUFFICES ASSUME IInv, [Next]_vars PROVE [Turn!TurnNext]_(Turn!turnVars)
  OBVIOUS
<1>a. ASSUME late' = late, notes' = notes, pc \notin {"done", "recorded"},
             \/ pc' \notin {"done", "recorded"} /\ result' = result
             \/ /\ pc' = "done" /\ result' \in Results
                /\ result' = "cancelled" => StopRequested
      PROVE  [Turn!TurnNext]_(Turn!turnVars)
  BY <1>a, InnerStep, EndStep DEF Turn!TurnNext
<1>b. result = "none" <=> pc \notin {"done", "recorded"}
  BY DEF IInv, ResultOK
<1> USE DEF Finish, NextRound, Results, StopSeen
<1>1. CASE Fail
  BY <1>1, <1>a DEF Fail
<1>2. CASE Begin
  BY <1>2, <1>a DEF Begin
<1>3. CASE CheckModel
  BY <1>3, <1>a DEF CheckModel, Cancelled
<1>4. CASE ReadGuidance
  BY <1>4, WorkStep, ToolLoopAssumption DEF ReadGuidance, ReadNotes, IInv, LateOK
<1>5. CASE ModelRetried
  <2>1. retries < MaxModelRetries /\ late.models <= 1 + retries /\ late.tools = 0
    BY <1>5 DEF ModelRetried, MayRetry, IInv, LateOK
  <2>2. late.models <= MaxModelRetries
    BY <2>1, ToolLoopAssumption DEF IInv, TypeOK
  <2> QED
    BY <1>5, <2>1, <2>2, WorkStep DEF ModelRetried
<1>6. CASE ProviderFails
  BY <1>6, <1>a DEF ProviderFails
<1>7. CASE ModelReturns
  BY <1>7, <1>a DEF ModelReturns
<1>8. CASE CheckOutput
  BY <1>8, <1>a DEF CheckOutput, Cancelled
<1>9. CASE FinalAnswer
  BY <1>9, <1>a DEF FinalAnswer, Unstopped
<1>10. CASE PlainText
  BY <1>10, <1>a DEF PlainText, Unstopped
<1>11. CASE ProtocolError
  BY <1>11, <1>a DEF ProtocolError, Unstopped
<1>12. CASE ToolCall
  BY <1>12, <1>a DEF ToolCall, Unstopped
<1>13. CASE CheckTool
  BY <1>13, <1>a DEF CheckTool, Cancelled
<1>14. CASE StartTool
  BY <1>14, WorkStep, ToolLoopAssumption DEF StartTool, IInv, LateOK
<1>15. CASE ToolEnds
  BY <1>15, <1>a DEF ToolEnds
<1>16. CASE RecordTool
  BY <1>16, <1>a DEF RecordTool, Cancelled
<1>17. CASE OutOfRounds
  BY <1>17, <1>a DEF OutOfRounds
<1>18. CASE LastGuidance
  BY <1>18, <1>a DEF LastGuidance
<1>19. CASE CheckFinal
  BY <1>19, <1>a DEF CheckFinal, Cancelled
<1>20. CASE StartFinal
  BY <1>20, WorkStep, ToolLoopAssumption DEF StartFinal, IInv, LateOK
<1>21. CASE FinalModel
  BY <1>21, <1>a DEF FinalModel
<1>22. CASE Record
  <2>1. Turn!Recorded
    BY <1>22, StopStays DEF Record, Turn!Recorded, IInv
  <2> QED
    BY <2>1 DEF Turn!TurnNext
<1>23. CASE Control
  <2>1. CASE StopRequested'
    <3>1. Turn!Stop
      BY <1>23, <2>1 DEF Control, loopVars, Turn!Stop
    <3> QED
      BY <3>1 DEF Turn!TurnNext
  <2>2. CASE ~StopRequested'
    <3>1. StopRequested' = StopRequested
      <4>1. TypeOK
        BY DEF IInv
      <4>2. StopRequested => StopRequested'
        BY <4>1, StopStays
      <4>3. StopRequested \in BOOLEAN /\ StopRequested' \in BOOLEAN
        BY DEF StopRequested
      <4> QED
        BY <2>2, <4>2, <4>3
    <3>2. pc' = pc /\ result' = result /\ late' = late
      BY <1>23 DEF Control, loopVars
    <3> QED
      BY <3>1, <3>2 DEF Turn!turnVars
  <2> QED
    BY <2>1, <2>2
<1>24. CASE UNCHANGED vars
  BY <1>24 DEF vars, Turn!turnVars, StopRequested
<1> QED
  BY <1>1, <1>2, <1>3, <1>4, <1>5, <1>6, <1>7, <1>8, <1>9, <1>10, <1>11, <1>12, <1>13, <1>14,
     <1>15, <1>16, <1>17, <1>18, <1>19, <1>20, <1>21, <1>22, <1>23, <1>24 DEF Next, Step

\* A beginning of the loop is a beginning of the turn.
LEMMA TurnBegins == Init => Turn!TurnInit
  BY DEF Init, Turn!TurnInit, StopRequested

\* The loop is a turn as the daemon and its clients rely on it: a cancelled turn was
\* stopped, little begins after a stop, and nothing after the end.
THEOREM ImplementsTurn == Spec => Turn!TurnInit /\ [][Turn!TurnNext]_(Turn!turnVars)
  BY TurnBegins, TurnStep, Inductive, PTL DEF Spec
================================================================================
