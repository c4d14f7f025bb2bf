---------------------------- MODULE AppServerProofs ----------------------------
(***************************************************************************)
(* Proofs about AppServer, for every number of clients, threads, turns,    *)
(* failing saves and crashes.  The lemmas of the first part say what the   *)
(* functions on the state do to the set of turns of each thread; the       *)
(* invariants after them are stated and proved in these terms only.        *)
(***************************************************************************)
EXTENDS AppServer, SequenceTheorems, FiniteSetTheorems, WellFoundedInduction, TLAPS

States ==
  UNION {[nextThread : 0 .. MaxThreads, nextTurn : 0 .. MaxTurns, threads : [D -> Seq(Turn)]] :
           D \in SUBSET ThreadIds}

Threads(s) == DOMAIN s.threads

\* A state is a record of two numbers and a function from thread ids to turns.
LEMMA StateForm ==
  ASSUME NEW s \in States
  PROVE  /\ s.nextThread \in 0 .. MaxThreads
         /\ s.nextTurn \in 0 .. MaxTurns
         /\ Threads(s) \subseteq ThreadIds
         /\ s.threads \in [Threads(s) -> Seq(Turn)]
         /\ s = [nextThread |-> s.nextThread, nextTurn |-> s.nextTurn, threads |-> s.threads]
<1>1. PICK D \in SUBSET ThreadIds :
        s \in [nextThread : 0 .. MaxThreads, nextTurn : 0 .. MaxTurns, threads : [D -> Seq(Turn)]]
  BY DEF States
<1> QED
  BY <1>1 DEF Threads

\* And every such record is a state.
LEMMA StateMade ==
  ASSUME NEW m \in 0 .. MaxThreads, NEW n \in 0 .. MaxTurns, NEW D \in SUBSET ThreadIds,
         NEW f \in [D -> Seq(Turn)]
  PROVE  [nextThread |-> m, nextTurn |-> n, threads |-> f] \in States
  BY DEF States

Replaced(s, f) == [s EXCEPT !.threads = f]

\* A state keeps its form when its threads are replaced.
LEMMA ThreadsReplaced ==
  ASSUME NEW s \in States, NEW D \in SUBSET ThreadIds, NEW f \in [D -> Seq(Turn)]
  PROVE  /\ Replaced(s, f) \in States
         /\ Replaced(s, f).threads = f /\ Threads(Replaced(s, f)) = D
         /\ Replaced(s, f).nextTurn = s.nextTurn /\ Replaced(s, f).nextThread = s.nextThread
<1> DEFINE r == [nextThread |-> s.nextThread, nextTurn |-> s.nextTurn, threads |-> f]
<1>1. Replaced(s, f) = r
  BY StateForm DEF Replaced
<1>2. s.nextThread \in 0 .. MaxThreads /\ s.nextTurn \in 0 .. MaxTurns
  BY StateForm
<1>3. r \in States
  BY <1>2, StateMade
<1>4. r.threads = f /\ DOMAIN r.threads = D
      /\ r.nextTurn = s.nextTurn /\ r.nextThread = s.nextThread
  OBVIOUS
<1> HIDE DEF r
<1> QED
  BY <1>1, <1>3, <1>4 DEF Threads

\* A daemon without threads is in a state.
LEMMA EmptyIsState == EmptyState \in States /\ Threads(EmptyState) = {} 
<1>1. <<>> \in [{} -> Seq(Turn)]
  OBVIOUS
<1>2. 0 \in 0 .. MaxThreads /\ 0 \in 0 .. MaxTurns
  BY AppServerAssumption
<1>3. EmptyState \in States
  BY <1>1, <1>2, StateMade DEF EmptyState
<1>4. DOMAIN <<>> = {}
  OBVIOUS
<1> QED
  BY <1>3, <1>4 DEF EmptyState, Threads

\* The turns of a thread are turns.
LEMMA TurnsTyped ==
  ASSUME NEW s \in States, NEW t
  PROVE  TurnsOf(s, t) \subseteq Turn
<1>1. CASE t \in Threads(s)
  <2>1. s.threads[t] \in Seq(Turn)
    BY <1>1, StateForm
  <2> QED
    BY <1>1, <2>1 DEF TurnsOf, ToSet, Threads
<1>2. CASE t \notin Threads(s)
  BY <1>2 DEF TurnsOf, Threads
<1> QED
  BY <1>1, <1>2

\* The empty list has no turns.
LEMMA NoTurns == ToSet(<<>>) = {}
  BY DEF ToSet

\* A turn appended to a list is its only new member.
LEMMA AppendTurns ==
  ASSUME NEW q \in Seq(Turn), NEW x \in Turn
  PROVE  ToSet(Append(q, x)) = ToSet(q) \cup {x}
<1>1. DOMAIN q = 1 .. Len(q) /\ Len(q) \in Nat
  OBVIOUS
<1>2. DOMAIN Append(q, x) = 1 .. Len(q) + 1
  OBVIOUS
<1>3. \A i \in 1 .. Len(q) : Append(q, x)[i] = q[i]
  OBVIOUS
<1>4. Append(q, x)[Len(q) + 1] = x
  OBVIOUS
<1>5. 1 .. Len(q) + 1 = 1 .. Len(q) \cup {Len(q) + 1}
  BY <1>1
<1> QED
  BY <1>1, <1>2, <1>3, <1>4, <1>5 DEF ToSet

\* Taking a turn id changes no thread.
LEMMA TakeId ==
  ASSUME NEW s \in States, s.nextTurn < MaxTurns
  PROVE  LET n == [s EXCEPT !.nextTurn = @ + 1] IN
         /\ n \in States
         /\ n.nextTurn = s.nextTurn + 1 /\ n.nextThread = s.nextThread
         /\ Threads(n) = Threads(s)
         /\ \A t : TurnsOf(n, t) = TurnsOf(s, t)
<1>1. [s EXCEPT !.nextTurn = @ + 1] =
        [nextThread |-> s.nextThread, nextTurn |-> s.nextTurn + 1, threads |-> s.threads]
  BY StateForm
<1>2. s.nextTurn + 1 \in 0 .. MaxTurns
  BY StateForm, AppServerAssumption
<1> QED
  BY <1>1, <1>2, StateForm, StateMade DEF Threads, TurnsOf

\* create_thread adds a thread without turns.
LEMMA AddThread ==
  ASSUME NEW s \in States, s.nextThread < MaxThreads
  PROVE  /\ WithThread(s) \in States
         /\ WithThread(s).nextTurn = s.nextTurn
         /\ WithThread(s).nextThread = s.nextThread + 1
         /\ Threads(WithThread(s)) = Threads(s) \cup {s.nextThread + 1}
         /\ \A t : TurnsOf(WithThread(s), t) = TurnsOf(s, t)
<1> DEFINE f == [t \in Threads(s) \cup {s.nextThread + 1} |->
                   IF t \in Threads(s) THEN s.threads[t] ELSE <<>>]
<1> DEFINE n == [s EXCEPT !.nextThread = @ + 1]
<1>1. WithThread(s) = Replaced(n, f)
  BY DEF Replaced, WithThread, Threads
<1>2. s.nextThread + 1 \in ThreadIds /\ s.nextThread + 1 \in 0 .. MaxThreads
  BY StateForm, AppServerAssumption DEF ThreadIds
<1>3. f \in [Threads(s) \cup {s.nextThread + 1} -> Seq(Turn)]
  BY StateForm
<1>4. Threads(s) \cup {s.nextThread + 1} \in SUBSET ThreadIds
  BY <1>2, StateForm
<1>5. /\ WithThread(s) \in States /\ Threads(WithThread(s)) = Threads(s) \cup {s.nextThread + 1}
      /\ WithThread(s).nextTurn = s.nextTurn /\ WithThread(s).nextThread = s.nextThread + 1
      /\ WithThread(s).threads = f
  <2>1. n = [nextThread |-> s.nextThread + 1, nextTurn |-> s.nextTurn, threads |-> s.threads]
    BY StateForm
  <2>2. n \in States /\ n.nextTurn = s.nextTurn /\ n.nextThread = s.nextThread + 1
    <3>1. [nextThread |-> s.nextThread + 1, nextTurn |-> s.nextTurn, threads |-> s.threads] \in States
      BY <1>2, StateForm, StateMade
    <3> QED
      BY <2>1, <3>1
  <2> HIDE DEF n, f
  <2> QED
    BY <1>1, <1>3, <1>4, <2>2, ThreadsReplaced
<1>6. ASSUME NEW t PROVE TurnsOf(WithThread(s), t) = TurnsOf(s, t)
  <2>1. CASE t \in Threads(s)
    <3>1. t \in Threads(WithThread(s)) /\ WithThread(s).threads[t] = s.threads[t]
      BY <1>5, <2>1
    <3> QED
      BY <2>1, <3>1 DEF TurnsOf, Threads
  <2>2. CASE t \notin Threads(s)
    <3>1. TurnsOf(s, t) = {}
      BY <2>2 DEF TurnsOf, Threads
    <3>2. ASSUME t \in Threads(WithThread(s)) PROVE WithThread(s).threads[t] = <<>>
      <4>1. t \in Threads(s) \cup {s.nextThread + 1}
        BY <1>5, <3>2
      <4>2. f[t] = <<>>
        BY <2>2, <4>1
      <4> QED
        BY <1>5, <4>2
    <3> QED
      BY <3>1, <3>2, NoTurns DEF TurnsOf, Threads
  <2> QED
    BY <2>1, <2>2
<1> QED
  BY <1>5, <1>6

\* Registering appends the turn, active, to its thread.
LEMMA AddTurn ==
  ASSUME NEW s \in States, NEW t \in Threads(s), NEW id \in TurnIds
  PROVE  /\ WithTurn(s, t, id) \in States
         /\ WithTurn(s, t, id).nextTurn = s.nextTurn
         /\ WithTurn(s, t, id).nextThread = s.nextThread
         /\ Threads(WithTurn(s, t, id)) = Threads(s)
         /\ TurnsOf(WithTurn(s, t, id), t) = TurnsOf(s, t) \cup {[id |-> id, status |-> "active"]}
         /\ \A u : u # t => TurnsOf(WithTurn(s, t, id), u) = TurnsOf(s, u)
<1> DEFINE x == [id |-> id, status |-> "active"]
           f == [s.threads EXCEPT ![t] = Append(@, x)]
<1>1. x \in Turn
  BY DEF Turn, Statuses
<1>2. s.threads \in [Threads(s) -> Seq(Turn)] /\ s.threads[t] \in Seq(Turn)
  BY StateForm
<1>3. WithTurn(s, t, id) = Replaced(s, f)
  BY DEF Replaced, WithTurn
<1>4. Append(s.threads[t], x) \in Seq(Turn)
  BY <1>1, <1>2
<1>5. f \in [Threads(s) -> Seq(Turn)] /\ f[t] = Append(s.threads[t], x)
      /\ \A u \in Threads(s) : u # t => f[u] = s.threads[u]
  BY <1>2, <1>4
<1>6. ToSet(Append(s.threads[t], x)) = ToSet(s.threads[t]) \cup {x}
  BY <1>1, <1>2, AppendTurns
<1> HIDE DEF f, x
<1>7. /\ WithTurn(s, t, id) \in States
      /\ Threads(WithTurn(s, t, id)) = Threads(s)
      /\ WithTurn(s, t, id).nextTurn = s.nextTurn
      /\ WithTurn(s, t, id).nextThread = s.nextThread
      /\ WithTurn(s, t, id).threads = f
  <2>1. Threads(s) \in SUBSET ThreadIds /\ f \in [Threads(s) -> Seq(Turn)]
    BY <1>5, StateForm
  <2>2. /\ Replaced(s, f) \in States
        /\ Replaced(s, f).threads = f /\ Threads(Replaced(s, f)) = Threads(s)
        /\ Replaced(s, f).nextTurn = s.nextTurn /\ Replaced(s, f).nextThread = s.nextThread
    BY <2>1, ThreadsReplaced
  <2> QED
    BY <1>3, <2>2
<1>9. TurnsOf(WithTurn(s, t, id), t) = TurnsOf(s, t) \cup {x}
  BY <1>5, <1>6, <1>7 DEF TurnsOf, Threads
<1>10. \A u : u # t => TurnsOf(WithTurn(s, t, id), u) = TurnsOf(s, u)
  BY <1>5, <1>7 DEF TurnsOf, Threads
<1> QED
  BY <1>7, <1>9, <1>10 DEF x

\* Replacing elements one by one replaces them in the set.
LEMMA MappedTurns ==
  ASSUME NEW q \in Seq(Turn), NEW g, DOMAIN g = DOMAIN q, \A i \in DOMAIN q : g[i] \in Turn,
         g = [i \in DOMAIN q |-> g[i]]
  PROVE  g \in Seq(Turn)
<1>1. DOMAIN q = 1 .. Len(q) /\ Len(q) \in Nat
  OBVIOUS
<1>2. g \in [1 .. Len(q) -> Turn]
  BY <1>1
<1> QED
  BY <1>1, <1>2, SeqDef

Restatused(x, id, status) == IF x.id = id THEN [x EXCEPT !.status = status] ELSE x

\* A new status is a new status of that turn and changes no other.
LEMMA SetStatus ==
  ASSUME NEW s \in States, NEW t \in Threads(s), NEW id, NEW status \in Statuses
  PROVE  LET n == WithStatus(s, t, id, status) IN
         /\ n \in States
         /\ n.nextTurn = s.nextTurn /\ n.nextThread = s.nextThread
         /\ Threads(n) = Threads(s)
         /\ TurnsOf(n, t) = {Restatused(x, id, status) : x \in TurnsOf(s, t)}
         /\ \A u : u # t => TurnsOf(n, u) = TurnsOf(s, u)
<1> DEFINE q == s.threads[t]
           g == [i \in DOMAIN q |-> Restatused(q[i], id, status)]
           f == [s.threads EXCEPT ![t] = g]
<1>1. s.threads \in [Threads(s) -> Seq(Turn)] /\ q \in Seq(Turn)
  BY StateForm
<1>2. WithStatus(s, t, id, status) = Replaced(s, f)
  BY DEF Replaced, WithStatus, Restatused
<1>3. ASSUME NEW i \in DOMAIN q PROVE g[i] \in Turn
  <2>1. q[i] \in Turn
    BY <1>1
  <2>2. Restatused(q[i], id, status) \in Turn
    BY <2>1 DEF Turn, Restatused
  <2> QED
    BY <2>2
<1>4. g \in Seq(Turn)
  BY <1>1, <1>3, MappedTurns
<1>5. f \in [Threads(s) -> Seq(Turn)] /\ f[t] = g /\ \A u \in Threads(s) : u # t => f[u] = s.threads[u]
  BY <1>1, <1>4
<1>6. ToSet(g) = {Restatused(x, id, status) : x \in ToSet(q)}
  BY DEF ToSet
<1> HIDE DEF f, g
<1>7. /\ WithStatus(s, t, id, status) \in States
      /\ Threads(WithStatus(s, t, id, status)) = Threads(s)
      /\ WithStatus(s, t, id, status).nextTurn = s.nextTurn
      /\ WithStatus(s, t, id, status).nextThread = s.nextThread
      /\ WithStatus(s, t, id, status).threads = f
  <2>1. Threads(s) \in SUBSET ThreadIds /\ f \in [Threads(s) -> Seq(Turn)]
    BY <1>5, StateForm
  <2>2. /\ Replaced(s, f) \in States
        /\ Replaced(s, f).threads = f /\ Threads(Replaced(s, f)) = Threads(s)
        /\ Replaced(s, f).nextTurn = s.nextTurn /\ Replaced(s, f).nextThread = s.nextThread
    BY <2>1, ThreadsReplaced
  <2> QED
    BY <1>2, <2>2
<1>9. TurnsOf(WithStatus(s, t, id, status), t) = {Restatused(x, id, status) : x \in TurnsOf(s, t)}
  BY <1>5, <1>6, <1>7 DEF TurnsOf, Threads
<1>10. \A u : u # t => TurnsOf(WithStatus(s, t, id, status), u) = TurnsOf(s, u)
  BY <1>5, <1>7 DEF TurnsOf, Threads
<1> QED
  BY <1>7, <1>9, <1>10

Interrupted(x) == IF x.status = "active" THEN [x EXCEPT !.status = "interrupted"] ELSE x

\* Recovery interrupts the active turns and changes no other.
LEMMA Recovery ==
  ASSUME NEW s \in States
  PROVE  LET n == Recovered(s) IN
         /\ n \in States
         /\ n.nextTurn = s.nextTurn /\ n.nextThread = s.nextThread
         /\ Threads(n) = Threads(s)
         /\ \A t : TurnsOf(n, t) = {Interrupted(x) : x \in TurnsOf(s, t)}
<1> DEFINE g(t) == [i \in DOMAIN s.threads[t] |-> Interrupted(s.threads[t][i])]
           f == [t \in Threads(s) |-> g(t)]
<1>1. s.threads \in [Threads(s) -> Seq(Turn)]
  BY StateForm
<1>2. Recovered(s) = Replaced(s, f)
  BY DEF Replaced, Recovered, Interrupted, Threads
<1>3. ASSUME NEW t \in Threads(s) PROVE g(t) \in Seq(Turn)
  <2>1. s.threads[t] \in Seq(Turn)
    BY <1>1, <1>3
  <2>2. ASSUME NEW i \in DOMAIN s.threads[t] PROVE g(t)[i] \in Turn
    <3>1. s.threads[t][i] \in Turn
      BY <2>1
    <3>2. Interrupted(s.threads[t][i]) \in Turn
      BY <3>1 DEF Turn, Statuses, Interrupted
    <3> QED
      BY <3>2
  <2> QED
    BY <2>1, <2>2, MappedTurns
<1>4. \A t \in Threads(s) : ToSet(g(t)) = {Interrupted(x) : x \in ToSet(s.threads[t])}
  BY DEF ToSet
<1>5. f \in [Threads(s) -> Seq(Turn)] /\ \A t \in Threads(s) : f[t] = g(t)
  BY <1>3
<1> HIDE DEF g, f
<1>6. /\ Recovered(s) \in States /\ Threads(Recovered(s)) = Threads(s)
      /\ Recovered(s).nextTurn = s.nextTurn /\ Recovered(s).nextThread = s.nextThread
      /\ Recovered(s).threads = f
  <2>1. Threads(s) \in SUBSET ThreadIds /\ f \in [Threads(s) -> Seq(Turn)]
    BY <1>5, StateForm
  <2>2. /\ Replaced(s, f) \in States
        /\ Replaced(s, f).threads = f /\ Threads(Replaced(s, f)) = Threads(s)
        /\ Replaced(s, f).nextTurn = s.nextTurn /\ Replaced(s, f).nextThread = s.nextThread
    BY <2>1, ThreadsReplaced
  <2> QED
    BY <1>2, <2>2
<1>8. \A t : TurnsOf(Recovered(s), t) = {Interrupted(x) : x \in TurnsOf(s, t)}
  BY <1>4, <1>5, <1>6 DEF TurnsOf, Threads
<1> QED
  BY <1>6, <1>8

\* A set of numbers up to a bound has a greatest element.
LEMMA Greatest ==
  ASSUME NEW n \in Nat, NEW S \in SUBSET (0 .. n), S # {}
  PROVE  Max(S) \in S /\ \A y \in S : y <= Max(S)
<1> DEFINE T == {n - x : x \in S}
<1>1. T \subseteq Nat /\ T # {}
  <2>1. \A x \in S : n - x \in Nat
    OBVIOUS
  <2> QED
    BY <2>1
<1>2. PICK m \in T : \A y \in T : ~ (<<y, m>> \in OpToRel(<, Nat))
  BY <1>1, NatLessThanWellFounded, WFMin
<1>3. \A y \in T : m <= y
  <2>1. OpToRel(<, Nat) = {ss \in Nat \X Nat : ss[1] < ss[2]}
    BY DEF OpToRel
  <2>2. ASSUME NEW y \in T, y < m PROVE <<y, m>> \in OpToRel(<, Nat)
    BY <1>1, <2>1, <2>2
  <2>3. \A y \in T : ~ (y < m)
    BY <1>2, <2>2
  <2> HIDE DEF T
  <2> QED
    BY <1>1, <2>3
<1>4. n - m \in S /\ \A y \in S : y <= n - m
  BY <1>3
<1>5. \E x \in S : \A y \in S : x >= y
  BY <1>4
<1> QED
  BY <1>5 DEF Max

\* The sequence floors: numbers are at least those saved and those in use.
LEMMA Restoring ==
  ASSUME NEW s \in States
  PROVE  LET n == Restored(s) IN
         /\ n \in States
         /\ s.nextTurn <= n.nextTurn
         /\ n.threads = s.threads
         /\ \A t \in Threads(s) : t <= n.nextThread
         /\ \A t : \A x \in TurnsOf(s, t) : x.id <= n.nextTurn
<1> DEFINE A == {s.nextThread} \cup DOMAIN s.threads
           B == {s.nextTurn} \cup UNION {{x.id : x \in ToSet(s.threads[t])} : t \in DOMAIN s.threads}
<1>1. A \subseteq 0 .. MaxThreads
  BY StateForm, AppServerAssumption DEF Threads, ThreadIds
<1>2. ASSUME NEW t, NEW x \in TurnsOf(s, t) PROVE x.id \in B /\ x.id \in 0 .. MaxTurns
  <2>1. t \in DOMAIN s.threads /\ x \in ToSet(s.threads[t])
    BY <1>2 DEF TurnsOf
  <2>2. x.id \in 1 .. MaxTurns
    BY <1>2, TurnsTyped DEF Turn, TurnIds
  <2> QED
    BY <2>1, <2>2, AppServerAssumption
<1>3. B \subseteq 0 .. MaxTurns
  BY <1>2, StateForm DEF TurnsOf
<1>4. Max(A) \in 0 .. MaxThreads /\ \A y \in A : y <= Max(A)
  BY <1>1, Greatest, AppServerAssumption
<1>5. Max(B) \in 0 .. MaxTurns /\ \A y \in B : y <= Max(B)
  BY <1>3, Greatest, AppServerAssumption
<1>6. Restored(s) = [nextThread |-> Max(A), nextTurn |-> Max(B), threads |-> s.threads]
  <2>1. Restored(s) = [[s EXCEPT !.nextThread = Max(A)] EXCEPT !.nextTurn = Max(B)]
    BY DEF Restored
  <2> HIDE DEF A, B
  <2> QED
    BY <2>1, StateForm
<1>7. s.nextTurn \in B /\ Threads(s) \subseteq A
  BY DEF Threads
<1> HIDE DEF A, B
<1> DEFINE r == [nextThread |-> Max(A), nextTurn |-> Max(B), threads |-> s.threads]
<1>8. r \in States
  BY <1>4, <1>5, StateForm, StateMade
<1>9. r.nextTurn = Max(B) /\ r.nextThread = Max(A) /\ r.threads = s.threads
  OBVIOUS
<1> HIDE DEF r
<1>10. Restored(s) = r
  BY <1>6 DEF r
<1> QED
  BY <1>2, <1>4, <1>5, <1>7, <1>8, <1>9, <1>10

\* The ids of all turns of a state.
Ids(s) == UNION {{x.id : x \in TurnsOf(s, t)} : t \in ThreadIds}

\* States with the same turns have the same ids.
LEMMA SameIds ==
  ASSUME NEW s, NEW n, \A t : TurnsOf(n, t) = TurnsOf(s, t)
  PROVE  Ids(n) = Ids(s)
  BY DEF Ids

\* A turn that is registered adds its id.
LEMMA AddTurnIds ==
  ASSUME NEW s \in States, NEW t \in Threads(s), NEW id \in TurnIds
  PROVE  Ids(WithTurn(s, t, id)) = Ids(s) \cup {id}
<1>1. /\ TurnsOf(WithTurn(s, t, id), t) = TurnsOf(s, t) \cup {[id |-> id, status |-> "active"]}
      /\ \A u : u # t => TurnsOf(WithTurn(s, t, id), u) = TurnsOf(s, u)
  BY AddTurn
<1>2. t \in ThreadIds
  BY StateForm
<1>3. [id |-> id, status |-> "active"].id = id
  OBVIOUS
<1> DEFINE n == WithTurn(s, t, id)
<1> HIDE DEF n
<1>4. {x.id : x \in TurnsOf(n, t)} = {x.id : x \in TurnsOf(s, t)} \cup {id}
  BY <1>1, <1>3 DEF n
<1>5. \A u : u # t => {x.id : x \in TurnsOf(n, u)} = {x.id : x \in TurnsOf(s, u)}
  BY <1>1 DEF n
<1>6. ASSUME NEW i PROVE i \in Ids(n) <=> i \in Ids(s) \cup {id}
  BY <1>2, <1>4, <1>5 DEF Ids
<1> QED
  BY <1>6 DEF n

\* A new status of a turn leaves the ids as they are.
LEMMA SetStatusIds ==
  ASSUME NEW s \in States, NEW t \in Threads(s), NEW id, NEW status \in Statuses
  PROVE  Ids(WithStatus(s, t, id, status)) = Ids(s)
<1> DEFINE n == WithStatus(s, t, id, status)
<1>1. /\ TurnsOf(n, t) = {Restatused(x, id, status) : x \in TurnsOf(s, t)}
      /\ \A u : u # t => TurnsOf(n, u) = TurnsOf(s, u)
  BY SetStatus
<1>2. \A x \in TurnsOf(s, t) : Restatused(x, id, status).id = x.id
  BY TurnsTyped DEF Restatused, Turn
<1> HIDE DEF n
<1>3. {x.id : x \in TurnsOf(n, t)} = {x.id : x \in TurnsOf(s, t)}
  BY <1>1, <1>2
<1>4. \A u : {x.id : x \in TurnsOf(n, u)} = {x.id : x \in TurnsOf(s, u)}
  BY <1>1, <1>3
<1> QED
  BY <1>4 DEF Ids, n

\* Neither do the sequence floors and the recovery change them.
LEMMA RecoveredIds ==
  ASSUME NEW s \in States
  PROVE  Ids(Recovered(Restored(s))) = Ids(s)
<1> DEFINE n == Recovered(Restored(s))
<1>1. Restored(s) \in States /\ \A t : TurnsOf(Restored(s), t) = TurnsOf(s, t)
  BY Restoring DEF TurnsOf
<1>2. \A t : TurnsOf(n, t) = {Interrupted(x) : x \in TurnsOf(s, t)}
  BY <1>1, Recovery
<1>3. \A t : \A x \in TurnsOf(s, t) : Interrupted(x).id = x.id
  BY TurnsTyped DEF Interrupted, Turn
<1> HIDE DEF n
<1>4. \A t : {x.id : x \in TurnsOf(n, t)} = {x.id : x \in TurnsOf(s, t)}
  BY <1>2, <1>3
<1> QED
  BY <1>4 DEF Ids, n

\* Threads have the numbers that were given out.
Numbered(s) == \A t \in Threads(s) : t <= s.nextThread

--------------------------------------------------------------------------------

PCs == {"idle", "history", "register", "announce", "running", "record", "answer"}

Typed ==
  /\ state \in States
  /\ snapshot \in States
  /\ active \in [ThreadIds -> TurnIds \cup {None}]
  /\ up \in BOOLEAN
  /\ pc \in [Clients -> PCs]
  /\ thread \in [Clients -> ThreadIds \cup {None}]
  /\ turn \in [Clients -> TurnIds \cup {None}]
  /\ outcome \in [Clients -> Outcomes \cup {"active"}]
  /\ saveFailures \in 0 .. MaxSaveFailures
  /\ crashes \in 0 .. MaxCrashes
  /\ told \in [threads : SUBSET ThreadIds, turns : SUBSET TurnIds]

\* A request at work has a thread that memory and snapshot know; memory knows
\* every thread of the snapshot; without a daemon there is no memory.
Serving ==
  /\ \A c \in Clients : pc[c] # "idle" =>
       /\ up
       /\ thread[c] \in Threads(state)
       /\ thread[c] \in Threads(snapshot)
       /\ turn[c] \in TurnIds
  /\ \A c \in Clients : pc[c] \in {"record", "answer"} => outcome[c] \in Outcomes
  /\ up => Threads(snapshot) \subseteq Threads(state)
  /\ ~up => state = EmptyState /\ \A t \in ThreadIds : active[t] = None

TInv == Typed /\ Serving

\* A save leaves the snapshot as it was or makes it the state that was to be saved.
LEMMA Saving ==
  ASSUME Typed, NEW s \in States, NEW saved \in BOOLEAN, Save(s, saved)
  PROVE  /\ snapshot' \in States
         /\ saveFailures' \in 0 .. MaxSaveFailures
         /\ saved => snapshot' = s
         /\ ~saved => snapshot' = snapshot
  BY AppServerAssumption DEF Typed, Save

\* A request that is forgotten is idle, and the others are as they were.
LEMMA Forgetting ==
  ASSUME Typed, NEW c \in Clients, Forget(c)
  PROVE  /\ pc' = [pc EXCEPT ![c] = "idle"] /\ pc' \in [Clients -> PCs]
         /\ thread' \in [Clients -> ThreadIds \cup {None}]
         /\ turn' \in [Clients -> TurnIds \cup {None}]
         /\ outcome' \in [Clients -> Outcomes \cup {"active"}]
         /\ \A d \in Clients : d # c => /\ thread'[d] = thread[d] /\ turn'[d] = turn[d]
                                        /\ outcome'[d] = outcome[d]
  BY DEF Typed, Forget, Goto, PCs

\* A new thread takes the next number.
LEMMA AddNumber ==
  ASSUME NEW s \in States, NEW n \in States, Numbered(s),
         n.nextThread = s.nextThread + 1, Threads(n) = Threads(s) \cup {s.nextThread + 1}
  PROVE  Numbered(n)
<1>1. s.nextThread \in Nat /\ Threads(s) \subseteq Nat
  BY StateForm, AppServerAssumption DEF ThreadIds
<1> QED
  BY <1>1 DEF Numbered

\* turn/start takes an id for a thread that is not busy, old or new.
LEMMA Allocating ==
  ASSUME TInv, NEW c \in Clients, Allocate(c)
  PROVE  /\ state' \in States
         /\ state'.nextTurn = state.nextTurn + 1
         /\ state'.nextTurn \in TurnIds
         /\ Threads(state) \subseteq Threads(state')
         /\ Numbered(state) => Numbered(state')
         /\ \A t : TurnsOf(state', t) = TurnsOf(state, t)
         /\ \E t \in Threads(state'), saved \in BOOLEAN :
              /\ active[t] = None
              /\ Save(state', saved)
              /\ IF saved
                 THEN /\ Goto(c, "history")
                      /\ thread' = [thread EXCEPT ![c] = t]
                      /\ turn' = [turn EXCEPT ![c] = state'.nextTurn]
                 ELSE UNCHANGED <<pc, thread, turn>>
<1> DEFINE s(new) == IF new THEN WithThread(state) ELSE state
<1>1. PICK new \in BOOLEAN :
        /\ new => state.nextThread < MaxThreads
        /\ \E t \in (IF new THEN {s(new).nextThread} ELSE DOMAIN state.threads) :
             /\ active[t] = None
             /\ state' = [s(new) EXCEPT !.nextTurn = @ + 1]
             /\ \E saved \in BOOLEAN :
                  /\ Save(state', saved)
                  /\ IF saved
                     THEN /\ Goto(c, "history")
                          /\ thread' = [thread EXCEPT ![c] = t]
                          /\ turn' = [turn EXCEPT ![c] = state'.nextTurn]
                     ELSE UNCHANGED <<pc, thread, turn>>
  BY DEF Allocate
<1>2. /\ s(new) \in States /\ s(new).nextTurn = state.nextTurn
      /\ Threads(state) \subseteq Threads(s(new))
      /\ new => s(new).nextThread \in Threads(s(new))
      /\ Numbered(state) => Numbered(s(new))
      /\ \A t : TurnsOf(s(new), t) = TurnsOf(state, t)
  <2>1. CASE new
    <3>1. /\ WithThread(state) \in States /\ WithThread(state).nextTurn = state.nextTurn
          /\ WithThread(state).nextThread = state.nextThread + 1
          /\ Threads(WithThread(state)) = Threads(state) \cup {state.nextThread + 1}
          /\ \A t : TurnsOf(WithThread(state), t) = TurnsOf(state, t)
      BY <1>1, <2>1, AddThread DEF TInv, Typed
    <3>2. Numbered(state) => Numbered(WithThread(state))
      BY <3>1, AddNumber DEF TInv, Typed
    <3> QED
      BY <2>1, <3>1, <3>2
  <2>2. CASE ~new
    BY <2>2 DEF TInv, Typed
  <2> QED
    BY <2>1, <2>2
<1> HIDE DEF s
<1>3. state.nextTurn < MaxTurns
  BY DEF Allocate
<1>4. /\ state' \in States /\ state'.nextTurn = s(new).nextTurn + 1
      /\ Threads(state') = Threads(s(new)) /\ state'.nextThread = s(new).nextThread
      /\ \A t : TurnsOf(state', t) = TurnsOf(s(new), t)
  BY <1>1, <1>2, <1>3, TakeId
<1>5. state'.nextTurn \in TurnIds
  BY <1>2, <1>3, <1>4, StateForm, AppServerAssumption DEF TInv, Typed, TurnIds
<1>6. \A t \in (IF new THEN {s(new).nextThread} ELSE DOMAIN state.threads) : t \in Threads(state')
  BY <1>2, <1>4 DEF Threads
<1>7. Numbered(state) => Numbered(state')
  BY <1>2, <1>4 DEF Numbered
<1> QED
  BY <1>1, <1>2, <1>4, <1>5, <1>6, <1>7

\* At first everything has its type and no client is being served.
LEMMA TypeInitial == Init => TInv
<1> SUFFICES ASSUME Init PROVE TInv
  OBVIOUS
<1>1. 0 \in 0 .. MaxSaveFailures /\ 0 \in 0 .. MaxCrashes
  BY AppServerAssumption
<1> QED
  BY <1>1, EmptyIsState DEF Init, TInv, Typed, Serving, PCs

\* Every step keeps types and threads.
LEMMA TypeStep == TInv /\ [Next]_vars => TInv'
<1> SUFFICES ASSUME TInv, [Next]_vars PROVE TInv'
  OBVIOUS
<1> USE DEF TInv, PCs, requests, claims
<1>1. ASSUME NEW c \in Clients, StartThread(c) PROVE TInv'
  <2>1. /\ state' \in States /\ Threads(state') = Threads(state) \cup {state.nextThread + 1}
        /\ state'.nextThread \in Threads(state')
    BY <1>1, AddThread DEF StartThread, Typed
  <2>2. PICK saved \in BOOLEAN :
          /\ Save(state', saved)
          /\ told' = IF saved THEN [told EXCEPT !.threads = @ \cup {state'.nextThread}] ELSE told
    BY <1>1 DEF StartThread
  <2>3. told' \in [threads : SUBSET ThreadIds, turns : SUBSET TurnIds]
    BY <2>1, <2>2, StateForm DEF Typed
  <2>4. snapshot' \in States /\ saveFailures' \in 0 .. MaxSaveFailures
        /\ Threads(snapshot) \subseteq Threads(snapshot')
        /\ Threads(snapshot') \subseteq Threads(state')
    BY <1>1, <2>1, <2>2, Saving DEF StartThread, Serving
  <2> QED
    BY <1>1, <2>1, <2>3, <2>4 DEF StartThread, Typed, Serving
<1>2. ASSUME NEW c \in Clients, ResumeThread(c) PROVE TInv'
  <2>1. PICK t \in DOMAIN state.threads :
          told' = [told EXCEPT !.turns = @ \cup {x.id : x \in TurnsOf(state, t)}]
    BY <1>2 DEF ResumeThread
  <2>2. t \in ThreadIds /\ {x.id : x \in TurnsOf(state, t)} \subseteq TurnIds
    BY StateForm, TurnsTyped DEF Typed, Threads, Turn
  <2>3. told' \in [threads : SUBSET ThreadIds, turns : SUBSET TurnIds]
    BY <2>1, <2>2 DEF Typed
  <2> QED
    BY <1>2, <2>3 DEF ResumeThread, Typed, Serving
<1>14. ASSUME NEW c \in Clients, ListThreads(c) PROVE TInv'
  BY <1>14 DEF ListThreads, Typed, Serving
<1>3. ASSUME NEW c \in Clients, Allocate(c) PROVE TInv'
  <2>1. PICK t \in Threads(state'), saved \in BOOLEAN :
          /\ Save(state', saved)
          /\ IF saved
             THEN /\ Goto(c, "history")
                  /\ thread' = [thread EXCEPT ![c] = t]
                  /\ turn' = [turn EXCEPT ![c] = state'.nextTurn]
             ELSE UNCHANGED <<pc, thread, turn>>
    BY <1>3, Allocating
  <2>2. state' \in States /\ state'.nextTurn \in TurnIds /\ Threads(state) \subseteq Threads(state')
    BY <1>3, Allocating
  <2>3. /\ snapshot' \in States /\ saveFailures' \in 0 .. MaxSaveFailures
        /\ saved => snapshot' = state'
        /\ ~saved => snapshot' = snapshot
    BY <2>1, <2>2, Saving
  <2>4. t \in ThreadIds
    BY <2>2, StateForm
  <2>5. UNCHANGED <<active, up, history, outcome, crashes, told>> /\ up /\ pc[c] = "idle"
    BY <1>3 DEF Allocate
  <2>6. Typed'
    BY <2>1, <2>2, <2>3, <2>4, <2>5 DEF Typed, Goto
  <2>7. Serving'
    BY <2>1, <2>2, <2>3, <2>4, <2>5 DEF Typed, Serving, Goto
  <2> QED
    BY <2>6, <2>7
<1>4. ASSUME NEW c \in Clients, Abandon(c) \/ RegisterBusy(c) PROVE TInv'
  BY <1>4, Forgetting DEF Abandon, RegisterBusy, Typed, Serving
<1>5. ASSUME NEW c \in Clients, ReadHistory(c) PROVE TInv'
  BY <1>5 DEF ReadHistory, Goto, Typed, Serving
<1>6. ASSUME NEW c \in Clients, Register(c) PROVE TInv'
  <2>1. PICK saved \in BOOLEAN :
          /\ Save(WithTurn(state, thread[c], turn[c]), saved)
          /\ IF saved
             THEN /\ state' = WithTurn(state, thread[c], turn[c])
                  /\ active' = [active EXCEPT ![thread[c]] = turn[c]]
                  /\ Goto(c, "announce")
                  /\ UNCHANGED <<thread, turn, history, outcome>>
             ELSE UNCHANGED <<state, active>> /\ Forget(c)
    BY <1>6 DEF Register
  <2>2. thread[c] \in Threads(state) /\ turn[c] \in TurnIds /\ up /\ thread[c] \in ThreadIds
    BY <1>6, StateForm DEF Register, Typed, Serving
  <2>3. WithTurn(state, thread[c], turn[c]) \in States
        /\ Threads(WithTurn(state, thread[c], turn[c])) = Threads(state)
    BY <2>2, AddTurn DEF Typed
  <2>4. /\ snapshot' \in States /\ saveFailures' \in 0 .. MaxSaveFailures
        /\ saved => snapshot' = WithTurn(state, thread[c], turn[c])
        /\ ~saved => snapshot' = snapshot
    BY <2>1, <2>3, Saving
  <2>5. UNCHANGED <<up, crashes, told>>
    BY <1>6 DEF Register
  <2>6. CASE saved
    BY <2>1, <2>2, <2>3, <2>4, <2>5, <2>6 DEF Goto, Typed, Serving
  <2>7. CASE ~saved
    BY <2>1, <2>2, <2>4, <2>5, <2>7, Forgetting DEF Typed, Serving
  <2> QED
    BY <2>6, <2>7
<1>7. ASSUME NEW c \in Clients, Announce(c) PROVE TInv'
  <2>1. thread[c] \in ThreadIds /\ turn[c] \in TurnIds
    BY <1>7, StateForm DEF Announce, Typed, Serving
  <2>2. told' \in [threads : SUBSET ThreadIds, turns : SUBSET TurnIds]
    BY <1>7, <2>1 DEF Announce, Typed
  <2> QED
    BY <1>7, <2>2 DEF Announce, Goto, Typed, Serving
<1>8. ASSUME NEW c \in Clients, AnnounceFails(c) \/ RunEnds(c) PROVE TInv'
  BY <1>8 DEF AnnounceFails, RunEnds, Goto, Typed, Serving, Outcomes
<1>9. ASSUME NEW c \in Clients, Record(c) PROVE TInv'
  <2> DEFINE s == WithStatus(state, thread[c], turn[c], outcome[c])
  <2>1. PICK saved \in BOOLEAN :
          /\ Save(state', saved)
          /\ IF AnswersUnsaved(saved)
             THEN Goto(c, "answer") /\ UNCHANGED <<thread, turn, history, outcome>>
             ELSE Forget(c)
    BY <1>9 DEF Record
  <2>2. thread[c] \in Threads(state) /\ outcome[c] \in Outcomes /\ up /\ state' = s
    BY <1>9 DEF Record, Serving
  <2>3. state' \in States /\ Threads(state') = Threads(state)
    BY <2>2, SetStatus DEF Typed, Statuses
  <2>4. /\ snapshot' \in States /\ saveFailures' \in 0 .. MaxSaveFailures
        /\ saved => snapshot' = state'
        /\ ~saved => snapshot' = snapshot
    BY <2>1, <2>3, Saving
  <2>5. UNCHANGED <<up, crashes, told>> /\ active' \in [ThreadIds -> TurnIds \cup {None}]
    BY <1>9 DEF Record, Released, Typed
  <2>6. CASE AnswersUnsaved(saved)
    <3>1. pc' = [pc EXCEPT ![c] = "answer"] /\ UNCHANGED <<thread, turn, outcome>>
      BY <2>1, <2>6 DEF Goto
    <3> HIDE DEF s
    <3>2. Typed'
      BY <2>3, <2>4, <2>5, <3>1 DEF Typed
    <3>3. Threads(snapshot) \subseteq Threads(snapshot') /\ Threads(snapshot') \subseteq Threads(state')
      BY <2>2, <2>3, <2>4 DEF Serving
    <3>4. ASSUME NEW d \in Clients, pc'[d] # "idle"
          PROVE  /\ thread'[d] \in Threads(state') /\ thread'[d] \in Threads(snapshot')
                 /\ turn'[d] \in TurnIds
                 /\ pc'[d] \in {"record", "answer"} => outcome'[d] \in Outcomes
      <4>1. pc[d] # "idle" /\ (pc'[d] \in {"record", "answer"} => d = c \/ pc[d] = pc'[d])
        BY <1>9, <3>1, <3>4 DEF Record, Typed
      <4> QED
        BY <2>2, <2>3, <3>1, <3>3, <4>1 DEF Serving
    <3>5. Serving'
      BY <2>2, <2>5, <3>3, <3>4 DEF Serving
    <3> QED
      BY <3>2, <3>5
  <2>7. CASE ~AnswersUnsaved(saved)
    BY <2>1, <2>2, <2>3, <2>4, <2>5, <2>7, Forgetting DEF Typed, Serving
  <2> QED
    BY <2>6, <2>7
<1>10. ASSUME NEW c \in Clients, Answer(c) PROVE TInv'
  BY <1>10, Forgetting DEF Answer, Typed, Serving
<1>11. CASE Crash
  <2>1. crashes' \in 0 .. MaxCrashes
    BY <1>11, AppServerAssumption DEF Crash, Typed
  <2>2. Typed'
    BY <1>11, <2>1, EmptyIsState DEF Crash, Typed
  <2>3. Serving'
    BY <1>11 DEF Crash, Serving
  <2> QED
    BY <2>2, <2>3
<1>12. CASE Restart
  <2> DEFINE s == Recovered(Restored(snapshot))
  <2>1. s \in States /\ Threads(s) = Threads(snapshot)
    BY Restoring, Recovery DEF Typed, Threads
  <2>2. ~up /\ UNCHANGED <<active, pc, thread, turn, outcome, crashes, told>>
    BY <1>12 DEF Restart
  <2>3. CASE s.threads = snapshot.threads
    <3>1. up' = TRUE /\ state' = s /\ UNCHANGED <<snapshot, saveFailures>>
      BY <1>12, <2>3 DEF Restart
    <3> HIDE DEF s
    <3> QED
      BY <2>1, <2>2, <3>1 DEF Typed, Serving
  <2>4. CASE s.threads # snapshot.threads
    <3>1. PICK saved \in BOOLEAN :
            Save(s, saved) /\ up' = saved /\ state' = IF saved THEN s ELSE state
      BY <1>12, <2>4 DEF Restart
    <3> HIDE DEF s
    <3>2. /\ snapshot' \in States /\ saveFailures' \in 0 .. MaxSaveFailures
          /\ saved => snapshot' = s
          /\ ~saved => snapshot' = snapshot
      BY <2>1, <3>1, Saving
    <3> QED
      BY <2>1, <2>2, <3>1, <3>2 DEF Typed, Serving
  <2> QED
    BY <2>3, <2>4
<1>13. CASE UNCHANGED vars
  BY <1>13 DEF vars, Typed, Serving
<1> QED
  BY <1>1, <1>2, <1>3, <1>4, <1>5, <1>6, <1>7, <1>8, <1>9, <1>10, <1>11, <1>12, <1>13, <1>14
     DEF Next, Serve

\* Every variable has its type, whatever fails and however often the daemon dies.
THEOREM TypeCorrect == Spec => []TypeOK
<1>1. TInv => TypeOK
  <2> SUFFICES ASSUME TInv PROVE TypeOK
    OBVIOUS
  <2>1. /\ state.nextThread \in 0 .. MaxThreads /\ state.nextTurn \in 0 .. MaxTurns
        /\ DOMAIN state.threads \subseteq ThreadIds
        /\ \A t \in DOMAIN state.threads : state.threads[t] \in Seq(Turn)
    BY StateForm DEF TInv, Typed, Threads
  <2>2. /\ DOMAIN snapshot.threads \subseteq ThreadIds
        /\ \A t \in DOMAIN snapshot.threads : snapshot.threads[t] \in Seq(Turn)
    BY StateForm DEF TInv, Typed, Threads
  <2> QED
    BY <2>1, <2>2 DEF TypeOK, TInv, Typed, PCs
<1> QED
  BY <1>1, TypeInitial, TypeStep, PTL DEF Spec

--------------------------------------------------------------------------------

\* A save outside of a crash: what was saved is not older than what is saved.
LEMMA NotOlder ==
  ASSUME Typed, NEW s \in States, NEW saved \in BOOLEAN, Save(s, saved),
         snapshot.nextTurn <= s.nextTurn, Threads(snapshot) \subseteq Threads(s)
  PROVE  /\ snapshot.nextTurn <= snapshot'.nextTurn
         /\ snapshot'.nextTurn <= s.nextTurn
         /\ Threads(snapshot) \subseteq Threads(snapshot')
<1>1. snapshot' = s \/ snapshot' = snapshot
  BY Saving
<1>2. s.nextTurn \in 0 .. MaxTurns /\ snapshot.nextTurn \in 0 .. MaxTurns
  BY StateForm DEF Typed
<1>3. s.nextTurn <= s.nextTurn /\ snapshot.nextTurn <= snapshot.nextTurn
  BY <1>2
<1> QED
  BY <1>1, <1>3

\* Every id that was given out is at or below the number that is saved, and the id of
\* a request that is not registered yet is in no list and known to no client.
IdsInv ==
  /\ up => snapshot.nextTurn <= state.nextTurn /\ Numbered(state)
  /\ told.threads \subseteq Threads(snapshot)
  /\ \A id \in told.turns \cup Ids(state) \cup Ids(snapshot) : id <= snapshot.nextTurn
  /\ \A c \in Clients : pc[c] # "idle" => turn[c] <= snapshot.nextTurn
  /\ \A c, d \in Clients : c # d /\ pc[c] # "idle" /\ pc[d] # "idle" => turn[c] # turn[d]
  /\ \A c \in Clients : pc[c] \in {"history", "register"} => turn[c] \notin told.turns \cup Ids(state)

\* The ids of turns are numbers.
LEMMA IdsTyped ==
  ASSUME NEW s \in States
  PROVE  Ids(s) \subseteq TurnIds
  BY TurnsTyped DEF Ids, Turn

\* It stays so while the snapshot grows and nobody takes or lists an id.
LEMMA IdsStay ==
  ASSUME TInv, TInv', IdsInv,
         snapshot.nextTurn <= snapshot'.nextTurn, Threads(snapshot) \subseteq Threads(snapshot'),
         up' => snapshot'.nextTurn <= state'.nextTurn /\ Numbered(state'),
         told'.turns \subseteq told.turns \cup Ids(state), told'.threads \subseteq Threads(snapshot'),
         Ids(snapshot') \subseteq Ids(state) \cup Ids(snapshot),
         Ids(state') \subseteq Ids(state) \cup Ids(snapshot),
         (\A c \in Clients : pc'[c] = "idle") \/ Ids(state') \subseteq Ids(state),
         \A c \in Clients : pc'[c] # "idle" => pc[c] # "idle" /\ turn'[c] = turn[c],
         \A c \in Clients : pc'[c] \in {"history", "register"} => pc[c] \in {"history", "register"}
  PROVE  IdsInv'
<1>1. snapshot.nextTurn \in Nat /\ snapshot'.nextTurn \in Nat
  BY StateForm, AppServerAssumption DEF TInv, Typed
<1>2. \A id \in told.turns \cup Ids(state) \cup Ids(snapshot) : id \in Nat /\ id <= snapshot'.nextTurn
  BY <1>1, IdsTyped DEF IdsInv, TInv, Typed, TurnIds
<1>3. ASSUME NEW c \in Clients, pc'[c] # "idle" PROVE turn'[c] <= snapshot'.nextTurn
  <2>1. turn[c] <= snapshot.nextTurn /\ turn[c] \in Nat /\ turn'[c] = turn[c]
    BY <1>3 DEF IdsInv, TInv, Serving, TurnIds
  <2> QED
    BY <1>1, <2>1
<1>4. \A id \in told'.turns \cup Ids(state') \cup Ids(snapshot') : id <= snapshot'.nextTurn
  BY <1>2
<1>5. ASSUME NEW c \in Clients, pc'[c] \in {"history", "register"}
      PROVE  turn'[c] \notin told'.turns \cup Ids(state')
  BY <1>5 DEF IdsInv
<1>6. (\A id \in told.turns \cup Ids(state) \cup Ids(snapshot) : id <= snapshot.nextTurn)'
  BY <1>4 DEF Ids, TurnsOf
<1>7. (\A c \in Clients : pc[c] \in {"history", "register"} => turn[c] \notin told.turns \cup Ids(state))'
  BY <1>5 DEF Ids, TurnsOf
<1>8. (up => snapshot.nextTurn <= state.nextTurn /\ Numbered(state))'
  BY DEF Numbered, Threads
<1>9. (told.threads \subseteq Threads(snapshot))'
  BY DEF Threads
<1> QED
  BY <1>3, <1>6, <1>7, <1>8, <1>9 DEF IdsInv

\* Every step keeps the ids apart.
LEMMA IdsStep == TInv /\ TInv' /\ IdsInv /\ [Next]_vars => IdsInv'
<1> SUFFICES ASSUME TInv, TInv', IdsInv, [Next]_vars PROVE IdsInv'
  OBVIOUS
<1>0. /\ snapshot.nextTurn <= snapshot.nextTurn /\ state.nextTurn <= state.nextTurn
      /\ told.threads \subseteq Threads(snapshot)
      /\ state.nextTurn \in Nat /\ snapshot.nextTurn \in Nat
  <2>1. state \in States /\ snapshot \in States /\ told.threads \subseteq Threads(snapshot)
    BY DEF TInv, Typed, IdsInv
  <2>2. state.nextTurn \in Nat /\ snapshot.nextTurn \in Nat
    BY <2>1, StateForm, AppServerAssumption
  <2> QED
    BY <2>1, <2>2
<1>1. ASSUME NEW c \in Clients, StartThread(c) PROVE IdsInv'
  <2>1. /\ state' \in States /\ Threads(state') = Threads(state) \cup {state.nextThread + 1}
        /\ state'.nextThread \in Threads(state') /\ state'.nextTurn = state.nextTurn
        /\ state'.nextThread = state.nextThread + 1
        /\ \A u : TurnsOf(state', u) = TurnsOf(state, u)
    BY <1>1, AddThread DEF StartThread, TInv, Typed
  <2>2. PICK saved \in BOOLEAN :
          /\ Save(state', saved)
          /\ told' = IF saved THEN [told EXCEPT !.threads = @ \cup {state'.nextThread}] ELSE told
    BY <1>1 DEF StartThread
  <2>3. up /\ up' /\ UNCHANGED <<pc, turn>>
    BY <1>1 DEF StartThread, requests
  <2>4. /\ snapshot.nextTurn <= snapshot'.nextTurn /\ snapshot'.nextTurn <= state'.nextTurn
        /\ Threads(snapshot) \subseteq Threads(snapshot')
    BY <2>1, <2>2, <2>3, NotOlder DEF TInv, Serving, IdsInv
  <2>5. told'.turns = told.turns /\ told'.threads \subseteq Threads(snapshot')
    <3>1. CASE saved
      BY <1>0, <2>1, <2>2, <2>4, <3>1, Saving DEF TInv, Typed
    <3>2. CASE ~saved
      BY <1>0, <2>2, <2>4, <3>2
    <3> QED
      BY <3>1, <3>2
  <2>6. Ids(state') = Ids(state) /\ (snapshot' = state' \/ snapshot' = snapshot)
    BY <2>1, <2>2, SameIds DEF Save
  <2>7. Ids(snapshot') = Ids(state') \/ Ids(snapshot') = Ids(snapshot)
    BY <2>6
  <2>8. Numbered(state')
    BY <2>1, <2>3, AddNumber DEF IdsInv, TInv, Typed
  <2> QED
    BY <2>3, <2>4, <2>5, <2>6, <2>7, <2>8, IdsStay
<1>2. ASSUME NEW c \in Clients, ResumeThread(c) PROVE IdsInv'
  <2>1. UNCHANGED <<state, snapshot, up, pc, turn>>
    BY <1>2 DEF ResumeThread, requests
  <2>2. PICK t \in DOMAIN state.threads :
          told' = [told EXCEPT !.turns = @ \cup {x.id : x \in TurnsOf(state, t)}]
    BY <1>2 DEF ResumeThread
  <2>3. {x.id : x \in TurnsOf(state, t)} \subseteq Ids(state)
    BY StateForm DEF Ids, Threads, TInv, Typed
  <2>4. told'.turns \subseteq told.turns \cup Ids(state) /\ told'.threads \subseteq Threads(snapshot)
    BY <2>2, <2>3 DEF IdsInv, Threads, TInv, Typed
  <2> QED
    BY <1>0, <2>1, <2>4, IdsStay DEF IdsInv
<1>12. ASSUME NEW c \in Clients, ListThreads(c) PROVE IdsInv'
  <2>1. UNCHANGED <<state, snapshot, up, pc, turn, told>>
    BY <1>12 DEF ListThreads, requests
  <2> QED
    BY <1>0, <2>1, IdsStay DEF IdsInv
<1>3. ASSUME NEW c \in Clients, Allocate(c) PROVE IdsInv'
  <2>1. PICK t \in Threads(state'), saved \in BOOLEAN :
          /\ Save(state', saved)
          /\ IF saved
             THEN /\ Goto(c, "history")
                  /\ thread' = [thread EXCEPT ![c] = t]
                  /\ turn' = [turn EXCEPT ![c] = state'.nextTurn]
             ELSE UNCHANGED <<pc, thread, turn>>
    BY <1>3, Allocating
  <2>2. /\ state' \in States /\ state'.nextTurn = state.nextTurn + 1
        /\ Threads(state) \subseteq Threads(state')
        /\ Numbered(state) => Numbered(state')
        /\ \A u : TurnsOf(state', u) = TurnsOf(state, u)
    BY <1>3, Allocating
  <2>3. up /\ up' /\ pc[c] = "idle" /\ told' = told
    BY <1>3 DEF Allocate, claims
  <2>4. snapshot.nextTurn <= state'.nextTurn /\ Threads(snapshot) \subseteq Threads(state')
    BY <1>0, <2>2, <2>3 DEF IdsInv, TInv, Serving
  <2>5. /\ snapshot.nextTurn <= snapshot'.nextTurn /\ snapshot'.nextTurn <= state'.nextTurn
        /\ Threads(snapshot) \subseteq Threads(snapshot')
    BY <2>1, <2>2, <2>4, NotOlder DEF TInv
  <2>8. Ids(state') = Ids(state) /\ Numbered(state')
    BY <2>2, <2>3, SameIds DEF IdsInv
  <2>6. CASE ~saved
    <3>1. snapshot' = snapshot /\ UNCHANGED <<pc, turn>>
      BY <2>1, <2>6 DEF Save
    <3> QED
      BY <1>0, <2>3, <2>5, <2>8, <3>1, IdsStay
  <2>7. CASE saved
    <3>1. snapshot' = state'
      BY <2>1, <2>2, <2>7, Saving DEF TInv
    <3>2. pc' = [pc EXCEPT ![c] = "history"] /\ turn' = [turn EXCEPT ![c] = state.nextTurn + 1]
      BY <2>1, <2>2, <2>7 DEF Goto
    <3>3. \A id \in told.turns \cup Ids(state) : id < state.nextTurn + 1
      BY <1>0, <2>3, IdsTyped DEF IdsInv, TInv, Typed, TurnIds
    <3>4. ASSUME NEW d \in Clients, d # c, pc'[d] # "idle"
          PROVE  pc'[d] = pc[d] /\ turn'[d] = turn[d] /\ turn[d] < state.nextTurn + 1
      <4>1. pc'[d] = pc[d] /\ turn'[d] = turn[d]
        BY <3>2, <3>4 DEF TInv, Typed
      <4>2. turn[d] <= snapshot.nextTurn /\ turn[d] \in Nat
        BY <3>4, <4>1 DEF IdsInv, TInv, Serving, TurnIds
      <4> QED
        BY <1>0, <2>3, <4>1, <4>2 DEF IdsInv
    <3>5. turn'[c] = state.nextTurn + 1
      BY <3>2 DEF TInv, Typed
    <3>a. \A id \in told'.turns \cup Ids(state') \cup Ids(snapshot') : id <= snapshot'.nextTurn
      <4>1. \A id \in told.turns \cup Ids(state) : id \in Nat
        BY IdsTyped DEF TInv, Typed, TurnIds
      <4>2. Ids(snapshot') = Ids(state)
        BY <2>8, <3>1
      <4> QED
        BY <1>0, <2>2, <2>3, <2>8, <3>1, <3>3, <4>1, <4>2
    <3>b. \A d \in Clients : pc'[d] # "idle" => turn'[d] <= snapshot'.nextTurn
      BY <1>0, <2>2, <3>1, <3>4, <3>5 DEF TInv, Typed, Serving, TurnIds
    <3>6. /\ (\A id \in told.turns \cup Ids(state) \cup Ids(snapshot) : id <= snapshot.nextTurn)'
          /\ (\A d \in Clients : pc[d] # "idle" => turn[d] <= snapshot.nextTurn)'
      BY <3>a, <3>b DEF Ids, TurnsOf
    <3>7. \A d, e \in Clients : d # e /\ pc'[d] # "idle" /\ pc'[e] # "idle" => turn'[d] # turn'[e]
      BY <1>0, <3>4, <3>5 DEF IdsInv, TInv, Serving, TurnIds
    <3>c. \A d \in Clients : pc'[d] \in {"history", "register"}
                               => turn'[d] \notin told'.turns \cup Ids(state')
      BY <1>0, <2>3, <2>8, <3>3, <3>4, <3>5 DEF IdsInv
    <3>8. (\A d \in Clients : pc[d] \in {"history", "register"}
                                => turn[d] \notin told.turns \cup Ids(state))'
      BY <3>c DEF Ids, TurnsOf
    <3>9. /\ (told.threads \subseteq Threads(snapshot))'
          /\ (snapshot.nextTurn <= state.nextTurn /\ Numbered(state))'
      BY <1>0, <2>3, <2>5, <2>8 DEF Threads, Numbered
    <3> QED
      BY <3>6, <3>7, <3>8, <3>9 DEF IdsInv
  <2> QED
    BY <2>6, <2>7
<1>4. ASSUME NEW c \in Clients, Abandon(c) \/ RegisterBusy(c) \/ Answer(c) PROVE IdsInv'
  <2>1. UNCHANGED <<state, snapshot, up>> /\ told' = told /\ Forget(c)
    BY <1>4 DEF Abandon, RegisterBusy, Answer, claims
  <2> QED
    BY <1>0, <2>1, Forgetting, IdsStay DEF TInv, Typed, IdsInv
<1>5. ASSUME NEW c \in Clients, ReadHistory(c) \/ AnnounceFails(c) \/ RunEnds(c) PROVE IdsInv'
  <2>1. UNCHANGED <<state, snapshot, up, turn>> /\ told' = told
    BY <1>5 DEF ReadHistory, AnnounceFails, RunEnds, claims
  <2>2. /\ \A d \in Clients : pc'[d] # "idle" => pc[d] # "idle"
        /\ \A d \in Clients : pc'[d] \in {"history", "register"} => pc[d] \in {"history", "register"}
    BY <1>5 DEF ReadHistory, AnnounceFails, RunEnds, Goto, TInv, Typed
  <2> QED
    BY <1>0, <2>1, <2>2, IdsStay DEF IdsInv
<1>6. ASSUME NEW c \in Clients, Register(c) PROVE IdsInv'
  <2> DEFINE s == WithTurn(state, thread[c], turn[c])
  <2>1. PICK saved \in BOOLEAN :
          /\ Save(s, saved)
          /\ IF saved
             THEN /\ state' = s
                  /\ active' = [active EXCEPT ![thread[c]] = turn[c]]
                  /\ Goto(c, "announce")
                  /\ UNCHANGED <<thread, turn, history, outcome>>
             ELSE UNCHANGED <<state, active>> /\ Forget(c)
    BY <1>6 DEF Register
  <2>2. up /\ up' /\ told' = told /\ pc[c] = "register"
    BY <1>6 DEF Register, claims
  <2>3. /\ s \in States /\ s.nextTurn = state.nextTurn /\ s.nextThread = state.nextThread
        /\ Threads(s) = Threads(state) /\ Ids(s) = Ids(state) \cup {turn[c]}
    BY <2>2, AddTurn, AddTurnIds DEF TInv, Typed, Serving
  <2> HIDE DEF s
  <2>4. /\ snapshot.nextTurn <= snapshot'.nextTurn /\ snapshot'.nextTurn <= state.nextTurn
        /\ Threads(snapshot) \subseteq Threads(snapshot')
    BY <2>1, <2>2, <2>3, NotOlder DEF TInv, Serving, IdsInv
  <2>5. CASE ~saved
    <3>1. UNCHANGED <<state, snapshot>> /\ Forget(c)
      BY <2>1, <2>5 DEF Save
    <3>2. /\ \A d \in Clients : pc'[d] # "idle" => pc[d] # "idle" /\ turn'[d] = turn[d]
          /\ \A d \in Clients : pc'[d] \in {"history", "register"} => pc[d] \in {"history", "register"}
      BY <3>1, Forgetting DEF TInv, Typed
    <3> QED
      BY <1>0, <2>2, <3>1, <3>2, IdsStay DEF IdsInv
  <2>6. CASE saved
    <3>1. state' = s /\ snapshot' = s /\ turn' = turn /\ pc' = [pc EXCEPT ![c] = "announce"]
      BY <2>1, <2>6 DEF Save, Goto
    <3>2. \A d \in Clients : (d = c => pc'[d] = "announce") /\ (d # c => pc'[d] = pc[d])
      BY <3>1 DEF TInv, Typed
    <3>3. Ids(state') = Ids(state) \cup {turn[c]} /\ Ids(snapshot') = Ids(state) \cup {turn[c]}
      BY <2>3, <3>1
    <3>4. turn[c] <= snapshot.nextTurn /\ snapshot.nextTurn <= state.nextTurn /\ turn[c] \in Nat
      BY <2>2 DEF IdsInv, TInv, Serving, TurnIds
    <3>5. snapshot'.nextTurn = state.nextTurn /\ state'.nextTurn = state.nextTurn
      BY <2>3, <3>1
    <3>6. \A id \in told'.turns \cup Ids(state') \cup Ids(snapshot') : id <= snapshot'.nextTurn
      <4>1. \A id \in told.turns \cup Ids(state) : id \in Nat /\ id <= snapshot.nextTurn
        BY IdsTyped DEF IdsInv, TInv, Typed, TurnIds
      <4> QED
        BY <1>0, <2>2, <3>3, <3>4, <3>5, <4>1
    <3>7. ASSUME NEW d \in Clients, pc'[d] # "idle" PROVE turn'[d] <= snapshot'.nextTurn
      <4>1. turn[d] \in Nat /\ turn[d] <= snapshot.nextTurn
        BY <2>2, <3>2, <3>4, <3>7 DEF IdsInv, TInv, Serving, TurnIds
      <4> QED
        BY <1>0, <3>1, <3>4, <3>5, <4>1
    <3>8. \A d, e \in Clients : d # e /\ pc'[d] # "idle" /\ pc'[e] # "idle" => turn'[d] # turn'[e]
      BY <2>2, <3>1, <3>2 DEF IdsInv
    <3>9. ASSUME NEW d \in Clients, pc'[d] \in {"history", "register"}
          PROVE  turn'[d] \notin told'.turns \cup Ids(state')
      <4>1. d # c /\ pc[d] = pc'[d]
        BY <3>2, <3>9
      <4> QED
        BY <2>2, <3>1, <3>3, <3>9, <4>1 DEF IdsInv
    <3>10. /\ (told.threads \subseteq Threads(snapshot))'
           /\ (snapshot.nextTurn <= state.nextTurn /\ Numbered(state))'
      BY <1>0, <2>2, <2>3, <2>4, <3>1, <3>5 DEF Threads, Numbered, IdsInv
    <3>11. (\A id \in told.turns \cup Ids(state) \cup Ids(snapshot) : id <= snapshot.nextTurn)'
      BY <3>6 DEF Ids, TurnsOf
    <3>12. (\A d \in Clients : pc[d] \in {"history", "register"}
                                 => turn[d] \notin told.turns \cup Ids(state))'
      BY <3>9 DEF Ids, TurnsOf
    <3> QED
      BY <3>7, <3>8, <3>10, <3>11, <3>12 DEF IdsInv
  <2> QED
    BY <2>5, <2>6
<1>7. ASSUME NEW c \in Clients, Announce(c) PROVE IdsInv'
  <2>1. /\ pc[c] = "announce" /\ pc' = [pc EXCEPT ![c] = "running"]
        /\ UNCHANGED <<state, snapshot, up, turn>>
        /\ told'.turns = told.turns \cup {turn[c]} /\ told'.threads = told.threads \cup {thread[c]}
    BY <1>7 DEF Announce, Goto
  <2>2. thread[c] \in Threads(snapshot) /\ turn[c] <= snapshot.nextTurn
    BY <2>1 DEF TInv, Serving, IdsInv
  <2>3. ASSUME NEW d \in Clients, pc'[d] \in {"history", "register"}
        PROVE  turn'[d] \notin told'.turns \cup Ids(state')
    <3>1. d # c /\ pc'[d] = pc[d]
      BY <2>1, <2>3 DEF TInv, Typed
    <3> QED
      BY <2>1, <2>3, <3>1 DEF IdsInv
  <2>4. \A d \in Clients : pc'[d] # "idle" => pc[d] # "idle"
    BY <2>1 DEF TInv, Typed
  <2>5. \A id \in told'.turns \cup Ids(state') \cup Ids(snapshot') : id <= snapshot'.nextTurn
    BY <2>1, <2>2 DEF IdsInv
  <2>6. /\ (\A id \in told.turns \cup Ids(state) \cup Ids(snapshot) : id <= snapshot.nextTurn)'
        /\ (\A d \in Clients : pc[d] \in {"history", "register"}
                                 => turn[d] \notin told.turns \cup Ids(state))'
    BY <2>3, <2>5 DEF Ids, TurnsOf
  <2>7. /\ (told.threads \subseteq Threads(snapshot))'
        /\ (up => snapshot.nextTurn <= state.nextTurn /\ Numbered(state))'
        /\ (\A d \in Clients : pc[d] # "idle" => turn[d] <= snapshot.nextTurn)'
        /\ (\A d, e \in Clients : d # e /\ pc[d] # "idle" /\ pc[e] # "idle" => turn[d] # turn[e])'
    BY <2>1, <2>2, <2>4 DEF IdsInv, Threads, Numbered
  <2> QED
    BY <2>6, <2>7 DEF IdsInv
<1>8. ASSUME NEW c \in Clients, Record(c) PROVE IdsInv'
  <2>1. PICK saved \in BOOLEAN :
          /\ Save(state', saved)
          /\ IF AnswersUnsaved(saved)
             THEN Goto(c, "answer") /\ UNCHANGED <<thread, turn, history, outcome>>
             ELSE Forget(c)
    BY <1>8 DEF Record
  <2>2. /\ up /\ up' /\ told' = told /\ pc[c] = "record"
        /\ state' = WithStatus(state, thread[c], turn[c], outcome[c])
    BY <1>8 DEF Record, claims
  <2>3. /\ state' \in States /\ state'.nextTurn = state.nextTurn
        /\ state'.nextThread = state.nextThread /\ Threads(state') = Threads(state)
        /\ Ids(state') = Ids(state)
    BY <2>2, SetStatus, SetStatusIds DEF TInv, Typed, Serving, Statuses
  <2>4. /\ snapshot.nextTurn <= snapshot'.nextTurn /\ snapshot'.nextTurn <= state'.nextTurn
        /\ Threads(snapshot) \subseteq Threads(snapshot')
    BY <2>1, <2>2, <2>3, NotOlder DEF TInv, Serving, IdsInv
  <2>5. /\ \A d \in Clients : pc'[d] # "idle" => pc[d] # "idle" /\ turn'[d] = turn[d]
        /\ \A d \in Clients : pc'[d] \in {"history", "register"} => pc[d] \in {"history", "register"}
    <3>1. CASE AnswersUnsaved(saved)
      BY <2>1, <2>2, <3>1 DEF Goto, TInv, Typed
    <3>2. CASE ~AnswersUnsaved(saved)
      BY <2>1, <3>2, Forgetting DEF TInv, Typed
    <3> QED
      BY <3>1, <3>2
  <2>6. Numbered(state') /\ (snapshot' = state' \/ snapshot' = snapshot)
    BY <2>1, <2>2, <2>3 DEF Save, Numbered, IdsInv
  <2>7. Ids(snapshot') = Ids(state') \/ Ids(snapshot') = Ids(snapshot)
    BY <2>6
  <2> QED
    BY <1>0, <2>2, <2>3, <2>4, <2>5, <2>6, <2>7, IdsStay
<1>9. CASE Crash
  <2>1. /\ state' = EmptyState /\ ~up' /\ snapshot' = snapshot /\ told' = told
        /\ \A c \in Clients : pc'[c] = "idle"
    BY <1>9 DEF Crash, claims
  <2>2. Ids(state') = {}
    BY <2>1 DEF Ids, TurnsOf, EmptyState
  <2> QED
    BY <1>0, <2>1, <2>2, IdsStay
<1>10. CASE Restart
  <2> DEFINE s == Recovered(Restored(snapshot))
  <2>1. /\ s \in States /\ Threads(s) = Threads(snapshot) /\ snapshot.nextTurn <= s.nextTurn
        /\ Numbered(s) /\ Ids(s) = Ids(snapshot)
    <3>1. /\ Restored(snapshot) \in States /\ snapshot.nextTurn <= Restored(snapshot).nextTurn
          /\ Threads(Restored(snapshot)) = Threads(snapshot)
          /\ \A t \in Threads(snapshot) : t <= Restored(snapshot).nextThread
      BY Restoring DEF TInv, Typed, Threads
    <3>2. /\ s \in States /\ s.nextTurn = Restored(snapshot).nextTurn
          /\ s.nextThread = Restored(snapshot).nextThread
          /\ Threads(s) = Threads(Restored(snapshot))
      BY <3>1, Recovery
    <3>3. Ids(s) = Ids(snapshot)
      BY RecoveredIds DEF TInv, Typed
    <3> HIDE DEF s
    <3> QED
      BY <3>1, <3>2, <3>3 DEF Numbered
  <2>2. ~up /\ UNCHANGED <<pc, turn>> /\ told' = told
    BY <1>10 DEF Restart, requests, claims
  <2>3. /\ snapshot.nextTurn <= snapshot'.nextTurn /\ Threads(snapshot) \subseteq Threads(snapshot')
        /\ up' => snapshot'.nextTurn <= state'.nextTurn
        /\ (up' /\ state' = s) \/ (~up' /\ state' = state)
        /\ snapshot' = s \/ snapshot' = snapshot
    <3>1. CASE s.threads = snapshot.threads
      BY <1>0, <1>10, <2>1, <3>1 DEF Restart
    <3>2. CASE s.threads # snapshot.threads
      <4>1. PICK saved \in BOOLEAN :
              Save(s, saved) /\ up' = saved /\ state' = IF saved THEN s ELSE state
        BY <1>10, <3>2 DEF Restart
      <4> HIDE DEF s
      <4>2. snapshot' = s \/ snapshot' = snapshot
        BY <4>1 DEF Save
      <4> QED
        BY <2>1, <4>1, <4>2, NotOlder DEF TInv
    <3> QED
      BY <3>1, <3>2
  <2> HIDE DEF s
  <2>4. (up' => Numbered(state')) /\ Ids(state') \subseteq Ids(state) \cup Ids(snapshot)
        /\ Ids(snapshot') = Ids(snapshot)
    BY <2>1, <2>3
  <2>5. \A c \in Clients : pc'[c] = "idle"
    BY <2>2 DEF TInv, Serving
  <2> QED
    BY <1>0, <2>2, <2>3, <2>4, <2>5, IdsStay
<1>11. CASE UNCHANGED vars
  BY <1>0, <1>11, IdsStay DEF vars, IdsInv
<1> QED
  BY <1>1, <1>2, <1>3, <1>4, <1>5, <1>6, <1>7, <1>8, <1>9, <1>10, <1>11, <1>12 DEF Next, Serve

\* At first no id was given out.
LEMMA IdsInitial == Init => IdsInv
<1>1. Ids(EmptyState) = {} /\ Numbered(EmptyState)
  BY EmptyIsState DEF Ids, TurnsOf, Threads, Numbered
<1> QED
  BY <1>1 DEF Init, IdsInv, EmptyState

\* What the daemon serves from; without a daemon, what the next one will load.
Known == IF up THEN state ELSE snapshot

\* A thread that clients were shown, and that no crash took away, is there.
ShownThreads == shown.threads \subseteq Threads(Known)

\* Threads are never removed from memory, and a crash keeps the saved ones only.
LEMMA ShownThreadsStep == TInv /\ TInv' /\ ShownThreads /\ [Next]_vars => ShownThreads'
<1> SUFFICES ASSUME TInv, TInv', ShownThreads, [Next]_vars PROVE ShownThreads'
  OBVIOUS
<1>1. ASSUME up, up', Threads(state) \subseteq Threads(state'),
             shown'.threads \subseteq shown.threads \cup Threads(state)
      PROVE  ShownThreads'
  BY <1>1 DEF ShownThreads, Known, Threads
<1>2. ASSUME NEW c \in Clients, StartThread(c) PROVE ShownThreads'
  <2>1. Threads(state) \subseteq Threads(state')
    BY <1>2, AddThread DEF StartThread, TInv, Typed
  <2> QED
    BY <1>1, <1>2, <2>1 DEF StartThread
<1>3. ASSUME NEW c \in Clients, ListThreads(c) PROVE ShownThreads'
  BY <1>1, <1>3 DEF ListThreads, Threads, TInv, Typed
<1>4. ASSUME NEW c \in Clients, ResumeThread(c) PROVE ShownThreads'
  BY <1>1, <1>4 DEF ResumeThread, Threads
<1>5. ASSUME NEW c \in Clients, Allocate(c) PROVE ShownThreads'
  <2>1. Threads(state) \subseteq Threads(state')
    BY <1>5, Allocating
  <2> QED
    BY <1>1, <1>5, <2>1 DEF Allocate, claims
<1>6. ASSUME NEW c \in Clients,
             Abandon(c) \/ RegisterBusy(c) \/ Answer(c) \/ ReadHistory(c) \/ Announce(c)
               \/ AnnounceFails(c) \/ RunEnds(c)
      PROVE  ShownThreads'
  BY <1>1, <1>6
     DEF Abandon, RegisterBusy, Answer, ReadHistory, Announce, AnnounceFails, RunEnds, claims
<1>7. ASSUME NEW c \in Clients, Register(c) PROVE ShownThreads'
  <2>1. pc[c] = "register" /\ up /\ up' /\ shown' = shown
        /\ (state' = state \/ state' = WithTurn(state, thread[c], turn[c]))
    BY <1>7 DEF Register, claims
  <2>2. Threads(WithTurn(state, thread[c], turn[c])) = Threads(state)
    BY <2>1, AddTurn DEF TInv, Typed, Serving
  <2> QED
    BY <1>1, <2>1, <2>2
<1>8. ASSUME NEW c \in Clients, Record(c) PROVE ShownThreads'
  <2>1. pc[c] = "record" /\ up /\ up' /\ shown' = shown
        /\ state' = WithStatus(state, thread[c], turn[c], outcome[c])
    BY <1>8 DEF Record, claims
  <2>2. Threads(state') = Threads(state)
    BY <2>1, SetStatus DEF TInv, Typed, Serving, Statuses
  <2> QED
    BY <1>1, <2>1, <2>2
<1>9. CASE Crash
  <2>1. up' = FALSE /\ snapshot' = snapshot /\ shown'.threads \subseteq DOMAIN snapshot.threads
    BY <1>9 DEF Crash
  <2> QED
    BY <2>1 DEF ShownThreads, Known, Threads
<1>10. CASE Restart
  <2> DEFINE s == Recovered(Restored(snapshot))
  <2>1. Threads(s) = Threads(snapshot)
    <3>1. Restored(snapshot) \in States /\ Threads(Restored(snapshot)) = Threads(snapshot)
      BY Restoring DEF TInv, Typed, Threads
    <3> QED
      BY <3>1, Recovery
  <2>2. ~up /\ shown' = shown
    BY <1>10 DEF Restart, claims
  <2>3. \/ up' /\ state' = s
        \/ ~up' /\ (snapshot' = snapshot \/ snapshot' = s)
    <3>1. CASE s.threads = snapshot.threads
      BY <1>10, <3>1 DEF Restart
    <3>2. CASE s.threads # snapshot.threads
      <4>1. PICK saved \in BOOLEAN :
              Save(s, saved) /\ up' = saved /\ state' = IF saved THEN s ELSE state
        BY <1>10, <3>2 DEF Restart
      <4> HIDE DEF s
      <4> QED
        BY <4>1 DEF Save
    <3> QED
      BY <3>1, <3>2
  <2> HIDE DEF s
  <2>4. Threads(Known)' = Threads(snapshot)
    BY <2>1, <2>3 DEF Known, Threads
  <2> QED
    BY <2>2, <2>4 DEF ShownThreads, Known
<1>11. CASE UNCHANGED vars
  BY <1>11 DEF vars, ShownThreads, Known, Threads
<1> QED
  BY <1>2, <1>3, <1>4, <1>5, <1>6, <1>7, <1>8, <1>9, <1>10, <1>11 DEF Next, Serve

\* An id that a client learned is not given out again, however often saves fail and the
\* daemon dies, unless the thread it was shown with was never saved before a death.
THEOREM IdsStayUnique == Spec => []IdsNotReused
<1>1. TInv /\ IdsInv /\ ShownThreads => IdsNotReused
  <2> SUFFICES ASSUME TInv, IdsInv, ShownThreads, up PROVE
        /\ \A t \in told.threads \cup shown.threads : t \in DOMAIN state.threads /\ t <= state.nextThread
        /\ \A id \in told.turns : id <= state.nextTurn
        /\ \A c \in Clients : pc[c] \in {"history", "register"} => turn[c] \notin told.turns
    BY DEF IdsNotReused
  <2>1. snapshot.nextTurn \in Nat /\ state.nextTurn \in Nat
    BY StateForm, AppServerAssumption DEF TInv, Typed
  <2>2. \A id \in told.turns : id <= state.nextTurn
    BY <2>1 DEF IdsInv, TInv, Typed, TurnIds
  <2>3. told.threads \cup shown.threads \subseteq Threads(state)
    BY DEF IdsInv, TInv, Serving, ShownThreads, Known
  <2> QED
    BY <2>2, <2>3 DEF IdsInv, Threads, Numbered
<1>2. Init => ShownThreads
  BY DEF Init, ShownThreads
<1> QED
  BY <1>1, <1>2, TypeInitial, TypeStep, IdsInitial, IdsStep, ShownThreadsStep, PTL DEF Spec
--------------------------------------------------------------------------------

Entry(id, status) == [id |-> id, status |-> status]

\* The registration, the request at work and the active entry point at each other.
OneTurn ==
  /\ \A c \in Clients : Engaged(c) =>
       /\ active[thread[c]] = turn[c]
       /\ Entry(turn[c], "active") \in TurnsOf(state, thread[c])
  /\ \A t \in ThreadIds : active[t] # None => \E c \in Clients : Engaged(c) /\ thread[c] = t
  /\ \A t \in ThreadIds : \A x \in TurnsOf(state, t) :
       x.status = "active" => \E c \in Clients : Engaged(c) /\ thread[c] = t /\ turn[c] = x.id

\* It stays so while no list of turns changes and nobody begins or ends work.
LEMMA Undisturbed ==
  ASSUME OneTurn, active' = active, \A t : TurnsOf(state', t) = TurnsOf(state, t),
         \A c \in Clients : Engaged(c)' <=> Engaged(c),
         \A c \in Clients : Engaged(c) => thread'[c] = thread[c] /\ turn'[c] = turn[c]
  PROVE  OneTurn'
<1>1. ASSUME NEW c \in Clients, Engaged(c)'
      PROVE  /\ active'[thread'[c]] = turn'[c]
             /\ Entry(turn'[c], "active") \in TurnsOf(state', thread'[c])
  BY <1>1 DEF OneTurn
<1>2. ASSUME NEW t \in ThreadIds, active'[t] # None
      PROVE  \E c \in Clients : Engaged(c)' /\ thread'[c] = t
  BY <1>2 DEF OneTurn
<1>3. ASSUME NEW t \in ThreadIds, NEW x \in TurnsOf(state', t), x.status = "active"
      PROVE  \E c \in Clients : Engaged(c)' /\ thread'[c] = t /\ turn'[c] = x.id
  BY <1>3 DEF OneTurn
<1> QED
  BY <1>1, <1>2, <1>3 DEF OneTurn, TurnsOf, Entry

\* An engaged request has a thread and a turn, and no other is engaged in that thread.
LEMMA Alone ==
  ASSUME TInv, IdsInv, OneTurn, NEW c \in Clients, Engaged(c)
  PROVE  /\ thread[c] \in ThreadIds /\ thread[c] \in Threads(state) /\ turn[c] \in TurnIds /\ up
         /\ \A d \in Clients : d # c /\ Engaged(d) => thread[d] # thread[c]
<1>1. \A d \in Clients : Engaged(d) => pc[d] # "idle"
  BY DEF Engaged
<1> QED
  BY <1>1, StateForm DEF TInv, Typed, Serving, IdsInv, OneTurn

\* At first no thread has a turn.
LEMMA OneTurnInitial == Init => OneTurn
  BY DEF Init, OneTurn, EmptyState, TurnsOf, Engaged

\* Every step keeps them together.
LEMMA OneTurnStep == TInv /\ TInv' /\ IdsInv /\ OneTurn /\ [Next]_vars => OneTurn'
<1> SUFFICES ASSUME TInv, TInv', IdsInv, OneTurn, [Next]_vars PROVE OneTurn'
  OBVIOUS
<1>1. ASSUME NEW c \in Clients, StartThread(c) PROVE OneTurn'
  <2>1. /\ \A t : TurnsOf(state', t) = TurnsOf(state, t)
        /\ UNCHANGED <<active, pc, thread, turn>>
    BY <1>1, AddThread DEF StartThread, requests, TInv, Typed
  <2> QED
    BY <2>1, Undisturbed DEF Engaged
<1>2. ASSUME NEW c \in Clients, ListThreads(c) \/ ResumeThread(c) PROVE OneTurn'
  BY <1>2, Undisturbed DEF ListThreads, ResumeThread, requests, Engaged
<1>3. ASSUME NEW c \in Clients, Allocate(c) PROVE OneTurn'
  <2>1. PICK t \in Threads(state'), saved \in BOOLEAN :
          IF saved
          THEN /\ Goto(c, "history")
               /\ thread' = [thread EXCEPT ![c] = t]
               /\ turn' = [turn EXCEPT ![c] = state'.nextTurn]
          ELSE UNCHANGED <<pc, thread, turn>>
    BY <1>3, Allocating
  <2>2. active' = active /\ pc[c] = "idle" /\ \A u : TurnsOf(state', u) = TurnsOf(state, u)
    BY <1>3, Allocating DEF Allocate
  <2>3. \A d \in Clients : /\ Engaged(d)' <=> Engaged(d)
                           /\ Engaged(d) => thread'[d] = thread[d] /\ turn'[d] = turn[d]
    <3>1. CASE saved
      BY <2>1, <2>2, <3>1 DEF Engaged, Goto, TInv, Typed
    <3>2. CASE ~saved
      BY <2>1, <3>2 DEF Engaged
    <3> QED
      BY <3>1, <3>2
  <2> QED
    BY <2>2, <2>3, Undisturbed
<1>4. ASSUME NEW c \in Clients, Abandon(c) \/ RegisterBusy(c) \/ Answer(c) PROVE OneTurn'
  <2>1. /\ UNCHANGED <<state, active>> /\ Forget(c)
        /\ pc[c] \in {"history", "register", "answer"}
    BY <1>4 DEF Abandon, RegisterBusy, Answer
  <2>2. \A d \in Clients : /\ Engaged(d)' <=> Engaged(d)
                           /\ Engaged(d) => thread'[d] = thread[d] /\ turn'[d] = turn[d]
    BY <2>1, Forgetting DEF TInv, Typed, Engaged
  <2> QED
    BY <2>1, <2>2, Undisturbed
<1>5. ASSUME NEW c \in Clients, ReadHistory(c) \/ Announce(c) \/ AnnounceFails(c) \/ RunEnds(c)
      PROVE  OneTurn'
  <2>1. UNCHANGED <<state, active, thread, turn>>
    BY <1>5 DEF ReadHistory, Announce, AnnounceFails, RunEnds
  <2>2. \A d \in Clients : Engaged(d)' <=> Engaged(d)
    BY <1>5 DEF ReadHistory, Announce, AnnounceFails, RunEnds, Goto, Engaged, TInv, Typed
  <2> QED
    BY <2>1, <2>2, Undisturbed
<1>6. ASSUME NEW c \in Clients, Register(c) PROVE OneTurn'
  <2> DEFINE s == WithTurn(state, thread[c], turn[c])
  <2>1. PICK saved \in BOOLEAN :
          IF saved
          THEN /\ state' = s
               /\ active' = [active EXCEPT ![thread[c]] = turn[c]]
               /\ Goto(c, "announce")
               /\ UNCHANGED <<thread, turn, history, outcome>>
          ELSE UNCHANGED <<state, active>> /\ Forget(c)
    BY <1>6 DEF Register
  <2>2. /\ pc[c] = "register" /\ active[thread[c]] = None
        /\ thread[c] \in Threads(state) /\ thread[c] \in ThreadIds /\ turn[c] \in TurnIds
    BY <1>6, StateForm DEF Register, ThreadFree, TInv, Typed, Serving
  <2>3. /\ TurnsOf(s, thread[c]) = TurnsOf(state, thread[c]) \cup {Entry(turn[c], "active")}
        /\ \A u : u # thread[c] => TurnsOf(s, u) = TurnsOf(state, u)
    BY <2>2, AddTurn DEF TInv, Typed, Entry
  <2> HIDE DEF s
  <2>4. CASE ~saved
    <3>1. \A d \in Clients : /\ Engaged(d)' <=> Engaged(d)
                             /\ Engaged(d) => thread'[d] = thread[d] /\ turn'[d] = turn[d]
      BY <2>1, <2>2, <2>4, Forgetting DEF TInv, Typed, Engaged
    <3> QED
      BY <2>1, <2>4, <3>1, Undisturbed
  <2>5. CASE saved
    <3>1. /\ state' = s /\ active' = [active EXCEPT ![thread[c]] = turn[c]]
          /\ pc' = [pc EXCEPT ![c] = "announce"] /\ UNCHANGED <<thread, turn>>
      BY <2>1, <2>5 DEF Goto
    <3>2. ASSUME NEW d \in Clients, d # c
          PROVE  /\ Engaged(d)' <=> Engaged(d)
                 /\ Engaged(d) => thread[d] # thread[c]
      <4>1. Engaged(d)' <=> Engaged(d)
        BY <3>1, <3>2 DEF Engaged, TInv, Typed
      <4>2. ASSUME Engaged(d) PROVE turn[d] \in TurnIds
        BY <4>2, Alone
      <4> QED
        BY <2>2, <4>1, <4>2 DEF OneTurn, TurnIds, None
    <3>3. Engaged(c)'
      BY <3>1 DEF Engaged, TInv, Typed
    <3>4. ASSUME NEW d \in Clients, Engaged(d)'
          PROVE  /\ active'[thread'[d]] = turn'[d]
                 /\ Entry(turn'[d], "active") \in TurnsOf(state', thread'[d])
      <4>1. CASE d = c
        BY <2>2, <2>3, <3>1, <4>1 DEF TInv, Typed
      <4>2. CASE d # c
        BY <2>3, <3>1, <3>2, <3>4, <4>2 DEF OneTurn, TInv, Typed
      <4> QED
        BY <4>1, <4>2
    <3>5. ASSUME NEW t \in ThreadIds, active'[t] # None
          PROVE  \E d \in Clients : Engaged(d)' /\ thread'[d] = t
      <4>1. CASE t = thread[c]
        BY <3>1, <3>3, <4>1
      <4>2. CASE t # thread[c]
        <5>1. active[t] # None
          BY <3>1, <3>5, <4>2 DEF TInv, Typed
        <5> QED
          BY <3>1, <3>2, <4>2, <5>1 DEF OneTurn
      <4> QED
        BY <4>1, <4>2
    <3>6. ASSUME NEW t \in ThreadIds, NEW x \in TurnsOf(state', t), x.status = "active"
          PROVE  \E d \in Clients : Engaged(d)' /\ thread'[d] = t /\ turn'[d] = x.id
      <4>1. CASE x \in TurnsOf(state, t)
        <5>1. PICK d \in Clients : Engaged(d) /\ thread[d] = t /\ turn[d] = x.id
          BY <3>6, <4>1 DEF OneTurn
        <5>2. d # c
          BY <2>2, <5>1 DEF Engaged
        <5> QED
          BY <3>1, <3>2, <5>1, <5>2
      <4>2. CASE x \notin TurnsOf(state, t)
        <5>1. t = thread[c] /\ x = Entry(turn[c], "active")
          BY <2>3, <3>1, <3>6, <4>2
        <5> QED
          BY <3>1, <3>3, <5>1 DEF Entry
      <4> QED
        BY <4>1, <4>2
    <3> QED
      BY <3>4, <3>5, <3>6 DEF OneTurn, TurnsOf, Entry
  <2> QED
    BY <2>4, <2>5
<1>7. ASSUME NEW c \in Clients, Record(c) PROVE OneTurn'
  <2>1. /\ pc[c] = "record" /\ active' = Released(thread[c], turn[c])
        /\ state' = WithStatus(state, thread[c], turn[c], outcome[c])
    BY <1>7 DEF Record
  <2>2. \E saved \in BOOLEAN :
          IF AnswersUnsaved(saved)
          THEN Goto(c, "answer") /\ UNCHANGED <<thread, turn, history, outcome>>
          ELSE Forget(c)
    BY <1>7 DEF Record
  <2>3. Engaged(c)
    BY <2>1 DEF Engaged
  <2>4. outcome[c] \in Outcomes
    BY <2>1 DEF TInv, Serving
  <2>5. /\ TurnsOf(state', thread[c]) =
             {Restatused(x, turn[c], outcome[c]) : x \in TurnsOf(state, thread[c])}
        /\ \A u : u # thread[c] => TurnsOf(state', u) = TurnsOf(state, u)
    BY <2>1, <2>3, <2>4, Alone, SetStatus DEF Statuses, TInv, Typed
  <2>6. ~Engaged(c)' /\ \A d \in Clients : d # c =>
          /\ Engaged(d)' <=> Engaged(d)
          /\ thread'[d] = thread[d] /\ turn'[d] = turn[d]
    <3>1. ASSUME Goto(c, "answer"), UNCHANGED <<thread, turn, history, outcome>>
          PROVE  ~Engaged(c)' /\ \A d \in Clients : d # c =>
                   /\ Engaged(d)' <=> Engaged(d)
                   /\ thread'[d] = thread[d] /\ turn'[d] = turn[d]
      BY <3>1 DEF Goto, Engaged, TInv, Typed
    <3>2. ASSUME Forget(c)
          PROVE  ~Engaged(c)' /\ \A d \in Clients : d # c =>
                   /\ Engaged(d)' <=> Engaged(d)
                   /\ thread'[d] = thread[d] /\ turn'[d] = turn[d]
      BY <3>2, Forgetting DEF Engaged, TInv, Typed
    <3> QED
      BY <2>2, <3>1, <3>2
  <2>7. active' = [active EXCEPT ![thread[c]] = None] /\ thread[c] \in ThreadIds
    BY <2>1, <2>3, Alone DEF Released, OneTurn
  <2>8. \A d \in Clients : d # c /\ Engaged(d) => thread[d] # thread[c]
    BY <2>3, Alone
  <2>9. ASSUME NEW d \in Clients, Engaged(d)'
        PROVE  /\ active'[thread'[d]] = turn'[d]
               /\ Entry(turn'[d], "active") \in TurnsOf(state', thread'[d])
    <3>1. d # c /\ Engaged(d) /\ thread'[d] = thread[d] /\ turn'[d] = turn[d]
      BY <2>6, <2>9
    <3>2. thread[d] \in ThreadIds
      BY <3>1, Alone
    <3> QED
      BY <2>5, <2>7, <2>8, <3>1, <3>2 DEF OneTurn, TInv, Typed
  <2>10. ASSUME NEW t \in ThreadIds, active'[t] # None
         PROVE  \E d \in Clients : Engaged(d)' /\ thread'[d] = t
    <3>1. t # thread[c] /\ active[t] # None
      BY <2>7, <2>10 DEF TInv, Typed
    <3>2. PICK d \in Clients : Engaged(d) /\ thread[d] = t
      BY <3>1 DEF OneTurn
    <3> QED
      BY <2>6, <3>1, <3>2
  <2>11. ASSUME NEW t \in ThreadIds, NEW x \in TurnsOf(state', t), x.status = "active"
         PROVE  \E d \in Clients : Engaged(d)' /\ thread'[d] = t /\ turn'[d] = x.id
    <3>1. x \in TurnsOf(state, t) /\ ~(t = thread[c] /\ x.id = turn[c])
      <4>1. CASE t = thread[c]
        <5>1. PICK y \in TurnsOf(state, t) : x = Restatused(y, turn[c], outcome[c])
          BY <2>5, <4>1
        <5>2. y \in Turn
          BY TurnsTyped DEF TInv, Typed
        <5>3. y.id # turn[c]
          BY <2>4, <2>11, <5>1, <5>2 DEF Restatused, Turn, Outcomes
        <5> QED
          BY <5>1, <5>3 DEF Restatused
      <4>2. CASE t # thread[c]
        BY <2>5, <4>2
      <4> QED
        BY <4>1, <4>2
    <3>2. PICK d \in Clients : Engaged(d) /\ thread[d] = t /\ turn[d] = x.id
      BY <2>11, <3>1 DEF OneTurn
    <3>3. d # c
      BY <3>1, <3>2
    <3> QED
      BY <2>6, <3>2, <3>3
  <2> QED
    BY <2>9, <2>10, <2>11 DEF OneTurn, TurnsOf, Entry
<1>8. CASE Crash
  <2>1. /\ \A c \in Clients : ~Engaged(c)'
        /\ \A t \in ThreadIds : active'[t] = None
        /\ \A t : TurnsOf(state', t) = {}
    BY <1>8 DEF Crash, Engaged, EmptyState, TurnsOf
  <2> QED
    BY <2>1 DEF OneTurn, TurnsOf, Entry
<1>9. CASE Restart
  <2>1. ~up /\ UNCHANGED <<active, pc, thread, turn>>
    BY <1>9 DEF Restart, requests
  <2>2. /\ \A c \in Clients : ~Engaged(c)' /\ ~Engaged(c)
        /\ \A t \in ThreadIds : active'[t] = None
    BY <2>1 DEF Engaged, TInv, Serving
  <2>3. state' = Recovered(Restored(snapshot)) \/ state' = state
    BY <1>9 DEF Restart
  <2>4. ASSUME NEW t \in ThreadIds, NEW x \in TurnsOf(state', t) PROVE x.status # "active"
    <3>1. CASE state' = state
      BY <2>1, <2>4, <3>1 DEF TInv, Serving, EmptyState, TurnsOf
    <3>2. CASE state' = Recovered(Restored(snapshot))
      <4>1. Restored(snapshot) \in States
        BY Restoring DEF TInv, Typed
      <4>2. PICK y \in TurnsOf(Restored(snapshot), t) : x = Interrupted(y)
        BY <2>4, <3>2, <4>1, Recovery
      <4>3. y \in Turn
        BY <4>1, TurnsTyped
      <4> QED
        BY <4>2, <4>3 DEF Interrupted, Turn
    <3> QED
      BY <2>3, <3>1, <3>2
  <2> QED
    BY <2>2, <2>4 DEF OneTurn, TurnsOf, Entry
<1>10. CASE UNCHANGED vars
  BY <1>10, Undisturbed DEF vars, Engaged
<1> QED
  BY <1>1, <1>2, <1>3, <1>4, <1>5, <1>6, <1>7, <1>8, <1>9, <1>10 DEF Next, Serve

\* No thread runs two turns, is busy with a turn that nobody works on or has a
\* turn that stays active, whoever races for it and however often the daemon dies.
THEOREM ThreadsAreExclusive == Spec => []OneTurnPerThread
<1>1. TInv /\ IdsInv /\ OneTurn => OneTurnPerThread
  <2> SUFFICES ASSUME TInv, IdsInv, OneTurn, NEW t \in ThreadIds
               PROVE  LET engaged == {c \in Clients : Engaged(c) /\ thread[c] = t}
                      IN /\ Cardinality(engaged) <= 1
                         /\ {turn[c] : c \in engaged} = WithStatusIn(state, t, "active")
                         /\ active[t] = None <=> engaged = {}
                         /\ \A c \in engaged : active[t] = turn[c]
    BY DEF OneTurnPerThread
  <2> DEFINE engaged == {c \in Clients : Engaged(c) /\ thread[c] = t}
  <2>1. Cardinality(engaged) <= 1
    <3>1. CASE engaged = {}
      BY <3>1, FS_EmptySet
    <3>2. CASE engaged # {}
      <4>1. PICK c \in engaged : TRUE
        BY <3>2
      <4>2. engaged = {c}
        BY <4>1, Alone
      <4>3. Cardinality(engaged) = 1
        BY <4>2, FS_Singleton
      <4> QED
        BY <4>3
    <3> QED
      BY <3>1, <3>2
  <2>2. {turn[c] : c \in engaged} \subseteq WithStatusIn(state, t, "active")
    <3>1. ASSUME NEW c \in engaged PROVE turn[c] \in WithStatusIn(state, t, "active")
      <4>1. Entry(turn[c], "active") \in TurnsOf(state, t)
        BY DEF OneTurn
      <4>2. Entry(turn[c], "active").status = "active" /\ Entry(turn[c], "active").id = turn[c]
        BY DEF Entry
      <4> QED
        BY <4>1, <4>2 DEF WithStatusIn
    <3> QED
      BY <3>1
  <2>3. WithStatusIn(state, t, "active") \subseteq {turn[c] : c \in engaged}
    BY DEF WithStatusIn, OneTurn
  <2>4. \A c \in engaged : active[t] = turn[c] /\ turn[c] # None
    BY Alone DEF OneTurn, TurnIds, None
  <2>5. active[t] = None <=> engaged = {}
    BY <2>4 DEF OneTurn
  <2> QED
    BY <2>1, <2>2, <2>3, <2>4, <2>5
<1> QED
  BY <1>1, TypeInitial, TypeStep, IdsInitial, IdsStep, OneTurnInitial, OneTurnStep, PTL DEF Spec
--------------------------------------------------------------------------------

\* The ends that are shown of a thread are its turns that are not active.
LEMMA EndsAreTurns ==
  ASSUME NEW s \in States, NEW t, NEW a
  PROVE  a \in Ends(s, t) <=> /\ a = <<a[1], a[2], a[3]>> /\ a[1] = t /\ a[3] # "active"
                              /\ Entry(a[2], a[3]) \in TurnsOf(s, t)
<1>1. ASSUME a \in Ends(s, t)
      PROVE  /\ a = <<a[1], a[2], a[3]>> /\ a[1] = t /\ a[3] # "active"
             /\ Entry(a[2], a[3]) \in TurnsOf(s, t)
  <2>1. PICK x \in TurnsOf(s, t) : x.status # "active" /\ a = <<t, x.id, x.status>>
    BY <1>1 DEF Ends
  <2>2. x = Entry(x.id, x.status)
    BY TurnsTyped DEF Turn, Entry
  <2> QED
    BY <2>1, <2>2
<1>2. ASSUME a = <<a[1], a[2], a[3]>>, a[1] = t, a[3] # "active",
             Entry(a[2], a[3]) \in TurnsOf(s, t)
      PROVE  a \in Ends(s, t)
  <2>1. Entry(a[2], a[3]).id = a[2] /\ Entry(a[2], a[3]).status = a[3]
    BY DEF Entry
  <2> QED
    BY <1>2, <2>1 DEF Ends
<1> QED
  BY <1>1, <1>2

\* The turn of an engaged request is listed as active only.
Open == \A c \in Clients : Engaged(c) =>
          \A x \in TurnsOf(state, thread[c]) : x.id = turn[c] => x.status = "active"

\* What is about to be answered is in memory and saved.
Answering == \A c \in Clients : pc[c] = "answer" =>
               /\ Entry(turn[c], outcome[c]) \in TurnsOf(state, thread[c])
               /\ Entry(turn[c], outcome[c]) \in TurnsOf(snapshot, thread[c])

\* So is every end that a client learned.
Stands(a) ==
  /\ a = <<a[1], a[2], a[3]>> /\ a[1] \in ThreadIds /\ a[3] # "active"
  /\ Entry(a[2], a[3]) \in TurnsOf(snapshot, a[1])
  /\ up => Entry(a[2], a[3]) \in TurnsOf(state, a[1])

ToldInv == Open /\ Answering /\ \A a \in answered : Stands(a)

\* What is saved was saved before or is what is in memory.
LEMMA SavesMemory ==
  ASSUME Typed, NEW s \in States, NEW saved \in BOOLEAN, Save(s, saved)
  PROVE  (snapshot' = s \/ snapshot' = snapshot) /\ (saved => snapshot' = s)
  BY DEF Save

\* A step that changes no list, and only lets requests go on or end, keeps it all.
LEMMA Quiet ==
  ASSUME TInv, ToldInv, up, up',
         \A t : TurnsOf(state', t) = TurnsOf(state, t),
         snapshot' = snapshot \/ snapshot' = state',
         answered' = answered,
         \A c \in Clients : Engaged(c)' =>
           Engaged(c) /\ thread'[c] = thread[c] /\ turn'[c] = turn[c],
         \A c \in Clients : pc'[c] = "answer" =>
           pc[c] = "answer" /\ UNCHANGED <<thread[c], turn[c], outcome[c]>>
  PROVE  ToldInv'
<1>1. Open'
  <2> SUFFICES ASSUME NEW c \in Clients, Engaged(c)',
                      NEW x \in TurnsOf(state', thread'[c]), x.id = turn'[c]
               PROVE  x.status = "active"
    BY DEF Open, TurnsOf
  <2> QED
    BY DEF ToldInv, Open
<1>2. Answering'
  <2> SUFFICES ASSUME NEW c \in Clients, pc'[c] = "answer"
               PROVE  /\ Entry(turn'[c], outcome'[c]) \in TurnsOf(state', thread'[c])
                      /\ Entry(turn'[c], outcome'[c]) \in TurnsOf(snapshot', thread'[c])
    BY DEF Answering, TurnsOf, Entry
  <2> QED
    BY DEF ToldInv, Answering
<1>3. ASSUME NEW a \in answered PROVE Stands(a)'
  <2>1. Stands(a)
    BY DEF ToldInv
  <2>2. /\ Entry(a[2], a[3]) \in TurnsOf(snapshot', a[1])
        /\ Entry(a[2], a[3]) \in TurnsOf(state', a[1])
    BY <2>1 DEF Stands
  <2> QED
    BY <2>1, <2>2 DEF Stands, TurnsOf, Entry
<1> QED
  BY <1>1, <1>2, <1>3 DEF ToldInv

\* A step that changes neither memory nor snapshot, and ends one request.
LEMMA QuietEnd ==
  ASSUME TInv, ToldInv, NEW c \in Clients, Forget(c), up, UNCHANGED <<state, snapshot, up, answered>>
  PROVE  ToldInv'
<1>1. /\ pc' = [pc EXCEPT ![c] = "idle"]
      /\ \A d \in Clients : d # c => /\ thread'[d] = thread[d] /\ turn'[d] = turn[d]
                                     /\ outcome'[d] = outcome[d]
  BY Forgetting DEF TInv
<1>2. pc'[c] = "idle" /\ \A d \in Clients : d # c => pc'[d] = pc[d]
  BY <1>1 DEF TInv, Typed
<1>3. \A d \in Clients : Engaged(d)' => Engaged(d) /\ thread'[d] = thread[d] /\ turn'[d] = turn[d]
  BY <1>1, <1>2 DEF Engaged
<1>4. \A d \in Clients : pc'[d] = "answer" =>
        pc[d] = "answer" /\ UNCHANGED <<thread[d], turn[d], outcome[d]>>
  BY <1>1, <1>2
<1> QED
  BY <1>3, <1>4, Quiet

\* At first no client was told anything.
LEMMA ToldInitial == Init => ToldInv
  BY DEF Init, ToldInv, Open, Answering, Engaged

\* Every step keeps what clients were told.
LEMMA ToldStep == TInv /\ TInv' /\ IdsInv /\ OneTurn /\ ToldInv /\ [Next]_vars => ToldInv'
<1> SUFFICES ASSUME TInv, TInv', IdsInv, OneTurn, ToldInv, [Next]_vars PROVE ToldInv'
  OBVIOUS
<1>1. ASSUME NEW c \in Clients, StartThread(c) PROVE ToldInv'
  <2>1. /\ state' \in States /\ \A t : TurnsOf(state', t) = TurnsOf(state, t)
    BY <1>1, AddThread DEF StartThread, TInv, Typed
  <2>2. up /\ up' /\ UNCHANGED <<pc, thread, turn, outcome, answered>>
    BY <1>1 DEF StartThread, requests
  <2>3. snapshot' = snapshot \/ snapshot' = state'
    BY <1>1, <2>1, SavesMemory DEF StartThread, TInv
  <2> QED
    BY <2>1, <2>2, <2>3, Quiet DEF Engaged
<1>2. ASSUME NEW c \in Clients, ListThreads(c) PROVE ToldInv'
  <2>1. up /\ UNCHANGED <<state, snapshot, up, pc, thread, turn, outcome, answered>>
    BY <1>2 DEF ListThreads, requests
  <2> QED
    BY <2>1, Quiet DEF Engaged
<1>3. ASSUME NEW c \in Clients, ResumeThread(c) PROVE ToldInv'
  <2>1. up /\ UNCHANGED <<state, snapshot, up, pc, thread, turn, outcome, answered>>
    BY <1>3 DEF ResumeThread, requests
  <2> QED
    BY <2>1, Quiet DEF Engaged
<1>4. ASSUME NEW c \in Clients, Allocate(c) PROVE ToldInv'
  <2>1. PICK t \in Threads(state'), saved \in BOOLEAN :
          /\ Save(state', saved)
          /\ IF saved
             THEN /\ Goto(c, "history")
                  /\ thread' = [thread EXCEPT ![c] = t]
                  /\ turn' = [turn EXCEPT ![c] = state'.nextTurn]
             ELSE UNCHANGED <<pc, thread, turn>>
    BY <1>4, Allocating
  <2>2. state' \in States /\ \A u : TurnsOf(state', u) = TurnsOf(state, u)
    BY <1>4, Allocating
  <2>3. up /\ up' /\ pc[c] = "idle" /\ UNCHANGED <<outcome, answered>>
    BY <1>4 DEF Allocate, claims
  <2>4. snapshot' = snapshot \/ snapshot' = state'
    BY <2>1, <2>2, SavesMemory DEF TInv
  <2>5. /\ pc'[c] \in {"idle", "history"}
        /\ \A d \in Clients : d # c => UNCHANGED <<pc[d], thread[d], turn[d]>>
    <3>1. CASE saved
      BY <2>1, <3>1 DEF Goto, TInv, Typed
    <3>2. CASE ~saved
      BY <2>1, <2>3, <3>2
    <3> QED
      BY <3>1, <3>2
  <2>6. \A d \in Clients : Engaged(d)' => Engaged(d) /\ thread'[d] = thread[d] /\ turn'[d] = turn[d]
    BY <2>5 DEF Engaged
  <2>7. \A d \in Clients : pc'[d] = "answer" =>
          pc[d] = "answer" /\ UNCHANGED <<thread[d], turn[d], outcome[d]>>
    BY <2>3, <2>5
  <2> QED
    BY <2>2, <2>3, <2>4, <2>6, <2>7, Quiet
<1>5. ASSUME NEW c \in Clients, Abandon(c) \/ RegisterBusy(c) PROVE ToldInv'
  <2>1. UNCHANGED <<state, snapshot, up, answered>> /\ up /\ Forget(c)
    BY <1>5 DEF Abandon, RegisterBusy, claims
  <2> QED
    BY <2>1, QuietEnd
<1>6. ASSUME NEW c \in Clients, ReadHistory(c) \/ Announce(c) \/ AnnounceFails(c) \/ RunEnds(c)
      PROVE  ToldInv'
  <2>1. UNCHANGED <<state, snapshot, up, thread, turn, answered>> /\ up
    BY <1>6 DEF ReadHistory, Announce, AnnounceFails, RunEnds, claims
  <2>2. \A d \in Clients : Engaged(d)' => Engaged(d)
    BY <1>6 DEF ReadHistory, Announce, AnnounceFails, RunEnds, Goto, Engaged, TInv, Typed
  <2>3. \A d \in Clients : pc'[d] = "answer" => pc[d] = "answer" /\ outcome'[d] = outcome[d]
    BY <1>6 DEF ReadHistory, Announce, AnnounceFails, RunEnds, Goto, TInv, Typed
  <2> QED
    BY <2>1, <2>2, <2>3, Quiet
<1>7. ASSUME NEW c \in Clients, Register(c) PROVE ToldInv'
  <2> DEFINE s == WithTurn(state, thread[c], turn[c])
  <2>1. PICK saved \in BOOLEAN :
          /\ Save(s, saved)
          /\ IF saved
             THEN /\ state' = s
                  /\ active' = [active EXCEPT ![thread[c]] = turn[c]]
                  /\ Goto(c, "announce")
                  /\ UNCHANGED <<thread, turn, history, outcome>>
             ELSE UNCHANGED <<state, active>> /\ Forget(c)
    BY <1>7 DEF Register
  <2>2. /\ pc[c] = "register" /\ thread[c] \in Threads(state) /\ thread[c] \in ThreadIds
        /\ turn[c] \in TurnIds /\ up /\ up' /\ UNCHANGED <<up, answered>>
    BY <1>7, StateForm DEF Register, claims, TInv, Typed, Serving
  <2>3. /\ s \in States
        /\ TurnsOf(s, thread[c]) = TurnsOf(state, thread[c]) \cup {Entry(turn[c], "active")}
        /\ \A u : u # thread[c] => TurnsOf(s, u) = TurnsOf(state, u)
    BY <2>2, AddTurn DEF TInv, Typed, Entry
  <2> HIDE DEF s
  <2>4. CASE ~saved
    <3>1. snapshot' = snapshot /\ state' = state /\ Forget(c)
      BY <2>1, <2>4 DEF Save
    <3> QED
      BY <2>2, <3>1, QuietEnd
  <2>5. CASE saved
    <3>1. /\ state' = s /\ snapshot' = s /\ UNCHANGED <<thread, turn, outcome>>
          /\ pc' = [pc EXCEPT ![c] = "announce"]
      BY <2>1, <2>5 DEF Save, Goto
    <3>2. pc'[c] = "announce" /\ \A d \in Clients : d # c => pc'[d] = pc[d]
      BY <3>1 DEF TInv, Typed
    <3>3. \A u : TurnsOf(state, u) \subseteq TurnsOf(s, u)
      BY <2>3
    <3>4. Open'
      <4> SUFFICES ASSUME NEW d \in Clients, Engaged(d)',
                          NEW x \in TurnsOf(s, thread[d]), x.id = turn[d]
                   PROVE  x.status = "active"
        BY <3>1 DEF Open, TurnsOf
      <4>1. Entry(turn[c], "active").id = turn[c] /\ Entry(turn[c], "active").status = "active"
        BY DEF Entry
      <4>2. x \in TurnsOf(state, thread[d]) \/ x = Entry(turn[c], "active")
        BY <2>3
      <4>3. CASE d = c
        <5>1. x \notin TurnsOf(state, thread[c])
          BY <2>2, <4>3 DEF IdsInv, Ids
        <5> QED
          BY <4>1, <4>2, <4>3, <5>1
      <4>4. CASE d # c
        <5>1. Engaged(d)
          BY <3>2, <4>4 DEF Engaged
        <5> QED
          BY <4>1, <4>2, <5>1 DEF ToldInv, Open
      <4> QED
        BY <4>3, <4>4
    <3>5. Answering'
      <4> SUFFICES ASSUME NEW d \in Clients, pc'[d] = "answer"
                   PROVE  Entry(turn[d], outcome[d]) \in TurnsOf(s, thread[d])
        BY <3>1 DEF Answering, TurnsOf, Entry
      <4>1. pc[d] = "answer"
        BY <3>2
      <4> QED
        BY <3>3, <4>1 DEF ToldInv, Answering
    <3>6. ASSUME NEW a \in answered PROVE Stands(a)'
      <4>1. Stands(a)
        BY DEF ToldInv
      <4>2. Entry(a[2], a[3]) \in TurnsOf(s, a[1])
        BY <2>2, <3>3, <4>1 DEF Stands
      <4> QED
        BY <3>1, <4>1, <4>2 DEF Stands, TurnsOf, Entry
    <3> QED
      BY <2>2, <3>4, <3>5, <3>6 DEF ToldInv
  <2> QED
    BY <2>4, <2>5
<1>8. ASSUME NEW c \in Clients, Record(c) PROVE ToldInv'
  <2>1. PICK saved \in BOOLEAN :
          /\ Save(state', saved)
          /\ IF AnswersUnsaved(saved)
             THEN Goto(c, "answer") /\ UNCHANGED <<thread, turn, history, outcome>>
             ELSE Forget(c)
    BY <1>8 DEF Record
  <2>2. /\ pc[c] = "record" /\ state' = WithStatus(state, thread[c], turn[c], outcome[c])
        /\ up /\ up' /\ UNCHANGED answered
    BY <1>8 DEF Record, claims
  <2>3. /\ thread[c] \in Threads(state) /\ thread[c] \in ThreadIds /\ outcome[c] \in Outcomes
        /\ Engaged(c)
    BY <2>2, StateForm DEF TInv, Typed, Serving, Engaged
  <2>4. /\ state' \in States
        /\ TurnsOf(state', thread[c]) =
             {Restatused(x, turn[c], outcome[c]) : x \in TurnsOf(state, thread[c])}
        /\ \A u : u # thread[c] => TurnsOf(state', u) = TurnsOf(state, u)
    BY <2>2, <2>3, SetStatus DEF TInv, Typed, Statuses
  <2>5. (snapshot' = state' \/ snapshot' = snapshot) /\ (saved => snapshot' = state')
    BY <2>1, <2>4, SavesMemory DEF TInv
  <2>6. /\ pc'[c] = "answer" => saved /\ UNCHANGED <<thread[c], turn[c], outcome[c]>>
        /\ pc'[c] \in {"idle", "answer"}
        /\ \A d \in Clients : d # c => UNCHANGED <<pc[d], thread[d], turn[d], outcome[d]>>
    <3>1. CASE AnswersUnsaved(saved)
      BY <2>1, <3>1 DEF AnswersUnsaved, Goto, TInv, Typed
    <3>2. CASE ~AnswersUnsaved(saved)
      BY <2>1, <3>2, Forgetting DEF TInv, Typed
    <3> QED
      BY <3>1, <3>2
  <2>7. ASSUME NEW u, NEW x \in TurnsOf(state, u), x.id # turn[c] \/ u # thread[c]
        PROVE  x \in TurnsOf(state', u)
    <3>1. CASE u = thread[c]
      <4>1. Restatused(x, turn[c], outcome[c]) = x
        BY <2>7, <3>1 DEF Restatused
      <4> QED
        BY <2>4, <3>1, <4>1
    <3>2. CASE u # thread[c]
      BY <2>4, <3>2
    <3> QED
      BY <3>1, <3>2
  <2>8. ASSUME NEW u, NEW x \in TurnsOf(state', u), x.id # turn[c]
        PROVE  x \in TurnsOf(state, u)
    <3>1. CASE u # thread[c]
      BY <2>4, <2>8, <3>1
    <3>2. CASE u = thread[c]
      <4>1. PICK y \in TurnsOf(state, u) : x = Restatused(y, turn[c], outcome[c])
        BY <2>4, <2>8, <3>2
      <4>2. y \in Turn
        BY TurnsTyped DEF TInv, Typed
      <4>3. x.id = y.id
        BY <4>1, <4>2 DEF Restatused, Turn
      <4> QED
        BY <2>8, <4>1, <4>3 DEF Restatused
    <3> QED
      BY <3>1, <3>2
  <2>9. Entry(turn[c], outcome[c]) \in TurnsOf(state', thread[c])
    <3>1. Entry(turn[c], "active") \in TurnsOf(state, thread[c])
      BY <2>3 DEF OneTurn
    <3>2. Restatused(Entry(turn[c], "active"), turn[c], outcome[c]) = Entry(turn[c], outcome[c])
      BY DEF Restatused, Entry
    <3> QED
      BY <2>4, <3>1, <3>2
  <2>10. \A d \in Clients : d # c /\ pc[d] # "idle" => turn[d] # turn[c]
    BY <2>2 DEF IdsInv
  <2>11. Open'
    <3> SUFFICES ASSUME NEW d \in Clients, Engaged(d)',
                        NEW x \in TurnsOf(state', thread'[d]), x.id = turn'[d]
                 PROVE  x.status = "active"
      BY DEF Open, TurnsOf
    <3>1. d # c
      BY <2>6 DEF Engaged
    <3>2. Engaged(d) /\ thread'[d] = thread[d] /\ turn'[d] = turn[d] /\ pc[d] # "idle"
      BY <2>6, <3>1 DEF Engaged
    <3> QED
      BY <2>8, <2>10, <3>1, <3>2 DEF ToldInv, Open
  <2>12. Answering'
    <3> SUFFICES ASSUME NEW d \in Clients, pc'[d] = "answer"
                 PROVE  /\ Entry(turn'[d], outcome'[d]) \in TurnsOf(state', thread'[d])
                        /\ Entry(turn'[d], outcome'[d]) \in TurnsOf(snapshot', thread'[d])
      BY DEF Answering, TurnsOf, Entry
    <3>1. CASE d = c
      BY <2>5, <2>6, <2>9, <3>1
    <3>2. CASE d # c
      <4>1. pc[d] = "answer" /\ UNCHANGED <<thread[d], turn[d], outcome[d]>> /\ turn[d] # turn[c]
        BY <2>6, <2>10, <3>2
      <4>2. /\ Entry(turn[d], outcome[d]) \in TurnsOf(state, thread[d])
            /\ Entry(turn[d], outcome[d]) \in TurnsOf(snapshot, thread[d])
            /\ Entry(turn[d], outcome[d]).id = turn[d]
        BY <4>1 DEF ToldInv, Answering, Entry
      <4> QED
        BY <2>5, <2>7, <4>1, <4>2
    <3> QED
      BY <3>1, <3>2
  <2>13. ASSUME NEW a \in answered PROVE Stands(a)'
    <3>1. Stands(a) /\ Entry(a[2], a[3]).id = a[2] /\ Entry(a[2], a[3]).status = a[3]
      BY DEF ToldInv, Entry
    <3>2. a[1] # thread[c] \/ a[2] # turn[c]
      BY <2>2, <2>3, <3>1 DEF Stands, ToldInv, Open
    <3>3. Entry(a[2], a[3]) \in TurnsOf(state', a[1])
      BY <2>2, <2>7, <3>1, <3>2 DEF Stands
    <3>4. Entry(a[2], a[3]) \in TurnsOf(snapshot', a[1])
      BY <2>5, <3>1, <3>3 DEF Stands
    <3> QED
      BY <3>1, <3>3, <3>4 DEF Stands, TurnsOf, Entry
  <2> QED
    BY <2>2, <2>11, <2>12, <2>13 DEF ToldInv
<1>9. ASSUME NEW c \in Clients, Answer(c) PROVE ToldInv'
  <2> DEFINE new == <<thread[c], turn[c], outcome[c]>>
  <2>1. answered' = answered \/ answered' = answered \cup {new}
    BY <1>9 DEF Answer
  <2>2. pc[c] = "answer" /\ up /\ UNCHANGED <<state, snapshot, up>> /\ Forget(c)
    BY <1>9 DEF Answer
  <2>3. /\ pc'[c] = "idle"
        /\ \A d \in Clients : d # c => UNCHANGED <<pc[d], thread[d], turn[d], outcome[d]>>
    BY <2>2, Forgetting DEF TInv, Typed
  <2>4. Open'
    <3> SUFFICES ASSUME NEW d \in Clients, Engaged(d)'
                 PROVE  \A x \in TurnsOf(state, thread'[d]) : x.id = turn'[d] => x.status = "active"
      BY <2>2 DEF Open
    <3>1. d # c
      BY <2>3 DEF Engaged
    <3>2. Engaged(d) /\ UNCHANGED <<thread[d], turn[d]>>
      BY <2>3, <3>1 DEF Engaged
    <3> QED
      BY <3>2 DEF ToldInv, Open
  <2>5. Answering'
    <3> SUFFICES ASSUME NEW d \in Clients, pc'[d] = "answer"
                 PROVE  /\ Entry(turn'[d], outcome'[d]) \in TurnsOf(state, thread'[d])
                        /\ Entry(turn'[d], outcome'[d]) \in TurnsOf(snapshot, thread'[d])
      BY <2>2 DEF Answering, Entry
    <3>1. d # c
      BY <2>3
    <3> QED
      BY <2>3, <3>1 DEF ToldInv, Answering
  <2>6. Stands(new)
    <3>1. thread[c] \in ThreadIds /\ outcome[c] \in Outcomes
      BY <2>2, StateForm DEF TInv, Typed, Serving
    <3>2. /\ Entry(turn[c], outcome[c]) \in TurnsOf(snapshot, thread[c])
          /\ Entry(turn[c], outcome[c]) \in TurnsOf(state, thread[c])
      BY <2>2 DEF ToldInv, Answering
    <3>3. outcome[c] # "active"
      BY <3>1 DEF Outcomes
    <3> QED
      BY <3>1, <3>2, <3>3 DEF Stands
  <2> HIDE DEF new
  <2>7. \A a \in answered' : Stands(a)'
    BY <2>1, <2>2, <2>6 DEF Stands, ToldInv
  <2> QED
    BY <2>4, <2>5, <2>7 DEF ToldInv
<1>10. CASE Crash
  <2>1. \A c \in Clients : pc'[c] = "idle"
    BY <1>10 DEF Crash
  <2>2. up' = FALSE /\ UNCHANGED <<snapshot, answered>>
    BY <1>10 DEF Crash, claims
  <2>3. (Open /\ Answering)'
    BY <2>1 DEF Open, Answering, Engaged
  <2>4. \A a \in answered : Stands(a)'
    BY <2>2 DEF ToldInv, Stands
  <2> QED
    BY <2>2, <2>3, <2>4 DEF ToldInv
<1>11. CASE Restart
  <2> DEFINE s == Recovered(Restored(snapshot))
  <2>1. ~up /\ UNCHANGED <<pc, answered>>
    BY <1>11 DEF Restart, requests, claims
  <2>2. \A c \in Clients : pc'[c] = "idle"
    BY <2>1 DEF TInv, Serving
  <2>3. /\ Restored(snapshot) \in States
        /\ \A t : TurnsOf(Restored(snapshot), t) = TurnsOf(snapshot, t)
    BY Restoring DEF TInv, Typed, TurnsOf
  <2>4. s \in States /\ \A t : TurnsOf(s, t) = {Interrupted(x) : x \in TurnsOf(snapshot, t)}
    BY <2>3, Recovery
  <2>5. \/ state' = s /\ snapshot' = snapshot
        \/ state' = s /\ snapshot' = s
        \/ ~up' /\ snapshot' = snapshot
    <3>1. CASE s.threads = snapshot.threads
      BY <1>11, <3>1 DEF Restart
    <3>2. CASE s.threads # snapshot.threads
      <4>1. PICK saved \in BOOLEAN :
              Save(s, saved) /\ up' = saved /\ state' = IF saved THEN s ELSE state
        BY <1>11, <3>2 DEF Restart
      <4> HIDE DEF s
      <4> QED
        BY <4>1 DEF Save
    <3> QED
      BY <3>1, <3>2
  <2> HIDE DEF s
  <2>6. ASSUME NEW a \in answered PROVE Stands(a)'
    <3>1. Stands(a) /\ Entry(a[2], a[3]).status = a[3]
      BY DEF ToldInv, Entry
    <3>2. Interrupted(Entry(a[2], a[3])) = Entry(a[2], a[3])
      BY <3>1 DEF Interrupted, Stands
    <3>3. Entry(a[2], a[3]) \in TurnsOf(s, a[1])
      BY <2>4, <3>1, <3>2 DEF Stands
    <3>4. /\ Entry(a[2], a[3]) \in TurnsOf(snapshot', a[1])
          /\ up' => Entry(a[2], a[3]) \in TurnsOf(state', a[1])
      BY <2>5, <3>1, <3>3 DEF Stands
    <3> QED
      BY <3>1, <3>4 DEF Stands, TurnsOf, Entry
  <2>7. (Open /\ Answering)'
    BY <2>2 DEF Open, Answering, Engaged
  <2> QED
    BY <2>1, <2>6, <2>7 DEF ToldInv
<1>12. CASE UNCHANGED vars
  BY <1>12 DEF vars, ToldInv, Open, Answering, Stands, Engaged
<1> QED
  BY <1>1, <1>2, <1>3, <1>4, <1>5, <1>6, <1>7, <1>8, <1>9, <1>10, <1>11, <1>12 DEF Next, Serve

\* An end of a turn stays in memory as long as the daemon lives.
LEMMA EndsStay ==
  ASSUME TInv, Open, [Next]_vars, up, up', NEW t
  PROVE  Ends(state, t) \subseteq Ends(state', t)
<1>1. ASSUME TurnsOf(state, t) \subseteq TurnsOf(state', t) PROVE Ends(state, t) \subseteq Ends(state', t)
  BY <1>1 DEF Ends
<1>2. ASSUME NEW c \in Clients, StartThread(c) PROVE Ends(state, t) \subseteq Ends(state', t)
  BY <1>1, <1>2, AddThread DEF StartThread, TInv, Typed
<1>3. ASSUME NEW c \in Clients, Allocate(c) PROVE Ends(state, t) \subseteq Ends(state', t)
  BY <1>1, <1>3, Allocating
<1>4. ASSUME NEW c \in Clients, Register(c) PROVE Ends(state, t) \subseteq Ends(state', t)
  <2>1. pc[c] = "register" /\ (state' = state \/ state' = WithTurn(state, thread[c], turn[c]))
    BY <1>4 DEF Register
  <2>2. thread[c] \in Threads(state) /\ turn[c] \in TurnIds /\ state \in States
    BY <2>1 DEF TInv, Typed, Serving
  <2>3. TurnsOf(state, t) \subseteq TurnsOf(WithTurn(state, thread[c], turn[c]), t)
    BY <2>2, AddTurn
  <2> QED
    BY <1>1, <2>1, <2>3
<1>5. ASSUME NEW c \in Clients, Record(c) PROVE Ends(state, t) \subseteq Ends(state', t)
  <2>1. /\ pc[c] = "record" /\ Engaged(c)
        /\ state' = WithStatus(state, thread[c], turn[c], outcome[c])
    BY <1>5 DEF Record, Engaged
  <2>2. /\ TurnsOf(state', thread[c]) =
             {Restatused(x, turn[c], outcome[c]) : x \in TurnsOf(state, thread[c])}
        /\ \A u : u # thread[c] => TurnsOf(state', u) = TurnsOf(state, u)
    BY <2>1, SetStatus DEF TInv, Typed, Serving, Statuses
  <2>3. ASSUME NEW x \in TurnsOf(state, t), x.status # "active" PROVE x \in TurnsOf(state', t)
    <3>1. CASE t # thread[c]
      BY <2>2, <3>1
    <3>2. CASE t = thread[c]
      <4>1. x.id # turn[c]
        BY <2>1, <2>3, <3>2 DEF Open
      <4>2. Restatused(x, turn[c], outcome[c]) = x
        BY <4>1 DEF Restatused
      <4> QED
        BY <2>2, <3>2, <4>2
    <3> QED
      BY <3>1, <3>2
  <2> QED
    BY <2>3 DEF Ends
<1>6. ASSUME UNCHANGED state PROVE Ends(state, t) \subseteq Ends(state', t)
  BY <1>1, <1>6
<1>7. ASSUME NEW c \in Clients,
             ListThreads(c) \/ ResumeThread(c) \/ Abandon(c) \/ RegisterBusy(c) \/ Answer(c)
               \/ ReadHistory(c) \/ Announce(c) \/ AnnounceFails(c) \/ RunEnds(c)
      PROVE  UNCHANGED state
  BY <1>7 DEF ListThreads, ResumeThread, Abandon, RegisterBusy, Answer, ReadHistory, Announce,
              AnnounceFails, RunEnds
<1>8. ~Crash /\ ~Restart
  BY DEF Crash, Restart
<1>9. UNCHANGED vars => UNCHANGED state
  BY DEF vars
<1> QED
  BY <1>2, <1>3, <1>4, <1>5, <1>6, <1>7, <1>8, <1>9 DEF Next, Serve

\* How a turn ended that clients were shown, and that no crash took away, is known.
ShownEnds == \A a \in shown.turns : a \in Ends(Known, a[1])

\* It stays known: in memory while the daemon lives, in the snapshot when it dies.
LEMMA ShownEndsStep ==
  TInv /\ TInv' /\ ToldInv /\ ShownEnds /\ [Next]_vars => ShownEnds'
<1> SUFFICES ASSUME TInv, TInv', ToldInv, ShownEnds, [Next]_vars PROVE ShownEnds'
  OBVIOUS
<1>1. CASE up /\ up'
  <2>1. \A a \in shown'.turns : a \in shown.turns \/ \E t : a \in Ends(state, t)
    <3>1. ASSUME NEW c \in Clients, ResumeThread(c)
          PROVE  \E t : shown'.turns = shown.turns \cup Ends(state, t)
      BY <3>1 DEF ResumeThread
    <3>2. ASSUME NEW c \in Clients, ListThreads(c)
          PROVE  shown'.turns = shown.turns
      BY <3>2 DEF ListThreads
    <3>3. ASSUME NEW c \in Clients,
                 StartThread(c) \/ Allocate(c) \/ Abandon(c) \/ AnnounceFails(c) \/ Serve(c)
          PROVE  shown' = shown
      BY <3>3 DEF StartThread, Allocate, Abandon, AnnounceFails, Serve, ReadHistory, RegisterBusy,
                  Register, Announce, RunEnds, Record, Answer, claims
    <3>4. ~Crash /\ ~Restart
      BY <1>1 DEF Crash, Restart
    <3>5. UNCHANGED vars => shown' = shown
      BY DEF vars
    <3> QED
      BY <3>1, <3>2, <3>3, <3>4, <3>5 DEF Next
  <2>2. \A a \in shown'.turns : a \in Ends(state, a[1])
    <3>1. \A a, t : a \in Ends(state, t) => a[1] = t
      BY EndsAreTurns DEF TInv, Typed
    <3> QED
      BY <1>1, <2>1, <3>1 DEF ShownEnds, Known
  <2>3. \A a \in shown'.turns : a \in Ends(state', a[1])
    BY <1>1, <2>2, EndsStay DEF ToldInv
  <2> QED
    BY <1>1, <2>3 DEF ShownEnds, Known, Ends, TurnsOf
<1>2. CASE Crash
  <2>1. /\ up' = FALSE /\ snapshot' = snapshot
        /\ shown'.turns = {a \in shown.turns : a \in Ends(snapshot, a[1])}
    BY <1>2 DEF Crash
  <2> QED
    BY <2>1 DEF ShownEnds, Known, Ends, TurnsOf
<1>3. CASE Restart
  <2> DEFINE s == Recovered(Restored(snapshot))
  <2>1. ~up /\ shown' = shown
    BY <1>3 DEF Restart, claims
  <2>2. /\ Restored(snapshot) \in States
        /\ \A t : TurnsOf(Restored(snapshot), t) = TurnsOf(snapshot, t)
    BY Restoring DEF TInv, Typed, TurnsOf
  <2>3. \A t : TurnsOf(s, t) = {Interrupted(x) : x \in TurnsOf(snapshot, t)}
    BY <2>2, Recovery
  <2>4. \/ up' /\ state' = s
        \/ ~up' /\ (snapshot' = snapshot \/ snapshot' = s)
    <3>1. CASE s.threads = snapshot.threads
      BY <1>3, <3>1 DEF Restart
    <3>2. CASE s.threads # snapshot.threads
      <4>1. PICK saved \in BOOLEAN :
              Save(s, saved) /\ up' = saved /\ state' = IF saved THEN s ELSE state
        BY <1>3, <3>2 DEF Restart
      <4> HIDE DEF s
      <4> QED
        BY <4>1 DEF Save
    <3> QED
      BY <3>1, <3>2
  <2> HIDE DEF s
  <2>5. ASSUME NEW t PROVE Ends(snapshot, t) \subseteq Ends(s, t)
    <3>1. ASSUME NEW x \in TurnsOf(snapshot, t), x.status # "active" PROVE x \in TurnsOf(s, t)
      <4>1. Interrupted(x) = x
        BY <3>1 DEF Interrupted
      <4> QED
        BY <2>3, <4>1
    <3> QED
      BY <3>1 DEF Ends
  <2>6. ASSUME NEW a \in shown.turns PROVE a \in Ends(IF up' THEN state' ELSE snapshot', a[1])
    <3>1. a \in Ends(snapshot, a[1])
      BY <2>1 DEF ShownEnds, Known
    <3> QED
      BY <2>4, <2>5, <3>1
  <2> QED
    BY <2>1, <2>6 DEF ShownEnds, Known, Ends, TurnsOf
<1>4. CASE UNCHANGED vars
  BY <1>4 DEF vars, ShownEnds, Known, Ends, TurnsOf
<1>5. ~up /\ ~Restart => UNCHANGED vars
  BY DEF Next, Serve, StartThread, ListThreads, ResumeThread, Allocate, Abandon, AnnounceFails,
         ReadHistory, RegisterBusy, Register, Announce, RunEnds, Record, Answer, Crash
<1>6. up /\ ~up' => Crash
  BY DEF vars, Next, Serve, StartThread, ListThreads, ResumeThread, Allocate, Abandon, AnnounceFails,
         ReadHistory, RegisterBusy, Register, Announce, RunEnds, Record, Answer, Restart
<1>7. up \in BOOLEAN /\ up' \in BOOLEAN
  BY DEF TInv, Typed
<1> QED
  BY <1>1, <1>2, <1>3, <1>4, <1>5, <1>6, <1>7

\* How a turn ended is what every later daemon says, however often saves fail: what was
\* answered always, what thread/resume showed unless it was never saved before a death.
THEOREM WhatWasToldStands == Spec => []ToldStands
<1>1. TInv /\ ToldInv /\ ShownEnds => ToldStands
  <2> SUFFICES ASSUME TInv, ToldInv, ShownEnds, up, NEW a \in answered \cup shown.turns
               PROVE  a \in Ends(state, a[1])
    BY DEF ToldStands
  <2>1. CASE a \in shown.turns
    BY <2>1 DEF ShownEnds, Known
  <2>2. CASE a \in answered
    <3>1. Stands(a) /\ state \in States
      BY <2>2 DEF ToldInv, TInv, Typed
    <3> QED
      BY <3>1, EndsAreTurns DEF Stands
  <2> QED
    BY <2>1, <2>2
<1>2. Init => ShownEnds
  BY DEF Init, ShownEnds
<1> QED
  BY <1>1, <1>2, TypeInitial, TypeStep, IdsInitial, IdsStep, OneTurnInitial, OneTurnStep,
     ToldInitial, ToldStep, ShownEndsStep, PTL DEF Spec
--------------------------------------------------------------------------------

\* A model is given finished turns of the thread only.
LEMMA RecentTurns ==
  ASSUME NEW q
  PROVE  \A x \in ToSet(RecentHistory(q)) : x \in ToSet(q) /\ Admissible(x.status)
  BY DEF RecentHistory, ToSet

\* A request has its history from the second critical section until it is recorded.
Informed(c) == pc[c] = "register" \/ Engaged(c)

\* What it was given is finished in memory; once the turn is registered it is
\* finished in the snapshot too: the save of the registration wrote it there.
HistoryInv ==
  /\ history = [c \in Clients |-> history[c]]
  /\ \A c \in Clients : Informed(c) =>
       \A x \in ToSet(history[c]) :
         /\ Admissible(x.status)
         /\ x \in TurnsOf(state, thread[c])
         /\ Engaged(c) => x \in TurnsOf(snapshot, thread[c])

\* It stays so while finished turns stay in memory, the snapshot stays or becomes
\* what is in memory, and who begins to work does so with such a save.
LEMMA HistoryStays ==
  ASSUME TInv, HistoryInv,
         \A t \in ThreadIds : \A x \in TurnsOf(state, t) :
           Admissible(x.status) => x \in TurnsOf(state', t),
         snapshot' = snapshot \/ snapshot' = state',
         history' = [c \in Clients |-> history'[c]],
         \A c \in Clients : Informed(c)' =>
           /\ Informed(c) /\ history'[c] = history[c] /\ thread'[c] = thread[c]
           /\ Engaged(c)' => Engaged(c) \/ snapshot' = state'
  PROVE  HistoryInv'
<1> SUFFICES ASSUME NEW c \in Clients, Informed(c)', NEW x \in ToSet(history'[c])
             PROVE  /\ Admissible(x.status)
                    /\ x \in TurnsOf(state', thread'[c])
                    /\ Engaged(c)' => x \in TurnsOf(snapshot', thread'[c])
  BY DEF HistoryInv, ToSet, TurnsOf, Admissible
<1>1. /\ Informed(c) /\ history'[c] = history[c] /\ thread'[c] = thread[c]
      /\ Engaged(c)' => Engaged(c) \/ snapshot' = state'
  OBVIOUS
<1>2. thread[c] \in ThreadIds
  BY <1>1, StateForm DEF Informed, Engaged, TInv, Typed, Serving
<1>3. /\ Admissible(x.status) /\ x \in TurnsOf(state, thread[c])
      /\ Engaged(c) => x \in TurnsOf(snapshot, thread[c])
  BY <1>1 DEF HistoryInv
<1>4. x \in TurnsOf(state', thread[c])
  BY <1>2, <1>3
<1> QED
  BY <1>1, <1>3, <1>4

\* At first there is no turn whose history could be lost.
LEMMA HistoryInitial == Init => HistoryInv
  BY DEF Init, HistoryInv, Informed, Engaged

\* A request that is forgotten takes its history with it.
LEMMA HistoryForgotten ==
  ASSUME TInv, HistoryInv, NEW c \in Clients, Forget(c)
  PROVE  /\ history' = [d \in Clients |-> history'[d]]
         /\ \A d \in Clients : Informed(d)' =>
              /\ Informed(d) /\ history'[d] = history[d] /\ thread'[d] = thread[d]
              /\ Engaged(d)' => Engaged(d)
<1>1. pc'[c] = "idle" /\ \A d \in Clients : d # c => UNCHANGED <<pc[d], thread[d]>>
  BY Forgetting DEF TInv, Typed
<1>2. history' = [d \in Clients |-> history'[d]]
      /\ \A d \in Clients : d # c => history'[d] = history[d]
  BY DEF Forget, HistoryInv
<1> QED
  BY <1>1, <1>2 DEF Informed, Engaged

\* Every step keeps the histories finished.
LEMMA HistoryStep ==
  TInv /\ TInv' /\ IdsInv /\ OneTurn /\ ToldInv /\ HistoryInv /\ [Next]_vars => HistoryInv'
<1> SUFFICES ASSUME TInv, TInv', IdsInv, OneTurn, ToldInv, HistoryInv, [Next]_vars
             PROVE  HistoryInv'
  OBVIOUS
<1>1. ASSUME NEW c \in Clients, StartThread(c) PROVE HistoryInv'
  <2>1. \A t : TurnsOf(state', t) = TurnsOf(state, t)
    BY <1>1, AddThread DEF StartThread, TInv, Typed
  <2>2. snapshot' = snapshot \/ snapshot' = state'
    BY <1>1 DEF StartThread, Save
  <2>3. UNCHANGED <<pc, thread, history>>
    BY <1>1 DEF StartThread, requests
  <2> QED
    BY <2>1, <2>2, <2>3, HistoryStays DEF Informed, Engaged, HistoryInv
<1>2. ASSUME NEW c \in Clients, ListThreads(c) \/ ResumeThread(c) PROVE HistoryInv'
  BY <1>2 DEF ListThreads, ResumeThread, requests, HistoryInv, Informed, Engaged
<1>3. ASSUME NEW c \in Clients, Allocate(c) PROVE HistoryInv'
  <2>1. PICK t \in Threads(state'), saved \in BOOLEAN :
          /\ Save(state', saved)
          /\ IF saved
             THEN /\ Goto(c, "history")
                  /\ thread' = [thread EXCEPT ![c] = t]
                  /\ turn' = [turn EXCEPT ![c] = state'.nextTurn]
             ELSE UNCHANGED <<pc, thread, turn>>
    BY <1>3, Allocating
  <2>2. \A u : TurnsOf(state', u) = TurnsOf(state, u)
    BY <1>3, Allocating
  <2>3. snapshot' = snapshot \/ snapshot' = state'
    BY <2>1 DEF Save
  <2>4. history' = history /\ pc[c] = "idle"
    BY <1>3 DEF Allocate
  <2>5. \A d \in Clients : Informed(d)' =>
          Informed(d) /\ thread'[d] = thread[d] /\ (Engaged(d)' => Engaged(d))
    <3>1. CASE saved
      BY <2>1, <3>1 DEF Goto, Informed, Engaged, TInv, Typed
    <3>2. CASE ~saved
      BY <2>1, <3>2 DEF Informed, Engaged
    <3> QED
      BY <3>1, <3>2
  <2> QED
    BY <2>2, <2>3, <2>4, <2>5, HistoryStays DEF HistoryInv
<1>4. ASSUME NEW c \in Clients, Abandon(c) \/ RegisterBusy(c) \/ Answer(c) PROVE HistoryInv'
  <2>1. UNCHANGED <<state, snapshot>> /\ Forget(c)
    BY <1>4 DEF Abandon, RegisterBusy, Answer
  <2> QED
    BY <2>1, HistoryForgotten, HistoryStays
<1>5. ASSUME NEW c \in Clients, ReadHistory(c) PROVE HistoryInv'
  <2>1. /\ history' = [history EXCEPT ![c] = RecentHistory(state.threads[thread[c]])]
        /\ pc' = [pc EXCEPT ![c] = "register"] /\ pc[c] = "history"
        /\ UNCHANGED <<state, snapshot, thread>>
    BY <1>5 DEF ReadHistory, Goto
  <2>2. history' = [d \in Clients |-> history'[d]]
    BY <2>1 DEF HistoryInv
  <2>3. ASSUME NEW d \in Clients, Informed(d)', NEW x \in ToSet(history'[d])
        PROVE  /\ Admissible(x.status)
               /\ x \in TurnsOf(state, thread[d])
               /\ Engaged(d)' => x \in TurnsOf(snapshot, thread[d])
    <3>1. CASE d = c
      <4>1. thread[c] \in DOMAIN state.threads
        BY <2>1 DEF TInv, Serving, Threads
      <4>2. history'[c] = RecentHistory(state.threads[thread[c]]) /\ pc'[c] = "register"
        BY <2>1 DEF HistoryInv, TInv, Typed
      <4>3. Admissible(x.status) /\ x \in ToSet(state.threads[thread[c]])
        BY <2>3, <3>1, <4>2, RecentTurns
      <4> QED
        BY <3>1, <4>1, <4>2, <4>3 DEF TurnsOf, Engaged
    <3>2. CASE d # c
      <4>1. UNCHANGED <<pc[d], history[d]>>
        BY <2>1, <3>2 DEF HistoryInv, TInv, Typed
      <4> QED
        BY <2>3, <4>1 DEF HistoryInv, Informed, Engaged
    <3> QED
      BY <3>1, <3>2
  <2>4. ASSUME NEW d \in Clients, Informed(d)', NEW x \in ToSet(history'[d])
        PROVE  /\ Admissible(x.status)
               /\ x \in TurnsOf(state', thread'[d])
               /\ Engaged(d)' => x \in TurnsOf(snapshot', thread'[d])
    BY <2>1, <2>3, <2>4
  <2> QED
    BY <2>2, <2>4 DEF HistoryInv, ToSet, TurnsOf, Admissible
<1>6. ASSUME NEW c \in Clients, Announce(c) \/ AnnounceFails(c) \/ RunEnds(c) PROVE HistoryInv'
  <2>1. UNCHANGED <<state, snapshot, thread, history>>
    BY <1>6 DEF Announce, AnnounceFails, RunEnds
  <2>2. \A d \in Clients : (Informed(d)' => Informed(d)) /\ (Engaged(d)' => Engaged(d))
    BY <1>6 DEF Announce, AnnounceFails, RunEnds, Goto, Informed, Engaged, TInv, Typed
  <2> QED
    BY <2>1, <2>2, HistoryStays DEF HistoryInv
<1>7. ASSUME NEW c \in Clients, Register(c) PROVE HistoryInv'
  <2> DEFINE s == WithTurn(state, thread[c], turn[c])
  <2>1. PICK saved \in BOOLEAN :
          /\ Save(s, saved)
          /\ IF saved
             THEN /\ state' = s
                  /\ active' = [active EXCEPT ![thread[c]] = turn[c]]
                  /\ Goto(c, "announce")
                  /\ UNCHANGED <<thread, turn, history, outcome>>
             ELSE UNCHANGED <<state, active>> /\ Forget(c)
    BY <1>7 DEF Register
  <2>2. pc[c] = "register" /\ thread[c] \in Threads(state) /\ turn[c] \in TurnIds
    BY <1>7 DEF Register, TInv, Serving
  <2>3. \A u : TurnsOf(state, u) \subseteq TurnsOf(s, u)
    <3>1. /\ TurnsOf(s, thread[c]) = TurnsOf(state, thread[c]) \cup {[id |-> turn[c], status |-> "active"]}
          /\ \A u : u # thread[c] => TurnsOf(s, u) = TurnsOf(state, u)
      BY <2>2, AddTurn DEF TInv, Typed
    <3> QED
      BY <3>1
  <2> HIDE DEF s
  <2>4. CASE saved
    <3>1. state' = s /\ snapshot' = s /\ UNCHANGED <<thread, history>>
          /\ pc' = [pc EXCEPT ![c] = "announce"]
      BY <2>1, <2>4 DEF Save, Goto
    <3>2. \A d \in Clients : Informed(d)' => Informed(d)
      BY <2>2, <3>1 DEF Informed, Engaged, TInv, Typed
    <3> QED
      BY <2>3, <3>1, <3>2, HistoryStays DEF HistoryInv
  <2>5. CASE ~saved
    <3>1. snapshot' = snapshot /\ state' = state /\ Forget(c)
      BY <2>1, <2>5 DEF Save
    <3> QED
      BY <3>1, HistoryForgotten, HistoryStays
  <2> QED
    BY <2>4, <2>5
<1>8. ASSUME NEW c \in Clients, Record(c) PROVE HistoryInv'
  <2>1. PICK saved \in BOOLEAN :
          /\ Save(state', saved)
          /\ IF AnswersUnsaved(saved)
             THEN Goto(c, "answer") /\ UNCHANGED <<thread, turn, history, outcome>>
             ELSE Forget(c)
    BY <1>8 DEF Record
  <2>2. pc[c] = "record" /\ state' = WithStatus(state, thread[c], turn[c], outcome[c])
    BY <1>8 DEF Record
  <2>3. /\ thread[c] \in Threads(state) /\ outcome[c] \in Statuses /\ Engaged(c)
    BY <2>2 DEF TInv, Serving, Engaged, Statuses
  <2>4. /\ TurnsOf(state', thread[c]) =
             {Restatused(x, turn[c], outcome[c]) : x \in TurnsOf(state, thread[c])}
        /\ \A u : u # thread[c] => TurnsOf(state', u) = TurnsOf(state, u)
    BY <2>2, <2>3, SetStatus DEF TInv, Typed
  <2>5. ASSUME NEW t \in ThreadIds, NEW x \in TurnsOf(state, t), Admissible(x.status)
        PROVE  x \in TurnsOf(state', t)
    <3>1. CASE t # thread[c]
      BY <2>4, <3>1
    <3>2. CASE t = thread[c]
      <4>1. x.id # turn[c]
        BY <2>3, <2>5, <3>2 DEF ToldInv, Open, Admissible
      <4>2. Restatused(x, turn[c], outcome[c]) = x
        BY <4>1 DEF Restatused
      <4> QED
        BY <2>4, <3>2, <4>2
    <3> QED
      BY <3>1, <3>2
  <2>6. snapshot' = snapshot \/ snapshot' = state'
    BY <2>1 DEF Save
  <2>7. /\ history' = [d \in Clients |-> history'[d]]
        /\ \A d \in Clients : Informed(d)' =>
             /\ Informed(d) /\ history'[d] = history[d] /\ thread'[d] = thread[d]
             /\ Engaged(d)' => Engaged(d)
    <3>1. CASE AnswersUnsaved(saved)
      <4>1. UNCHANGED <<thread, history>> /\ pc' = [pc EXCEPT ![c] = "answer"]
        BY <2>1, <3>1 DEF Goto
      <4> QED
        BY <4>1 DEF HistoryInv, Informed, Engaged, TInv, Typed
    <3>2. CASE ~AnswersUnsaved(saved)
      BY <2>1, <3>2, HistoryForgotten
    <3> QED
      BY <3>1, <3>2
  <2> QED
    BY <2>5, <2>6, <2>7, HistoryStays
<1>9. CASE Crash
  BY <1>9 DEF Crash, HistoryInv, Informed, Engaged
<1>10. CASE Restart
  <2>1. ~up /\ UNCHANGED <<pc, history>>
    BY <1>10 DEF Restart, requests
  <2>2. \A c \in Clients : pc'[c] = "idle"
    BY <2>1 DEF TInv, Serving
  <2> QED
    BY <2>1, <2>2 DEF HistoryInv, Informed, Engaged
<1>11. CASE UNCHANGED vars
  BY <1>11 DEF vars, HistoryInv, Informed, Engaged
<1> QED
  BY <1>1, <1>2, <1>3, <1>4, <1>5, <1>6, <1>7, <1>8, <1>9, <1>10, <1>11 DEF Next, Serve

\* The model of a registered turn was given finished turns only, and no restart
\* takes them out of the thread: the snapshot has them, whatever saves failed.
THEOREM HistoryStands == Spec => []HistoryIsDurable
<1>1. HistoryInv => HistoryIsDurable
  BY DEF HistoryInv, HistoryIsDurable, Informed
<1> QED
  BY <1>1, TypeInitial, TypeStep, IdsInitial, IdsStep, OneTurnInitial, OneTurnStep,
     ToldInitial, ToldStep, HistoryInitial, HistoryStep, PTL DEF Spec
================================================================================
