------------------------------ MODULE MemoryBudget ------------------------------
(***************************************************************************)
(* MemoryAdmissionPolicy (memory_policy): a budget of bytes that callers   *)
(* reserve before they start something and turn into an allocation once it *)
(* has started.  Reservations expire; allocations are reclaimed by task    *)
(* and agent, or evicted to admit another.  Every operation has the policy *)
(* to itself; what interleaves is the operations of several callers.       *)
(***************************************************************************)
EXTENDS Naturals, Sequences, FiniteSets, SequencesExt, FiniteSetsExt

CONSTANTS
  Owners,         \* pairs of task and agent
  TotalBudget,    \* total_budget_bytes
  SystemBytes,    \* reserved_system_bytes
  Sizes,          \* bytes that are asked for
  ReservationTtl, \* reservation_ttl_ms
  MaxTime,        \* bound: the clock
  MaxTokens,      \* bound: reservations made
  MaxAllocations  \* bound: allocations made

ASSUME MemoryBudgetAssumption ==
  /\ TotalBudget \in Nat
  /\ SystemBytes \in Nat
  /\ Sizes \subseteq Nat
  /\ ReservationTtl \in Nat
  /\ MaxTime \in Nat
  /\ MaxTokens \in Nat
  /\ MaxAllocations \in Nat

Token == [id : Nat, owner : Owners, bytes : Sizes, requested : Nat, expires : Nat]
Allocation == [id : Nat \ {0}, owner : Owners, bytes : Sizes]

VARIABLES
  reservations,       \* in the order they were made
  activeAllocations,  \* in the order they were made
  nextAllocationSeq,
  now,
  held,       \* tokens that callers hold: neither committed, released nor refused
  reply,      \* what the last operation answered
  issued      \* history: how many tokens were handed out

vars == <<reservations, activeAllocations, nextAllocationSeq, now, held, reply, issued>>

Init ==
  /\ reservations = <<>>
  /\ activeAllocations = <<>>
  /\ nextAllocationSeq = 1
  /\ now = 0
  /\ held = {}
  /\ reply = [op |-> "none"]
  /\ issued = 0

--------------------------------------------------------------------------------
Bytes(s) == FoldLeft(LAMBDA sum, x : sum + x.bytes, 0, s)

\* retain: the elements that stay, in their order.
Without(s, gone) ==
  FoldLeft(LAMBDA rest, x : IF x \in gone THEN rest ELSE Append(rest, x), <<>>, s)

Less(a, b) == IF a > b THEN a - b ELSE 0

\* available_bytes, whose subtractions saturate.
\* Mutant: what is only reserved counts as free.
Available_Unreserved(allocations) ==
  Less(Less(TotalBudget, SystemBytes), Bytes(allocations))
Available(allocations) ==
  Less(Less(Less(TotalBudget, SystemBytes), Bytes(allocations)), Bytes(reservations))

\* is_expired_at
Expired(token) == token.expires <= now

\* The place of the first element with an id, 0 if there is none.
Position(s, id) == SelectInSeq(s, LAMBDA x : x.id = id)

\* The place of the first element of an owner, 0 if there is none.
FirstOf(s, owner) == SelectInSeq(s, LAMBDA x : x.owner = owner)

\* Mutant: the sequence does not advance with an eviction.
AllocationIds_Kept == nextAllocationSeq
AllocationIds == nextAllocationSeq + 1

Allocated(allocations, owner, bytes) ==
  Append(allocations, [id |-> nextAllocationSeq, owner |-> owner, bytes |-> bytes])

\* try_reserve_at: the token is numbered by how many there are.
Reserve(owner, bytes) ==
  /\ issued < MaxTokens
  /\ IF bytes > Available(activeAllocations)
     THEN /\ reply' = [op |-> "reserve"]
          /\ UNCHANGED <<reservations, held, issued>>
     ELSE LET token == [id |-> Len(reservations) + 1, owner |-> owner, bytes |-> bytes,
                        requested |-> now, expires |-> now + ReservationTtl]
          IN /\ reservations' = Append(reservations, token)
             /\ held' = held \cup {token}
             /\ issued' = issued + 1
             /\ reply' = [op |-> "reserve"]
  /\ UNCHANGED <<activeAllocations, nextAllocationSeq, now>>

\* Mutant: a token is found by its number alone.
IsReserved_ById(i, token) == TRUE

\* commit_at
IsReserved(i, token) == reservations[i] = token

Commit(token) ==
  LET i == Position(reservations, token.id)
      ok == i # 0 /\ IsReserved(i, token) /\ ~Expired(token)
  IN /\ nextAllocationSeq <= MaxAllocations
     /\ held' = held \ {token}
     /\ reply' = [op |-> "commit", ok |-> ok, token |-> token]
     /\ IF ok
        THEN /\ activeAllocations' =
                  Allocated(activeAllocations, reservations[i].owner, reservations[i].bytes)
             /\ nextAllocationSeq' = nextAllocationSeq + 1
             /\ reservations' = RemoveAt(reservations, i)
        ELSE UNCHANGED <<activeAllocations, nextAllocationSeq, reservations>>
  /\ UNCHANGED <<now, issued>>

\* release_reservation: the start failed.
Release(token) ==
  LET i == Position(reservations, token.id)
  IN /\ held' = held \ {token}
     /\ reservations' = IF i # 0 THEN RemoveAt(reservations, i) ELSE reservations
     /\ reply' = [op |-> "release"]
     /\ UNCHANGED <<activeAllocations, nextAllocationSeq, now, issued>>

\* reclaim: the first allocation of the owner.
Reclaim(owner) ==
  LET i == FirstOf(activeAllocations, owner)
  IN /\ activeAllocations' = IF i # 0 THEN RemoveAt(activeAllocations, i) ELSE activeAllocations
     /\ reply' = [op |-> "reclaim"]
     /\ UNCHANGED <<reservations, nextAllocationSeq, now, held, issued>>

\* expire_reservations_at
ExpireReservations ==
  /\ reservations' = Without(reservations, {token \in ToSet(reservations) : Expired(token)})
  /\ reply' = [op |-> "expire"]
  /\ UNCHANGED <<activeAllocations, nextAllocationSeq, now, held, issued>>

\* admit_with_eviction: everything or nothing.
AdmitWithEviction(owner, bytes, candidates) ==
  LET rest == Without(activeAllocations, {a \in ToSet(activeAllocations) : a.id \in candidates})
      known == candidates \subseteq {a.id : a \in ToSet(activeAllocations)}
  IN /\ nextAllocationSeq <= MaxAllocations
     /\ reply' = [op |-> "admit"]
     /\ IF known /\ bytes <= Available(rest)
        THEN /\ activeAllocations' = Allocated(rest, owner, bytes)
             /\ nextAllocationSeq' = AllocationIds
        ELSE UNCHANGED <<activeAllocations, nextAllocationSeq>>
     /\ UNCHANGED <<reservations, now, held, issued>>

Tick ==
  /\ now < MaxTime
  /\ now' = now + 1
  /\ reply' = [op |-> "none"]
  /\ UNCHANGED <<reservations, activeAllocations, nextAllocationSeq, held, issued>>

Next ==
  \/ \E owner \in Owners, bytes \in Sizes :
       \/ Reserve(owner, bytes)
       \/ \E candidates \in SUBSET (1 .. MaxAllocations) : AdmitWithEviction(owner, bytes, candidates)
  \/ \E token \in held : Commit(token) \/ Release(token)
  \/ \E owner \in Owners : Reclaim(owner)
  \/ ExpireReservations
  \/ Tick

Spec == Init /\ [][Next]_vars

--------------------------------------------------------------------------------
\* Every variable has its type; allocations are numbered from one.
TypeOK ==
  /\ reservations \in Seq(Token)
  /\ activeAllocations \in Seq(Allocation)
  /\ nextAllocationSeq \in 1 .. MaxAllocations + 1
  /\ now \in 0 .. MaxTime
  /\ held \subseteq Token
  /\ issued \in 0 .. MaxTokens

\* However reservations, commits, evictions and reclaims of several callers
\* follow one another, what is promised and used stays within the budget.
WithinBudget ==
  Bytes(activeAllocations) + Bytes(reservations) <= Less(TotalBudget, SystemBytes)

\* An allocation can be named by its id: no id is given out twice.
AllocationsUnique ==
  \A i, j \in DOMAIN activeAllocations :
    /\ activeAllocations[i].id < nextAllocationSeq
    /\ activeAllocations[i].id = activeAllocations[j].id => i = j

\* The books of the policy are in order whatever its callers do: types, ids and sums.
BudgetWellFormed == TypeOK /\ AllocationsUnique /\ WithinBudget

\* What a commit allocates is what its token had reserved.
CommitsItsToken ==
  reply.op = "commit" /\ reply.ok =>
    /\ Last(activeAllocations).owner = reply.token.owner
    /\ Last(activeAllocations).bytes = reply.token.bytes
================================================================================
