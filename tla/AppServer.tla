------------------------------- MODULE AppServer -------------------------------
(***************************************************************************)
(* The app-server daemon (app_server.rs): clients on connections of their  *)
(* own start threads and turns.  One mutex guards the state; a turn is     *)
(* prepared in three critical sections (allocate, read history, register), *)
(* runs outside the lock, and is recorded in a fourth.  Every change is    *)
(* saved to an SQLite snapshot, which may fail; the daemon may crash, and  *)
(* a new one loads the snapshot.                                           *)
(*                                                                         *)
(* What a turn does while it runs is the subject of ToolLoop: here it ends *)
(* with one of the outcomes that the daemon tells apart.                   *)
(***************************************************************************)
EXTENDS Naturals, Sequences, FiniteSets, SequencesExt, FiniteSetsExt

CONSTANTS
  Clients,         \* connections that send requests
  MaxThreads,      \* bound: thread ids
  MaxTurns,        \* bound: turn ids
  HistoryLimit,    \* context_recent_turns
  MaxSaveFailures, \* bound: failed saves of the snapshot
  MaxCrashes       \* bound: crashes of the daemon

ASSUME AppServerAssumption ==
  /\ MaxThreads \in Nat
  /\ MaxTurns \in Nat
  /\ HistoryLimit \in Nat
  /\ MaxSaveFailures \in Nat
  /\ MaxCrashes \in Nat

ThreadIds == 1 .. MaxThreads
TurnIds == 1 .. MaxTurns
None == 0

Outcomes == {"completed", "human_input_required", "provider_error", "failed", "cancelled"}
Statuses == Outcomes \cup {"active", "interrupted"}
Turn == [id : TurnIds, status : Statuses]

\* turn_status_is_admissible_for_history
Admissible(status) == status \in {"completed", "human_input_required"}

\* AppServerState without the active turns; also what a snapshot holds.
EmptyState == [nextThread |-> 0, nextTurn |-> 0, threads |-> <<>>]

VARIABLES
  state,     \* AppServerState: sequence numbers and threads, in memory
  active,    \* active_turns: per thread, the id of its registered turn
  snapshot,  \* the SQLite snapshot
  up,        \* whether the daemon runs
  pc,        \* where each client's request stands
  thread,    \* the thread it is for
  turn,      \* the turn id it was given
  history,   \* the turns whose text its model is given
  outcome,   \* how its run ended
  saveFailures, crashes,
  told,      \* history: ids of threads and turns that clients were given, of turns also shown
  answered,  \* history: ends of turns that clients were answered: thread, turn, status
  shown      \* history: threads, and ends of turns, that thread/list and thread/resume
             \* showed, less what a crash took away before it was ever saved

requests == <<pc, thread, turn, history, outcome>>
claims == <<told, answered, shown>>
vars == <<state, active, snapshot, up, pc, thread, turn, history, outcome,
          saveFailures, crashes, told, answered, shown>>

Init ==
  /\ state = EmptyState
  /\ active = [t \in ThreadIds |-> None]
  /\ snapshot = EmptyState
  /\ up = TRUE
  /\ pc = [c \in Clients |-> "idle"]
  /\ thread = [c \in Clients |-> None]
  /\ turn = [c \in Clients |-> None]
  /\ history = [c \in Clients |-> <<>>]
  /\ outcome = [c \in Clients |-> "active"]
  /\ saveFailures = 0
  /\ crashes = 0
  /\ told = [threads |-> {}, turns |-> {}]
  /\ answered = {}
  /\ shown = [threads |-> {}, turns |-> {}]

--------------------------------------------------------------------------------
\* persist_app_server_state: one transaction that holds the whole state.
Save(s, saved) ==
  /\ saved \/ saveFailures < MaxSaveFailures
  /\ saveFailures' = IF saved THEN saveFailures ELSE saveFailures + 1
  /\ snapshot' = IF saved THEN s ELSE snapshot

Goto(c, where) == pc' = [pc EXCEPT ![c] = where]

\* create_thread
WithThread(s) ==
  [s EXCEPT !.nextThread = @ + 1,
            !.threads = [t \in DOMAIN @ \cup {s.nextThread + 1} |->
                           IF t \in DOMAIN @ THEN @[t] ELSE <<>>]]

WithStatus(s, t, id, status) ==
  [s EXCEPT !.threads[t] =
     [i \in DOMAIN @ |-> IF @[i].id = id THEN [@[i] EXCEPT !.status = status] ELSE @[i]]]

WithTurn(s, t, id) ==
  [s EXCEPT !.threads[t] = Append(@, [id |-> id, status |-> "active"])]

TurnsOf(s, t) == IF t \in DOMAIN s.threads THEN ToSet(s.threads[t]) ELSE {}

\* The ends of the turns of a thread, as thread_to_json shows them.
Ends(s, t) ==
  {<<t, x.id, x.status>> : x \in {y \in TurnsOf(s, t) : y.status # "active"}}

\* recent_thread_history: the last admissible turns, at their places in the thread.
\* Mutant: turns of every status are handed to the model.
RecentHistory_All(turns) ==
  [i \in {j \in DOMAIN turns : Cardinality({k \in DOMAIN turns : k > j}) < HistoryLimit} |-> turns[i]]
RecentHistory(turns) ==
  LET admissible == {i \in DOMAIN turns : Admissible(turns[i].status)}
  IN [i \in {j \in admissible : Cardinality({k \in admissible : k > j}) < HistoryLimit} |-> turns[i]]

--------------------------------------------------------------------------------
\* thread/start: a thread that was not saved stays in memory.
StartThread(c) ==
  /\ up /\ pc[c] = "idle"
  /\ state.nextThread < MaxThreads
  /\ state' = WithThread(state)
  /\ \E saved \in BOOLEAN :
       /\ Save(state', saved)
       /\ told' = IF saved THEN [told EXCEPT !.threads = @ \cup {state'.nextThread}] ELSE told
  /\ UNCHANGED <<active, up, requests, crashes, answered, shown>>

\* thread/list shows all threads of the memory, saved or not, without their turns.
ListThreads(c) ==
  /\ up /\ pc[c] = "idle"
  /\ shown' = [threads |-> shown.threads \cup DOMAIN state.threads, turns |-> shown.turns]
  /\ UNCHANGED <<state, active, snapshot, up, requests, saveFailures, crashes, told, answered>>

\* thread/resume shows one of them with its turns, which were saved when they were
\* registered; how they ended may be in memory only.
ResumeThread(c) ==
  /\ up /\ pc[c] = "idle"
  /\ \E t \in DOMAIN state.threads :
       /\ told' = [told EXCEPT !.turns = @ \cup {x.id : x \in TurnsOf(state, t)}]
       /\ shown' = [threads |-> shown.threads \cup {t}, turns |-> shown.turns \cup Ends(state, t)]
  /\ UNCHANGED <<state, active, snapshot, up, requests, saveFailures, crashes, answered>>

\* turn/start, first critical section: resolve or create the thread, refuse a
\* busy one, take a turn id.
Allocate(c) ==
  /\ up /\ pc[c] = "idle"
  /\ state.nextTurn < MaxTurns
  /\ \E new \in BOOLEAN :
       LET s == IF new THEN WithThread(state) ELSE state
       IN /\ new => state.nextThread < MaxThreads
          /\ \E t \in (IF new THEN {s.nextThread} ELSE DOMAIN state.threads) :
               /\ active[t] = None
               /\ state' = [s EXCEPT !.nextTurn = @ + 1]
               /\ \E saved \in BOOLEAN :
                    /\ Save(state', saved)
                    /\ IF saved
                       THEN /\ Goto(c, "history")
                            /\ thread' = [thread EXCEPT ![c] = t]
                            /\ turn' = [turn EXCEPT ![c] = state'.nextTurn]
                       ELSE UNCHANGED <<pc, thread, turn>>
  /\ UNCHANGED <<active, up, history, outcome, crashes, claims>>

Forget(c) ==
  /\ Goto(c, "idle")
  /\ thread' = [thread EXCEPT ![c] = None]
  /\ turn' = [turn EXCEPT ![c] = None]
  /\ history' = [history EXCEPT ![c] = <<>>]
  /\ outcome' = [outcome EXCEPT ![c] = "active"]

\* The configuration does not load or the files of the turn cannot be made.
Abandon(c) ==
  /\ up /\ pc[c] \in {"history", "register"}
  /\ Forget(c)
  /\ UNCHANGED <<state, active, snapshot, up, saveFailures, crashes, claims>>

\* Second critical section.
ReadHistory(c) ==
  /\ up /\ pc[c] = "history"
  /\ history' = [history EXCEPT ![c] = RecentHistory(state.threads[thread[c]])]
  /\ Goto(c, "register")
  /\ UNCHANGED <<state, active, snapshot, up, thread, turn, outcome, saveFailures, crashes, claims>>

\* Third critical section: the thread may have become busy since the first.
RegisterBusy(c) ==
  /\ up /\ pc[c] = "register"
  /\ active[thread[c]] # None
  /\ Forget(c)
  /\ UNCHANGED <<state, active, snapshot, up, saveFailures, crashes, claims>>

\* Mutant: the second busy check is gone.
ThreadFree_Unchecked(t) == TRUE
ThreadFree(t) == active[t] = None

\* A registration that cannot be saved is undone.
Register(c) ==
  /\ up /\ pc[c] = "register"
  /\ ThreadFree(thread[c])
  /\ \E saved \in BOOLEAN :
       /\ Save(WithTurn(state, thread[c], turn[c]), saved)
       /\ IF saved
          THEN /\ state' = WithTurn(state, thread[c], turn[c])
               /\ active' = [active EXCEPT ![thread[c]] = turn[c]]
               /\ Goto(c, "announce")
               /\ UNCHANGED <<thread, turn, history, outcome>>
          ELSE UNCHANGED <<state, active>> /\ Forget(c)
  /\ UNCHANGED <<up, crashes, claims>>

\* turn/started is written to the connection and the runtime thread spawned.
Announce(c) ==
  /\ up /\ pc[c] = "announce"
  /\ told' = [threads |-> told.threads \cup {thread[c]}, turns |-> told.turns \cup {turn[c]}]
  /\ Goto(c, "running")
  /\ UNCHANGED <<state, active, snapshot, up, thread, turn, history, outcome,
                 saveFailures, crashes, answered, shown>>

\* The client is gone before turn/started is written.
AnnounceFails(c) ==
  /\ up /\ pc[c] = "announce"
  /\ outcome' = [outcome EXCEPT ![c] = "cancelled"]
  /\ Goto(c, "record")
  /\ UNCHANGED <<state, active, snapshot, up, thread, turn, history, saveFailures, crashes, claims>>

\* Mutant: a panic of the run is not caught, and nothing follows it.
RunEnds_PanicLost(c) ==
  /\ up /\ pc[c] = "running" /\ outcome[c] = "active"
  /\ \E o \in Outcomes :
       /\ outcome' = [outcome EXCEPT ![c] = o]
       /\ IF o = "failed" THEN UNCHANGED pc ELSE Goto(c, "record")
  /\ UNCHANGED <<state, active, snapshot, up, thread, turn, history, saveFailures, crashes, claims>>

\* run_live_turn returns, fails, is stopped at a safe point or panics.
RunEnds(c) ==
  /\ up /\ pc[c] = "running"
  /\ \E o \in Outcomes : outcome' = [outcome EXCEPT ![c] = o]
  /\ Goto(c, "record")
  /\ UNCHANGED <<state, active, snapshot, up, thread, turn, history, saveFailures, crashes, claims>>

\* remove_active_turn
Released(t, id) ==
  IF active[t] = id THEN [active EXCEPT ![t] = None] ELSE active

\* Mutant: the answer does not wait for the save.
AnswersUnsaved_Always(saved) == TRUE
AnswersUnsaved(saved) == saved

\* record_live_turn_success, record_live_turn_failure: memory first, then the
\* snapshot; when that cannot be saved the client is told of the error only.
Record(c) ==
  /\ up /\ pc[c] = "record"
  /\ state' = WithStatus(state, thread[c], turn[c], outcome[c])
  /\ active' = Released(thread[c], turn[c])
  /\ \E saved \in BOOLEAN :
       /\ Save(state', saved)
       /\ IF AnswersUnsaved(saved)
          THEN Goto(c, "answer") /\ UNCHANGED <<thread, turn, history, outcome>>
          ELSE Forget(c)
  /\ UNCHANGED <<up, crashes, claims>>

\* turn/completed is written, unless the connection has failed by now.
Answer(c) ==
  /\ up /\ pc[c] = "answer"
  /\ \E written \in {FALSE, turn[c] \in told.turns} :
       answered' = IF written THEN answered \cup {<<thread[c], turn[c], outcome[c]>>} ELSE answered
  /\ Forget(c)
  /\ UNCHANGED <<state, active, snapshot, up, saveFailures, crashes, told, shown>>

--------------------------------------------------------------------------------
\* The daemon dies: everything in memory is gone, the database is not.
Crash ==
  /\ up
  /\ crashes < MaxCrashes
  /\ crashes' = crashes + 1
  /\ up' = FALSE
  /\ state' = EmptyState
  /\ active' = [t \in ThreadIds |-> None]
  /\ pc' = [c \in Clients |-> "idle"]
  /\ thread' = [c \in Clients |-> None]
  /\ turn' = [c \in Clients |-> None]
  /\ history' = [c \in Clients |-> <<>>]
  /\ outcome' = [c \in Clients |-> "active"]
  /\ shown' = [threads |-> shown.threads \cap DOMAIN snapshot.threads,
               turns |-> {a \in shown.turns : a \in Ends(snapshot, a[1])}]
  /\ UNCHANGED <<snapshot, saveFailures, told, answered>>

\* restore_app_server_sequence_floors: no number at or below an id in use.
\* Mutant: the numbers are derived from how much was restored.
Restored_Counted(s) ==
  [s EXCEPT !.nextThread = Cardinality(DOMAIN s.threads),
            !.nextTurn = Cardinality(UNION {ToSet(s.threads[t]) : t \in DOMAIN s.threads})]
Restored(s) ==
  [s EXCEPT !.nextThread = Max({@} \cup DOMAIN s.threads),
            !.nextTurn = Max({@} \cup UNION {{x.id : x \in ToSet(s.threads[t])} :
                                               t \in DOMAIN s.threads})]

\* recover_interrupted_app_server_turns
\* Mutant: every turn that is not completed is interrupted.
Recovered_Unfinished(s) ==
  [s EXCEPT !.threads =
     [t \in DOMAIN @ |->
        [i \in DOMAIN @[t] |->
           IF @[t][i].status # "completed" THEN [@[t][i] EXCEPT !.status = "interrupted"]
                                           ELSE @[t][i]]]]
Recovered(s) ==
  [s EXCEPT !.threads =
     [t \in DOMAIN @ |->
        [i \in DOMAIN @[t] |->
           IF @[t][i].status = "active" THEN [@[t][i] EXCEPT !.status = "interrupted"]
                                        ELSE @[t][i]]]]

\* A new daemon serves only once what it recovered is saved.
Restart ==
  /\ ~up
  /\ LET s == Recovered(Restored(snapshot))
     IN IF s.threads = snapshot.threads
        THEN up' = TRUE /\ state' = s /\ UNCHANGED <<snapshot, saveFailures>>
        ELSE \E saved \in BOOLEAN :
               /\ Save(s, saved)
               /\ up' = saved
               /\ state' = IF saved THEN s ELSE state
  /\ UNCHANGED <<active, requests, crashes, claims>>

Serve(c) ==
  \/ ReadHistory(c)
  \/ RegisterBusy(c)
  \/ Register(c)
  \/ Announce(c)
  \/ RunEnds(c)
  \/ Record(c)
  \/ Answer(c)

Next ==
  \/ \E c \in Clients :
       \/ StartThread(c)
       \/ ListThreads(c)
       \/ ResumeThread(c)
       \/ Allocate(c)
       \/ Abandon(c)
       \/ AnnounceFails(c)
       \/ Serve(c)
  \/ Crash
  \/ Restart

Spec == Init /\ [][Next]_vars

\* The threads that serve requests go on, a run ends, and somebody starts the
\* daemon again.
FairSpec == Spec /\ (\A c \in Clients : WF_vars(Serve(c))) /\ WF_vars(Restart)

--------------------------------------------------------------------------------
\* Every variable has its type; no sequence number passes its bound.
TypeOK ==
  /\ state.nextThread \in 0 .. MaxThreads
  /\ state.nextTurn \in 0 .. MaxTurns
  /\ DOMAIN state.threads \subseteq ThreadIds
  /\ \A t \in DOMAIN state.threads : state.threads[t] \in Seq(Turn)
  /\ DOMAIN snapshot.threads \subseteq ThreadIds
  /\ \A t \in DOMAIN snapshot.threads : snapshot.threads[t] \in Seq(Turn)
  /\ active \in [ThreadIds -> TurnIds \cup {None}]
  /\ up \in BOOLEAN
  /\ pc \in [Clients -> {"idle", "history", "register", "announce", "running", "record", "answer"}]
  /\ thread \in [Clients -> ThreadIds \cup {None}]
  /\ turn \in [Clients -> TurnIds \cup {None}]
  /\ outcome \in [Clients -> Outcomes \cup {"active"}]
  /\ saveFailures \in 0 .. MaxSaveFailures
  /\ crashes \in 0 .. MaxCrashes

WithStatusIn(s, t, status) == {x.id : x \in {y \in TurnsOf(s, t) : y.status = status}}

\* A client is engaged in a turn from its registration until it is recorded.
Engaged(c) == pc[c] \in {"announce", "running", "record"}

\* The registration of a thread, the active turn in its list and the request
\* that works on it are one and the same: no thread runs two turns, none is
\* busy with a turn that nobody works on, none has a turn that stays active.
OneTurnPerThread ==
  \A t \in ThreadIds :
    LET engaged == {c \in Clients : Engaged(c) /\ thread[c] = t}
    IN /\ Cardinality(engaged) <= 1
       /\ {turn[c] : c \in engaged} = WithStatusIn(state, t, "active")
       /\ active[t] = None <=> engaged = {}
       /\ \A c \in engaged : active[t] = turn[c]

\* An id that a client learned is never given out again: its thread is there, and the
\* sequence numbers stand above it, across failing saves, crashes and restarts.  That
\* goes for threads and turns that were answered or announced, for turns that were
\* shown, and for threads that were shown, also before they were saved, unless the
\* daemon died before it saved them.
IdsNotReused ==
  up => /\ \A t \in told.threads \cup shown.threads :
             t \in DOMAIN state.threads /\ t <= state.nextThread
        /\ \A id \in told.turns : id <= state.nextTurn
        /\ \A c \in Clients : pc[c] \in {"history", "register"} => turn[c] \notin told.turns

\* How a turn ended is what every later daemon says, across failing saves, crashes and
\* recoveries: if its client was answered so, always; if thread/resume showed it so,
\* unless the daemon died before it saved it.
ToldStands == up => \A a \in answered \cup shown.turns : a \in Ends(state, a[1])

\* The model of a registered turn was given finished turns only, and they are
\* finished in the snapshot as well: no restart takes its history away.
HistoryIsDurable ==
  \A c \in Clients : Engaged(c) =>
    \A x \in ToSet(history[c]) : Admissible(x.status) /\ x \in TurnsOf(snapshot, thread[c])

\* A busy thread becomes free again, whatever its turn runs into.
ThreadsBecomeFree == \A t \in ThreadIds : active[t] # None ~> active[t] = None
================================================================================
