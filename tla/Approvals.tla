------------------------------- MODULE Approvals -------------------------------
(***************************************************************************)
(* Tool calls that wait for the operator.  A turn whose call the policy    *)
(* does not allow on its own writes a pending file named by the approval   *)
(* id and ends (cli_runtime.rs).  The operator answers at the prompt of    *)
(* the REPL, or signs a ticket that an `approval resume` command brings    *)
(* later (cli_approval.rs).  Either way the call is classified anew,       *)
(* compared with what was asked, spent by a marker file, and only then run *)
(* (tool_runtime.rs).  Nobody ever removes a pending file or a marker.     *)
(***************************************************************************)
EXTENDS Naturals, Sequences

CONSTANTS
  Procs,       \* front ends and resume commands
  Calls,       \* tool calls at their place in a turn: every turn is turn-1
  Kinds,       \* action kinds that the policy asks the operator about
  Rules,       \* fingerprints the rule file can have
  Agents,      \* ids the identity registry can make the active one
  ToolAgent,   \* the agent id the tool loop writes into a pending call, "cli"
  NoId,
  MaxCrashes   \* bound: processes that die or whose write fails

ASSUME ApprovalsAssumption ==
  /\ Kinds \cap {"allowed", "blocked"} = {}
  /\ Rules \cap {"none", "torn"} = {}
  /\ NoId \notin [call : Calls, kind : Kinds]
  /\ MaxCrashes \in Nat

\* approval_id hashes the call, its place, its target, the workspace and the
\* policy marker; the last is the kind of action the call was taken for.
ApprovalIds == [call : Calls, kind : Kinds]
Decisions == Kinds \cup {"allowed", "blocked"}

VARIABLES
  policy,    \* what the configuration decides on each call
  rules,     \* fingerprint of the rule file, quoted in the reason of a decision
  active,    \* the active identity
  pending,   \* pending file of each id: none, torn, or the rules it was asked under
  ticket,    \* ticket the operator signed for an id: none, fresh or expired
  spent,     \* ids with a consumption marker
  crashes,   \* processes that died so far, up to MaxCrashes
  pc,        \* where each process stands
  held,      \* the id it asks about or resumes
  receipt,   \* the id the operator's answer is for
  seen,      \* the decision it classified the call with
  reason,    \* the rules it quotes while it asks
  consent,   \* history: ids the operator said yes to
  ran        \* history: per id, the decisions its approved runs were made on

world == <<policy, rules, active>>
files == <<pending, ticket, spent>>
locals == <<pc, held, receipt, seen, reason>>
history == <<consent, ran>>
vars == <<policy, rules, active, pending, ticket, spent, crashes,
          pc, held, receipt, seen, reason, consent, ran>>

Init ==
  /\ policy \in [Calls -> Decisions]
  /\ rules \in Rules
  /\ active \in Agents
  /\ pending = [id \in ApprovalIds |-> "none"]
  /\ ticket = [id \in ApprovalIds |-> "none"]
  /\ spent = {}
  /\ crashes = 0
  /\ pc = [p \in Procs |-> "idle"]
  /\ held = [p \in Procs |-> NoId]
  /\ receipt = [p \in Procs |-> NoId]
  /\ seen = [p \in Procs |-> "blocked"]
  /\ reason = [p \in Procs |-> "none"]
  /\ consent = {}
  /\ ran = [id \in ApprovalIds |-> <<>>]

Goto(p, where) == pc' = [pc EXCEPT ![p] = where]

\* The process forgets the call: the turn failed, or the command returned.
Leave(p) ==
  /\ Goto(p, "idle")
  /\ held' = [held EXCEPT ![p] = NoId]
  /\ receipt' = [receipt EXCEPT ![p] = NoId]
  /\ seen' = [seen EXCEPT ![p] = "blocked"]
  /\ reason' = [reason EXCEPT ![p] = "none"]

--------------------------------------------------------------------------------
(* Asking *)

NeedsApproval(decision) == decision \in Kinds

\* A turn reaches the call; calls that are allowed or blocked wait for nobody.
Ask(p, c) ==
  /\ pc[p] = "idle"
  /\ NeedsApproval(policy[c])
  /\ Goto(p, "asking")
  /\ held' = [held EXCEPT ![p] = [call |-> c, kind |-> policy[c]]]
  /\ reason' = [reason EXCEPT ![p] = rules]
  /\ UNCHANGED <<world, files, history, crashes, receipt, seen>>

CreateNew(id) == pending[id] = "none"

\* Mutant: a file that exists is taken for one of this call.
SameBytes_Exists(id, r) == pending[id] # "none"
SameBytes(id, r) == pending[id] = r

\* persist_pending_approval creates the file ...
CreatePending(p) ==
  /\ pc[p] = "asking"
  /\ CreateNew(held[p])
  /\ pending' = [pending EXCEPT ![held[p]] = "torn"]
  /\ Goto(p, "filling")
  /\ UNCHANGED <<world, ticket, spent, history, crashes, held, receipt, seen, reason>>

\* ... and writes it, and the turn ends at the prompt;
FillPending(p) ==
  /\ pc[p] = "filling"
  /\ pending' = [pending EXCEPT ![held[p]] = reason[p]]
  /\ Goto(p, "prompt")
  /\ UNCHANGED <<world, ticket, spent, history, crashes, held, receipt, seen, reason>>

\* a file with the same bytes will do,
FindPending(p) ==
  /\ pc[p] = "asking"
  /\ SameBytes(held[p], reason[p])
  /\ Goto(p, "prompt")
  /\ UNCHANGED <<world, files, history, crashes, held, receipt, seen, reason>>

\* and any other file fails the turn: pending_approval_file_conflict.
PendingConflict(p) ==
  /\ pc[p] = "asking"
  /\ ~CreateNew(held[p])
  /\ ~SameBytes(held[p], reason[p])
  /\ Leave(p)
  /\ UNCHANGED <<world, files, history, crashes>>

--------------------------------------------------------------------------------
(* Answering *)

SayYes(p) ==
  /\ pc[p] = "prompt"
  /\ Goto(p, "resuming")
  /\ receipt' = [receipt EXCEPT ![p] = held[p]]
  /\ reason' = [reason EXCEPT ![p] = "none"]
  /\ consent' = consent \cup {held[p]}
  /\ UNCHANGED <<world, files, crashes, held, seen, ran>>

\* Rejecting, /new and leaving forget the prompt and keep the file.
SayNo(p) ==
  /\ pc[p] = "prompt"
  /\ Leave(p)
  /\ UNCHANGED <<world, files, history, crashes>>

\* The operator signs what a pending file says.
SignTicket(id) ==
  /\ pending[id] \in Rules
  /\ ticket[id] # "fresh"
  /\ ticket' = [ticket EXCEPT ![id] = "fresh"]
  /\ consent' = consent \cup {id}
  /\ UNCHANGED <<world, pending, spent, crashes, locals, ran>>

TicketExpires(id) ==
  /\ ticket[id] = "fresh"
  /\ ticket' = [ticket EXCEPT ![id] = "expired"]
  /\ UNCHANGED <<world, pending, spent, history, crashes, locals>>

\* approval resume: a pending file, and a ticket no older than 15 minutes.
BringTicket(p, id, signed) ==
  /\ pc[p] = "idle"
  /\ ticket[signed] = "fresh"
  /\ Goto(p, "resuming")
  /\ held' = [held EXCEPT ![p] = id]
  /\ receipt' = [receipt EXCEPT ![p] = signed]
  /\ UNCHANGED <<world, files, history, crashes, seen, reason>>

--------------------------------------------------------------------------------
(* Resuming *)

\* Mutant: the receipt's ids are not compared with the pending call's.
ReceiptMatches_Any(p) == TRUE
ReceiptMatches(p) == receipt[p] = held[p]

\* Mutant: the call must need approval, but may now be of another kind.
StillAsked_AnyKind(id) == NeedsApproval(policy[id.call])
StillAsked(id) == policy[id.call] = id.kind

Resumable(p) ==
  /\ pending[held[p]] \in Rules
  /\ active = ToolAgent
  /\ ReceiptMatches(p)
  /\ StillAsked(held[p])

\* Mutant: the approval is spent before the call is classified anew.
CheckAgain_SpendsFirst(p) ==
  /\ pc[p] = "resuming"
  /\ held[p] \notin spent
  /\ spent' = spent \cup {held[p]}
  /\ IF Resumable(p)
     THEN Goto(p, "cleared") /\ seen' = [seen EXCEPT ![p] = policy[held[p].call]]
                             /\ UNCHANGED <<held, receipt, reason>>
     ELSE Leave(p)
  /\ UNCHANGED <<world, pending, ticket, history, crashes>>
CheckAgain(p) ==
  /\ pc[p] = "resuming"
  /\ Resumable(p)
  /\ Goto(p, "checked")
  /\ seen' = [seen EXCEPT ![p] = policy[held[p].call]]
  /\ UNCHANGED <<world, files, history, crashes, held, receipt, reason>>

\* The REPL ends with the error, and so does the command.
Refuse(p) ==
  /\ pc[p] = "resuming"
  /\ ~Resumable(p)
  /\ Leave(p)
  /\ UNCHANGED <<world, files, history, crashes>>

\* Mutant: the marker is written whether or not there is one.
MayConsume_Again(id) == TRUE
MayConsume(id) == id \notin spent

Consume(p) ==
  /\ pc[p] = "checked"
  /\ MayConsume(held[p])
  /\ spent' = spent \cup {held[p]}
  /\ Goto(p, "cleared")
  /\ UNCHANGED <<world, pending, ticket, history, crashes, held, receipt, seen, reason>>

AlreadyConsumed(p) ==
  /\ pc[p] = "checked"
  /\ ~MayConsume(held[p])
  /\ Leave(p)
  /\ UNCHANGED <<world, files, history, crashes>>

RunCall(p) ==
  /\ pc[p] = "cleared"
  /\ ran' = [ran EXCEPT ![held[p]] = Append(@, seen[p])]
  /\ Leave(p)
  /\ UNCHANGED <<world, files, crashes, consent>>

--------------------------------------------------------------------------------
(* The world *)

Crash(p) ==
  /\ pc[p] # "idle"
  /\ crashes < MaxCrashes
  /\ crashes' = crashes + 1
  /\ Leave(p)
  /\ UNCHANGED <<world, files, history>>

\* Profile and shell risk rules can be edited at any time, ...
EditPolicy(c, decision) ==
  /\ policy[c] # decision
  /\ policy' = [policy EXCEPT ![c] = decision]
  /\ UNCHANGED <<rules, active, files, locals, history, crashes>>

\* ... the rule file, ...
EditRules(r) ==
  /\ rules # r
  /\ rules' = r
  /\ UNCHANGED <<policy, active, files, locals, history, crashes>>

\* ... and the registry of identities.
SwitchIdentity(a) ==
  /\ active # a
  /\ active' = a
  /\ UNCHANGED <<policy, rules, files, locals, history, crashes>>

Step(p) ==
  \/ \E c \in Calls : Ask(p, c)
  \/ CreatePending(p) \/ FillPending(p) \/ FindPending(p) \/ PendingConflict(p)
  \/ SayYes(p) \/ SayNo(p)
  \/ \E id, signed \in ApprovalIds : BringTicket(p, id, signed)
  \/ CheckAgain(p) \/ Refuse(p)
  \/ Consume(p) \/ AlreadyConsumed(p) \/ RunCall(p)
  \/ Crash(p)

World ==
  \/ \E id \in ApprovalIds : SignTicket(id) \/ TicketExpires(id)
  \/ \E c \in Calls, d \in Decisions : EditPolicy(c, d)
  \/ \E r \in Rules : EditRules(r)
  \/ \E a \in Agents : SwitchIdentity(a)

Next == World \/ \E p \in Procs : Step(p)

Spec == Init /\ [][Next]_vars

--------------------------------------------------------------------------------
(* Properties *)

Steps == {"idle", "asking", "filling", "prompt", "resuming", "checked", "cleared"}

\* Every variable stays in its type; a process away from idle holds an id.
TypeOK ==
  /\ policy \in [Calls -> Decisions]
  /\ rules \in Rules
  /\ active \in Agents
  /\ pending \in [ApprovalIds -> {"none", "torn"} \cup Rules]
  /\ ticket \in [ApprovalIds -> {"none", "fresh", "expired"}]
  /\ spent \subseteq ApprovalIds
  /\ crashes \in 0 .. MaxCrashes
  /\ pc \in [Procs -> Steps]
  /\ held \in [Procs -> ApprovalIds \cup {NoId}]
  /\ receipt \in [Procs -> ApprovalIds \cup {NoId}]
  /\ seen \in [Procs -> Decisions]
  /\ reason \in [Procs -> {"none"} \cup Rules]
  /\ consent \subseteq ApprovalIds
  /\ ran \in [ApprovalIds -> Seq(Decisions)]
  /\ \A p \in Procs : pc[p] # "idle" => held[p] \in ApprovalIds
  /\ \A p \in Procs : pc[p] \in {"asking", "filling", "prompt"} => reason[p] \in Rules

\* An approval runs its call at most once, however many prompts, tickets and
\* commands bring a yes at the same time, and whoever dies in between
\* (persist_approval_consumption).
OncePerApproval == \A id \in ApprovalIds : Len(ran[id]) <= 1

\* What was run is what the operator said yes to: a ticket signed for one call
\* never runs another (validate_approval_receipt).
ConsentedTo == \A id \in ApprovalIds : ran[id] # <<>> => id \in consent

\* A call is run on a decision that still takes it for the kind of action the
\* operator was shown, whatever was edited between asking and resuming
\* (resume_pending_tool_call_with_registry_and_ledger).
RanAsShown == \A id \in ApprovalIds : \A i \in DOMAIN ran[id] : ran[id][i] = id.kind

\* A call runs only on a yes to that very call, as the kind of action it was shown as.
RunsAsApproved == ConsentedTo /\ RanAsShown

\* The operator is only asked about a call whose pending file is complete and
\* tells the reason this turn was given, also when two turns ask about the same
\* call at once (persist_pending_approval).
PromptIsDurable == \A p \in Procs : pc[p] = "prompt" => pending[held[p]] = reason[p]

Filled(id) == \E p \in Procs : pc[p] = "filling" /\ held[p] = id

\* Without a crash no yes is lost: an approval is spent only by a command that
\* goes on to run it, and a pending file is left incomplete by nobody.
StuckOnlyByCrash ==
  crashes = 0 =>
    \A id \in ApprovalIds :
      /\ id \in spent /\ ran[id] = <<>> => \E p \in Procs : pc[p] = "cleared" /\ held[p] = id
      /\ pending[id] = "torn" => Filled(id)

\* A command that dies between the marker and the run has spent the approval:
\* the marker stays and the call is never run for it afterwards.
SpentForGood ==
  [][/\ spent \subseteq spent'
     /\ \A id \in spent :
          (\A p \in Procs : pc[p] = "cleared" => held[p] # id) => ran'[id] = ran[id]]_vars

Abandoned(id) == pending[id] = "torn" /\ ~Filled(id)

\* What a pending file says stands, and one whose writer died stays torn: no
\* later turn can complete or replace it, so that call cannot be asked about
\* again (persist_pending_approval, create_new).
PendingStands ==
  [][\A id \in ApprovalIds :
       /\ Abandoned(id) => Abandoned(id)'
       /\ pending[id] \in Rules => pending'[id] = pending[id]]_vars
================================================================================
