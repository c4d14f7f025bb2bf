------------------------------ MODULE RuleEvolution ------------------------------
(***************************************************************************)
(* The outer loop that runs after a turn: what its tools did is added to   *)
(* the stream of observed events, a failure that repeats becomes a         *)
(* proposal for the rule about it, governance checks the evidence, and the *)
(* rule file is rewritten and the change journaled.  A change can be       *)
(* rolled back from the journal.  Rules, stream and journal are files that *)
(* several processes, and the operator, read and write without a lock.     *)
(***************************************************************************)
EXTENDS Naturals, Sequences, FiniteSets, SequencesExt

CONSTANTS
  Turns,        \* turns that end, each in a process of its own
  Rollbacks,    \* processes that roll a change back
  Signatures,   \* kinds of failure, each with a rule of its own
  Batches,      \* what the tools of a turn may have done, in order
  Edits,        \* procedures an operator writes by hand, each once
  MinRepeats,   \* FailureDetectorConfig::min_repeats
  MaxObserved,  \* OBSERVED_EVENTS_MAX, 4096 in the code
  NoRule,
  Fine,         \* an event that is no failure
  MaxMishaps    \* bound: failing writes, processes that die, and processes that
                \* start while another runs

Procs == Turns \cup Rollbacks
Procedures == {"none", "repair"} \cup Edits
Rules == [procedure : Procedures, version : Nat]

ASSUME RuleEvolutionAssumption ==
  /\ MinRepeats \in Nat \ {0} /\ MaxObserved \in Nat \ {0} /\ MaxMishaps \in Nat
  /\ Batches \subseteq Seq(Signatures \cup {Fine}) \ {<<>>}
  /\ Fine \notin Signatures
  /\ Edits \cap {"none", "repair"} = {}
  /\ Turns \cap Rollbacks = {}
  /\ NoRule \notin Rules

Events == [of : Turns, index : Nat, what : Signatures \cup {Fine}]
ChangeIds == [rule : Signatures, last : Events, undo : Nat]
Changes == [id : ChangeIds, old : Procedures, new : Procedures, evidence : SUBSET Events]
Entries == [change : Changes, before : Rules \cup {NoRule}, after : Rules \cup {NoRule}]

VARIABLES
  batch,      \* what the tools of each turn did
  at,         \* the step each process is at
  mem,        \* events each process knows of
  left,       \* events it has still to observe
  patterns,   \* repeated failures it has still to handle
  change,     \* the rule change it is making
  before,     \* content of the rule before it
  version,    \* version it read before writing
  after,      \* content it read back
  copy,       \* journal it read before writing
  observed,   \* observed-events.jsonl
  rules,      \* the rule file of each signature
  journal,    \* rule_changes.jsonl
  mishaps,    \* failures and overlaps so far, up to MaxMishaps
  happened,   \* history: events written to the stream
  byHand,     \* history: the last procedure an operator gave a rule
  disturbed   \* history: "observed" or "changes" if two processes overlapped
              \* there, or one failed or died half-way

private == <<mem, left, patterns, change, before, version, after, copy>>
ruleVars == <<batch, at, mem, left, patterns, change, before, version, after, copy,
          observed, rules, journal, mishaps, happened, byHand, disturbed>>

NoChange == [id |-> "none"]

RulesInit ==
  /\ batch \in [Turns -> Batches]
  /\ at = [p \in Procs |-> "idle"]
  /\ mem = [p \in Procs |-> <<>>]
  /\ left = [p \in Procs |-> <<>>]
  /\ patterns = [p \in Procs |-> <<>>]
  /\ change = [p \in Procs |-> NoChange]
  /\ before = [p \in Procs |-> NoRule]
  /\ version = [p \in Procs |-> 0]
  /\ after = [p \in Procs |-> NoRule]
  /\ copy = [p \in Procs |-> <<>>]
  /\ observed = <<>>
  /\ rules = [s \in Signatures |-> NoRule]
  /\ journal = <<>>
  /\ mishaps = 0
  /\ happened = <<>>
  /\ byHand = [s \in Signatures |-> "none"]
  /\ disturbed = {}

Proceed(p, step) == at' = [at EXCEPT ![p] = step]
Mishap == mishaps < MaxMishaps /\ mishaps' = mishaps + 1
Disturb(what, if) == disturbed' = IF if THEN disturbed \cup {what} ELSE disturbed

\* Fills a file that others may have written to since it was truncated; lines
\* count as equally long.
Overlay(content, over) == content \o SubSeq(over, Len(content) + 1, Len(over))

--------------------------------------------------------------------------------
(* Observing *)

\* What is left of a process that has ended.
Forget(p) ==
  /\ mem' = [mem EXCEPT ![p] = <<>>]
  /\ left' = [left EXCEPT ![p] = <<>>]
  /\ patterns' = [patterns EXCEPT ![p] = <<>>]
  /\ change' = [change EXCEPT ![p] = NoChange]
  /\ before' = [before EXCEPT ![p] = NoRule]
  /\ version' = [version EXCEPT ![p] = 0]
  /\ after' = [after EXCEPT ![p] = NoRule]
  /\ copy' = [copy EXCEPT ![p] = <<>>]

\* What the turn has to tell: the results of its tools, and that it is over.
Stream(t) ==
  [i \in 1..Len(batch[t]) + 1 |->
     [of |-> t, index |-> i, what |-> IF i <= Len(batch[t]) THEN batch[t][i] ELSE Fine]]

Final == {"done", "refused", "failed", "dead"}
Running == {p \in Procs : at[p] \notin Final \cup {"idle"}}

\* The evolver is built when the process starts, and restores the stream.  Who
\* rolls back has seen an entry in the journal.
Start(p) ==
  /\ at[p] = "idle"
  /\ IF Running # {} THEN Mishap ELSE UNCHANGED mishaps
  /\ p \in Rollbacks => journal # <<>>
  /\ mem' = [mem EXCEPT ![p] = observed]
  /\ left' = [left EXCEPT ![p] = IF p \in Turns THEN Stream(p) ELSE <<>>]
  /\ Proceed(p, IF p \in Turns THEN "observe" ELSE "find")
  /\ UNCHANGED <<batch, patterns, change, before, version, after, copy, observed,
                 rules, journal, happened, byHand, disturbed>>

\* Mutant: what is dropped is the newest.
Bounded_Newest(events) ==
  IF Len(events) <= MaxObserved THEN events ELSE SubSeq(events, 1, MaxObserved)
Bounded(events) ==
  IF Len(events) <= MaxObserved THEN events
  ELSE SubSeq(events, Len(events) - MaxObserved + 1, Len(events))

\* An event is appended to the stream; over the limit, the whole file is
\* truncated and written anew.  A failure is a warning.
Observe(t) ==
  /\ at[t] = "observe" /\ left[t] # <<>>
  /\ LET events == Append(mem[t], Head(left[t])) IN
     /\ mem' = [mem EXCEPT ![t] = Bounded(events)]
     /\ left' = [left EXCEPT ![t] = Tail(@)]
     /\ \/ /\ Len(events) <= MaxObserved
           /\ observed' = Append(observed, Head(left[t]))
           /\ happened' = Append(happened, Head(left[t]))
           /\ UNCHANGED <<at, mishaps, disturbed>>
        \/ /\ Len(events) > MaxObserved
           /\ observed' = <<>>
           /\ Disturb("observed", observed # mem[t])
           /\ Proceed(t, "refill")
           /\ UNCHANGED <<mishaps, happened>>
        \/ /\ Mishap
           /\ Disturb("observed", TRUE)
           /\ UNCHANGED <<at, observed, happened>>
  /\ UNCHANGED <<batch, patterns, change, before, version, after, copy, rules, journal, byHand>>

Refill(t) ==
  /\ at[t] = "refill"
  /\ \/ /\ observed' = Overlay(mem[t], observed)
        /\ happened' = Append(happened, Last(mem[t]))
        /\ Disturb("observed", observed # <<>>)
        /\ UNCHANGED mishaps
     \/ Mishap /\ Disturb("observed", TRUE) /\ UNCHANGED <<observed, happened>>
  /\ Proceed(t, "observe")
  /\ UNCHANGED <<batch, private, rules, journal, byHand>>

--------------------------------------------------------------------------------
(* Detecting and proposing *)

\* The places of the failures of a kind; mutant: all failures are of one kind.
Failures_Any(events, s) == {i \in DOMAIN events : events[i].what # Fine}
Failures(events, s) == {i \in DOMAIN events : events[i].what = s}

Repeated(events, s) == Cardinality(Failures(events, s)) >= MinRepeats

Detect(t) ==
  /\ at[t] = "observe" /\ left[t] = <<>>
  /\ LET found == SetToSeq({s \in Signatures : Repeated(mem[t], s)}) IN
     IF found = <<>>
     THEN Proceed(t, "done") /\ Forget(t)
     ELSE /\ Proceed(t, "propose")
          /\ patterns' = [patterns EXCEPT ![t] = found]
          /\ UNCHANGED <<mem, left, change, before, version, after, copy>>
  /\ UNCHANGED <<batch, observed, rules, journal, mishaps, happened, byHand, disturbed>>

Procedure(s) == IF rules[s] = NoRule THEN "none" ELSE rules[s].procedure

\* Between looking at the rule and having journaled the change to it.
Changing(p) ==
  at[p] \in {"before", "version", "truncate", "fill", "reread", "load", "cut", "append"}

\* The change is prepared, and governance finds its evidence in what the process
\* knows; a change that it refuses is passed over.
Approved(p, c) ==
  /\ c.evidence \subseteq {e \in ToSet(mem[p]) : e.what # Fine}
  /\ Cardinality(c.evidence) >= MinRepeats

Prepare(p, c) ==
  /\ change' = [change EXCEPT ![p] = c]
  /\ Disturb("changes", \E q \in Procs \ {p} : Changing(q))
  /\ Proceed(p, "before")

Propose(t) ==
  /\ at[t] = "propose"
  /\ LET s == Head(patterns[t])
         failures == Failures(mem[t], s)
         c == [id |-> [rule |-> s, last |-> mem[t][Max(failures)], undo |-> 0],
               old |-> Procedure(s), new |-> "repair",
               evidence |-> {mem[t][i] : i \in failures}]
     IN Approved(t, c) /\ Prepare(t, c)
  /\ UNCHANGED <<batch, mem, left, patterns, before, version, after, copy, observed,
                 rules, journal, mishaps, happened, byHand>>

--------------------------------------------------------------------------------
(* Rolling back *)

\* The places of the entries about a change.
Places(entries, id) == {i \in DOMAIN entries : entries[i].change.id = id}

\* RuleChangeJournal::find; mutant: the last entry of that name.
Find_Last(entries, id) == Max(Places(entries, id))
Find(entries, id) == Min(Places(entries, id))

\* The old procedure becomes the new one.  A creation is not rolled back, as there
\* is nothing to go back to.
FindEntry(b) ==
  /\ at[b] = "find"
  /\ \E i \in DOMAIN journal :
       LET c == journal[Find(journal, journal[i].change.id)].change
           back == [id |-> [c.id EXCEPT !.undo = @ + 1], old |-> c.new, new |-> c.old,
                    evidence |-> c.evidence]
       IN IF c.old # "none" /\ Approved(b, back)
          THEN Prepare(b, back) /\ UNCHANGED <<mem, left, patterns, before, version, after, copy>>
          ELSE Proceed(b, "refused") /\ Forget(b) /\ UNCHANGED disturbed
  /\ UNCHANGED <<batch, observed, rules, journal, mishaps, happened, byHand>>

--------------------------------------------------------------------------------
(* Applying *)

Target(p) == change[p].id.rule

\* The change is over, for better or worse; the next pattern follows.
Leave(p, result) ==
  IF Len(patterns[p]) > 1
  THEN /\ patterns' = [patterns EXCEPT ![p] = Tail(@)]
       /\ change' = [change EXCEPT ![p] = NoChange]
       /\ before' = [before EXCEPT ![p] = NoRule]
       /\ version' = [version EXCEPT ![p] = 0]
       /\ after' = [after EXCEPT ![p] = NoRule]
       /\ copy' = [copy EXCEPT ![p] = <<>>]
       /\ Proceed(p, "propose")
       /\ UNCHANGED <<mem, left>>
  ELSE Forget(p) /\ Proceed(p, IF p \in Rollbacks THEN result ELSE "done")

ReadBefore(p) ==
  /\ at[p] = "before"
  /\ before' = [before EXCEPT ![p] = rules[Target(p)]]
  /\ Proceed(p, "version")
  /\ UNCHANGED <<batch, mem, left, patterns, change, version, after, copy, observed,
                 rules, journal, mishaps, happened, byHand, disturbed>>

VersionAfter(content) == content.version + 1

\* solidify_with_receipt; what an operator wrote may score too low to be written.
ReadVersion(p) ==
  /\ at[p] = "version"
  /\ LET content == rules[Target(p)] IN
     version' = [version EXCEPT ![p] = IF content = NoRule THEN 1 ELSE VersionAfter(content)]
  /\ Proceed(p, "truncate")
  /\ UNCHANGED <<batch, mem, left, patterns, change, before, after, copy, observed,
                 rules, journal, mishaps, happened, byHand, disturbed>>

ScoresTooLow(p) ==
  /\ at[p] = "version"
  /\ change[p].new \in Edits
  /\ Leave(p, "refused")
  /\ UNCHANGED <<batch, observed, rules, journal, mishaps, happened, byHand, disturbed>>

\* An empty file is a rule without a procedure, of version 1.
TruncateRule(p) ==
  /\ at[p] = "truncate"
  /\ rules' = [rules EXCEPT ![Target(p)] = [procedure |-> "none", version |-> 1]]
  /\ Proceed(p, "fill")
  /\ UNCHANGED <<batch, private, observed, journal, mishaps, happened, byHand, disturbed>>

FillRule(p) ==
  /\ at[p] = "fill"
  /\ rules' = [rules EXCEPT ![Target(p)] = [procedure |-> change[p].new, version |-> version[p]]]
  /\ Proceed(p, "reread")
  /\ UNCHANGED <<batch, private, observed, journal, mishaps, happened, byHand, disturbed>>

ReadAfter(p) ==
  /\ at[p] = "reread"
  /\ after' = [after EXCEPT ![p] = rules[Target(p)]]
  /\ Proceed(p, "load")
  /\ UNCHANGED <<batch, mem, left, patterns, change, before, version, copy, observed,
                 rules, journal, mishaps, happened, byHand, disturbed>>

\* RuleChangeJournal::append reads the journal, truncates it ...
ReadJournal(p) ==
  /\ at[p] = "load"
  /\ copy' = [copy EXCEPT ![p] = journal]
  /\ Proceed(p, "cut")
  /\ UNCHANGED <<batch, mem, left, patterns, change, before, version, after, observed,
                 rules, journal, mishaps, happened, byHand, disturbed>>

TruncateJournal(p) ==
  /\ at[p] = "cut"
  /\ journal' = <<>>
  /\ Proceed(p, "append")
  /\ UNCHANGED <<batch, private, observed, rules, mishaps, happened, byHand, disturbed>>

\* Mutant: the content after the change is not read back.
Entry_Unread(p) == [change |-> change[p], before |-> before[p], after |-> before[p]]
\* Mutant: what was there is taken from the journal.
Entry_Assumed(p) ==
  LET trail == SelectSeq(copy[p], LAMBDA e : e.change.id.rule = Target(p))
  IN [change |-> change[p], before |-> IF trail = <<>> THEN NoRule ELSE Last(trail).after,
      after |-> after[p]]
Entry(p) == [change |-> change[p], before |-> before[p], after |-> after[p]]

Journaled(p) == Append(copy[p], Entry(p))

\* ... and writes all of it with one more entry.
FillJournal(p) ==
  /\ at[p] = "append"
  /\ journal' = Overlay(Journaled(p), journal)
  /\ Leave(p, "done")
  /\ UNCHANGED <<batch, observed, rules, mishaps, happened, byHand, disturbed>>

\* A failing write ends the change, not the turn.
SaveFails(p) ==
  /\ at[p] \in {"truncate", "fill", "cut", "append"}
  /\ Mishap
  /\ Disturb("changes", at[p] # "truncate")
  /\ Leave(p, "failed")
  /\ UNCHANGED <<batch, observed, rules, journal, happened, byHand>>

--------------------------------------------------------------------------------
Dies(p) ==
  /\ p \in Running
  /\ Mishap
  /\ Proceed(p, "dead")
  /\ Forget(p)
  /\ disturbed' = disturbed \cup (IF at[p] = "refill" THEN {"observed"} ELSE {})
                    \cup (IF at[p] \in {"fill", "reread", "load", "cut", "append"}
                          THEN {"changes"} ELSE {})
  /\ UNCHANGED <<batch, observed, rules, journal, happened, byHand>>

\* An operator gives a rule that is there a procedure that is not written anywhere
\* yet.
Edit(s, e) ==
  /\ rules[s] # NoRule
  /\ e \notin {Procedure(r) : r \in Signatures} \cup {byHand[r] : r \in Signatures}
  /\ \A i \in DOMAIN journal : journal[i].change.old # e /\ journal[i].change.new # e
  /\ rules' = [rules EXCEPT ![s] = [procedure |-> e,
                                    version |-> @.version]]
  /\ byHand' = [byHand EXCEPT ![s] = e]
  /\ Disturb("changes", \E p \in Procs : Changing(p))
  /\ UNCHANGED <<batch, at, private, observed, journal, mishaps, happened>>

Apply(p) ==
  \/ ReadBefore(p) \/ ReadVersion(p) \/ ScoresTooLow(p) \/ TruncateRule(p) \/ FillRule(p)
  \/ ReadAfter(p) \/ ReadJournal(p) \/ TruncateJournal(p) \/ FillJournal(p) \/ SaveFails(p)

RulesNext ==
  \/ \E p \in Procs : Start(p) \/ Apply(p) \/ Dies(p)
  \/ \E t \in Turns : Observe(t) \/ Refill(t) \/ Detect(t) \/ Propose(t)
  \/ \E b \in Rollbacks : FindEntry(b)
  \/ \E s \in Signatures, e \in Edits : Edit(s, e)

RulesSpec == RulesInit /\ [][RulesNext]_ruleVars

--------------------------------------------------------------------------------
(* Properties *)

\* Every variable has the type its comment gives.
RulesTyped ==
  /\ batch \in [Turns -> Batches]
  /\ at \in [Procs -> Final \cup {"idle", "observe", "refill", "propose", "find", "before",
       "version", "truncate", "fill", "reread", "load", "cut", "append"}]
  /\ mem \in [Procs -> Seq(Events)]
  /\ left \in [Procs -> Seq(Events)]
  /\ patterns \in [Procs -> Seq(Signatures)]
  /\ \A p \in Procs : change[p] = NoChange \/ change[p] \in Changes
  /\ before \in [Procs -> Rules \cup {NoRule}]
  /\ version \in [Procs -> Nat]
  /\ after \in [Procs -> Rules \cup {NoRule}]
  /\ copy \in [Procs -> Seq(Entries)]
  /\ observed \in Seq(Events)
  /\ rules \in [Signatures -> Rules \cup {NoRule}]
  /\ journal \in Seq(Entries)
  /\ mishaps \in 0..MaxMishaps
  /\ happened \in Seq(Events)
  /\ byHand \in [Signatures -> {"none"} \cup Edits]
  /\ disturbed \in SUBSET {"observed", "changes"}

\* The stream on disk is what was observed last, at least up to the limit, whatever
\* number of processes append to it, unless one of them rewrote it without
\* knowing what another had appended.
ObservedIsTail ==
  "observed" \notin disturbed /\ (\A t \in Turns : at[t] # "refill")
    => /\ IsSuffix(observed, happened)
       /\ Len(observed) >= MaxObserved \/ observed = happened

\* Files and processes are of their types, and the stream is the tail of what happened.
RulesWellFormed == RulesTyped /\ ObservedIsTail

\* No rule is changed without evidence: every journaled change, and every change
\* under way, cites MinRepeats failures of its kind that some turn met, also
\* a change that is rolled back, and whatever overlaps or dies.
ChangesHaveEvidence ==
  \A c \in {journal[i].change : i \in DOMAIN journal} \cup
           {change[p] : p \in {q \in Procs : change[q] # NoChange}} :
    /\ Cardinality(c.evidence) >= MinRepeats
    /\ \A e \in c.evidence : e.what = c.id.rule /\ e \in ToSet(Stream(e.of))

Still == "changes" \notin disturbed /\ \A p \in Procs : ~Changing(p)

\* The places of the entries about a rule.
Trail(entries, s) == {i \in DOMAIN entries : entries[i].change.id.rule = s}

\* The journal accounts for every change: the last entry of a rule tells its
\* content, and each entry begins where the one before ended, or with what an
\* operator wrote in between.
Audited(entries, s, content) ==
  LET trail == Trail(entries, s)
  IN /\ content # NoRule /\ content.procedure \in {"repair", "none"}
          => \E i \in trail : (\A j \in trail : j <= i) /\ entries[i].after = content
     /\ \A i, j \in trail :
          i < j /\ (\A k \in trail : k <= i \/ j <= k)
            => \/ entries[j].before = entries[i].after
               \/ entries[j].before # NoRule /\ entries[j].before.procedure \in Edits

\* What an operator wrote last is in the rule, or the journal has kept it.
HandKept(entries, s, content, written) ==
  \/ written = "none"
  \/ content # NoRule /\ content.procedure = written
  \/ \E i \in Trail(entries, s) :
       entries[i].before # NoRule /\ entries[i].before.procedure = written

\* The journal accounts for the rules: for every change a turn or a rollback made,
\* and for what operators wrote by hand in between.
JournalAccounts ==
  Still => \A s \in Signatures : /\ Audited(journal, s, rules[s])
                                /\ HandKept(journal, s, rules[s], byHand[s])

\* A rollback of a change that a turn made gives the rule the procedure it had
\* before that change was made first, though the rule may have been written since.
RollbackRestores ==
  [][\A b \in Rollbacks :
       /\ at[b] = "append" /\ at'[b] = "done"
       /\ "changes" \notin disturbed
       /\ change[b].id.undo = 1
       => LET same == Places(journal', [change[b].id EXCEPT !.undo = 0])
          IN \A i \in same :
               (\A j \in same : i <= j)
               => /\ journal'[i].before # NoRule
                  /\ rules[Target(b)].procedure = journal'[i].before.procedure]_ruleVars
================================================================================
