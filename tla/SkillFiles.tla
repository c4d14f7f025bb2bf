------------------------------- MODULE SkillFiles -------------------------------
(***************************************************************************)
(* The file of one skill under data/skills, and the commands that change   *)
(* it: `skill solidify`, `skill retire`, `skill rollback`, and `goal       *)
(* evolve`, which writes first and takes its proposal back if the          *)
(* benchmark does not improve.  A file carries the version it replaced as  *)
(* a quoted snapshot, which quotes the one before, and so on.  Every       *)
(* command reads the file, renders a new one and writes it in place;       *)
(* nothing keeps two commands apart.                                       *)
(***************************************************************************)
EXTENDS Naturals, Sequences, FiniteSets, SequencesExt

CONSTANTS
  Commands,    \* processes that change the skill
  Requests,    \* what each of them may be asked
  NoFile,
  NoText,      \* the body of a file that was empty
  MaxAtWork,   \* bound: commands that are at work at the same time
  MaxFaults    \* bound: failing writes and processes that die

Ops == {"solidify", "deprecated", "retired", "rollback", "evolve"}

ASSUME SkillFilesAssumption ==
  /\ Requests \subseteq [op : Ops, gate : BOOLEAN]
  /\ MaxFaults \in Nat /\ MaxAtWork \in Nat \ {0}
  /\ NoFile \notin Nat
  /\ NoText \notin Commands

VARIABLES
  asked,       \* the operation of each command, and whether a benchmark decides
  pc,          \* the step each command is at
  rendered,    \* contents rendered so far; a content is known by its place here
  file,        \* the content in the file, 0 if it is empty, or NoFile
  draft,       \* what each command is about to write
  original,    \* what goal evolve saw before it wrote
  verdict,     \* what the benchmark said to each command
  faults,      \* failures so far, up to MaxFaults
  published,   \* history: contents written to the file and not taken back
  upset        \* history: two commands overlapped, or a write was cut off

vars == <<asked, pc, rendered, file, draft, original, verdict, faults, published, upset>>

Init ==
  /\ asked \in [Commands -> Requests]
  /\ pc = [c \in Commands |-> "idle"]
  /\ rendered = <<>>
  /\ file = NoFile
  /\ draft = [c \in Commands |-> 0]
  /\ original = [c \in Commands |-> NoFile]
  /\ verdict = [c \in Commands |-> "none"]
  /\ faults = 0
  /\ published = {}
  /\ upset = FALSE

--------------------------------------------------------------------------------
(* Contents *)

\* What a command finds in a file: whose proposal it describes, its front
\* matter, and the snapshots in it, in the order of the text.
Blank == [text |-> NoText, version |-> 0, status |-> "active", snaps |-> <<>>]
Content(i) == IF i \in DOMAIN rendered THEN rendered[i] ELSE Blank

\* render_previous_version_snapshot; mutant: nothing is quoted.
Quoted_Never(i) == <<>>
Quoted(i) == IF i \in DOMAIN rendered THEN <<i>> ELSE <<>>

\* extract_previous_version_snapshot: the text from the first begin marker to the
\* first end marker.  A snapshot that has snapshots itself brings an end
\* marker of its own, and what is cut off there cannot be decoded.
Extractable(i) ==
  LET snaps == Content(i).snaps
  IN IF snaps = <<>> \/ Content(Head(snaps)).snaps # <<>> THEN NoFile ELSE Head(snaps)

\* extract_skill_version and one more.
NextVersion(i) == Content(i).version + 1

Solidified(c, i) ==
  [text |-> c, version |-> NextVersion(i), status |-> "active", snaps |-> Quoted(i)]

\* The body stays as it is, with the snapshots in it.
Retired(i, status) ==
  [text |-> Content(i).text, version |-> NextVersion(i), status |-> status,
   snaps |-> Content(i).snaps \o Quoted(i)]

\* Mutant: the version is that of the snapshot.
RolledBackVersion_Old(i) == Content(Extractable(i)).version
RolledBackVersion(i) == NextVersion(i)

RolledBack(i) ==
  LET s == Content(Extractable(i))
  IN [text |-> s.text, version |-> RolledBackVersion(i), status |-> "active",
      snaps |-> s.snaps \o Quoted(i)]

\* Contents that another one holds, in whatever depth of quotation.
Held[i \in 0..Len(rendered)] ==
  {i} \cup UNION {Held[s] : s \in ToSet(Content(i).snaps)}

--------------------------------------------------------------------------------
(* The commands *)

Goto(c, step) == pc' = [pc EXCEPT ![c] = step]
Fault == faults < MaxFaults /\ faults' = faults + 1

\* Between reading the file and the end of what follows from it.
AtWork(c) ==
  \/ pc[c] \in {"truncate", "fill", "verify", "restore", "refill", "remove", "adrift"}
  \/ asked[c].op = "evolve" /\ pc[c] = "read"

Enter(c) ==
  LET others == {d \in Commands \ {c} : AtWork(d)} IN
  /\ Cardinality(others) < MaxAtWork
  /\ upset' = (upset \/ others # {})

\* The proposal is scored, and a solidify that asked for it must improve the
\* benchmark before anything is written.  goal evolve is scored here too, its
\* benchmark comes later.
Judge(c) ==
  /\ pc[c] = "idle" /\ asked[c].op \in {"solidify", "evolve"}
  /\ \/ /\ Goto(c, IF asked[c].op = "evolve" THEN "original" ELSE "read")
        /\ verdict' = IF asked[c].op = "solidify" /\ asked[c].gate
                      THEN [verdict EXCEPT ![c] = "passed"] ELSE verdict
     \/ Goto(c, "refused") /\ UNCHANGED verdict
  /\ UNCHANGED <<asked, rendered, file, draft, original, faults, published, upset>>

\* goal evolve keeps what was there.
KeepOriginal(c) ==
  /\ pc[c] = "original"
  /\ original' = [original EXCEPT ![c] = file]
  /\ Enter(c)
  /\ Goto(c, "read")
  /\ UNCHANGED <<asked, rendered, file, draft, verdict, faults, published>>

Render(c, content) ==
  /\ rendered' = Append(rendered, content)
  /\ draft' = [draft EXCEPT ![c] = Len(rendered) + 1]
  /\ Enter(c)
  /\ Goto(c, "truncate")

ReadToSolidify(c) ==
  /\ pc[c] = "read"
  /\ Render(c, Solidified(c, file))
  /\ UNCHANGED <<asked, file, original, verdict, faults, published>>

ReadToRetire(c) ==
  /\ pc[c] = "idle" /\ asked[c].op \in {"deprecated", "retired"}
  /\ IF file = NoFile
     THEN Goto(c, "refused") /\ UNCHANGED <<rendered, draft, upset>>
     ELSE Render(c, Retired(file, asked[c].op))
  /\ UNCHANGED <<asked, file, original, verdict, faults, published>>

ReadToRollBack(c) ==
  /\ pc[c] = "idle" /\ asked[c].op = "rollback"
  /\ IF file = NoFile \/ Extractable(file) = NoFile
     THEN Goto(c, "refused") /\ UNCHANGED <<rendered, draft, upset>>
     ELSE Render(c, RolledBack(file))
  /\ UNCHANGED <<asked, file, original, verdict, faults, published>>

Truncate(c) ==
  /\ \/ pc[c] = "truncate" /\ Goto(c, "fill")
     \/ pc[c] = "restore" /\ Goto(c, "refill")
  /\ file' = 0
  /\ UNCHANGED <<asked, rendered, draft, original, verdict, faults, published, upset>>

\* Where goal evolve goes when its skill is written; mutant: the benchmark is
\* forgotten.
Written_Unverified(c) == "done"
Written(c) == IF asked[c].op = "evolve" /\ asked[c].gate THEN "verify" ELSE "done"

\* What is written over the text of another command, from its beginning on, may
\* leave some of its last snapshots behind; this only happens to commands that
\* overlap.
Fill(c) ==
  /\ pc[c] = "fill"
  /\ file' = draft[c]
  /\ \/ UNCHANGED rendered
     \/ \E k \in DOMAIN Content(file).snaps :
          rendered' = [rendered EXCEPT ![draft[c]].snaps = @ \o
                         SubSeq(Content(file).snaps, k, Len(Content(file).snaps))]
  /\ published' = published \cup {draft[c]}
  /\ Goto(c, Written(c))
  /\ UNCHANGED <<asked, draft, original, verdict, faults, upset>>

\* Where goal evolve goes when the benchmark did not improve.
TakenBack(c) == IF original[c] = NoFile THEN "remove" ELSE "restore"

\* The score board may be unreadable, which ends the command as it is.
Verify(c) ==
  /\ pc[c] = "verify"
  /\ \/ verdict' = [verdict EXCEPT ![c] = "passed"] /\ Goto(c, "done") /\ UNCHANGED faults
     \/ verdict' = [verdict EXCEPT ![c] = "rejected"] /\ Goto(c, TakenBack(c)) /\ UNCHANGED faults
     \/ Fault /\ Goto(c, "unverified") /\ UNCHANGED verdict
  /\ UNCHANGED <<asked, rendered, file, draft, original, published, upset>>

Restore(c) ==
  /\ pc[c] = "refill"
  /\ file' = original[c]
  /\ published' = published \ {draft[c]}
  /\ Goto(c, "reverted")
  /\ UNCHANGED <<asked, rendered, draft, original, verdict, faults, upset>>

\* A file that is removed stays open in the commands that write it.
RemoveCreated(c) ==
  /\ pc[c] = "remove"
  /\ file' = NoFile
  /\ published' = IF file = NoFile THEN published ELSE published \ {draft[c]}
  /\ pc' = [d \in Commands |->
              IF d = c THEN IF file = NoFile THEN "failed" ELSE "reverted"
              ELSE IF pc[d] \in {"fill", "refill"} THEN "adrift" ELSE pc[d]]
  /\ UNCHANGED <<asked, rendered, draft, original, verdict, faults, upset>>

\* What it then writes is nowhere.
FillAdrift(c) ==
  /\ pc[c] = "adrift"
  /\ Goto(c, IF verdict[c] = "rejected" THEN "reverted" ELSE Written(c))
  /\ UNCHANGED <<asked, rendered, file, draft, original, verdict, faults, published, upset>>

Writing(c) == pc[c] \in {"truncate", "fill", "restore", "refill", "remove", "adrift"}
Cut(c) == upset' = (upset \/ pc[c] \in {"fill", "refill"})

WriteFails(c) ==
  /\ Writing(c)
  /\ Fault
  /\ Cut(c)
  /\ Goto(c, "failed")
  /\ UNCHANGED <<asked, rendered, file, draft, original, verdict, published>>

Ends == {"done", "refused", "reverted", "unverified", "failed", "dead"}

Crash(c) ==
  /\ pc[c] \notin Ends \cup {"idle"}
  /\ Fault
  /\ Cut(c)
  /\ Goto(c, "dead")
  /\ UNCHANGED <<asked, rendered, file, draft, original, verdict, published>>

Next ==
  \E c \in Commands :
    \/ Judge(c) \/ KeepOriginal(c)
    \/ ReadToSolidify(c) \/ ReadToRetire(c) \/ ReadToRollBack(c)
    \/ Truncate(c) \/ Fill(c) \/ Verify(c) \/ Restore(c)
    \/ RemoveCreated(c) \/ FillAdrift(c)
    \/ WriteFails(c) \/ Crash(c)

Spec == Init /\ [][Next]_vars

--------------------------------------------------------------------------------
(* Properties *)

\* Every variable has the type its comment gives; a content only quotes contents
\* that were rendered.
TypeOK ==
  /\ asked \in [Commands -> Requests]
  /\ pc \in [Commands -> Ends \cup {"idle", "original", "read", "truncate", "fill",
                                    "verify", "restore", "refill", "remove", "adrift"}]
  /\ rendered \in Seq([text : Commands \cup {NoText}, version : Nat,
                       status : {"active", "deprecated", "retired"},
                       snaps : Seq(DOMAIN rendered)])
  /\ file \in 0..Len(rendered) \cup {NoFile}
  /\ draft \in [Commands -> 0..Len(rendered)]
  /\ original \in [Commands -> 0..Len(rendered) \cup {NoFile}]
  /\ verdict \in [Commands -> {"none", "passed", "rejected"}]
  /\ faults \in 0..MaxFaults
  /\ published \in SUBSET (DOMAIN rendered)
  /\ upset \in BOOLEAN

\* Nobody is in the middle of writing, and nobody ever was when another began.
Calm == ~upset /\ \A c \in Commands : pc[c] \notin {"fill", "refill"}

\* docs/implementation-prep-v1.md: no version of a skill is deleted, and what
\* goal evolve took back leaves no trace.  Retired, rolled back and replaced
\* versions are all still quoted in the file, and nothing else is.
HistoryIsWhole ==
  Calm => published = IF file = NoFile THEN {} ELSE Held[file]

\* A version number names one content, the highest is that of the file, and
\* neither a rollback nor a reverted evolution hands it out again.
VersionsGrow ==
  Calm => \A i, j \in published :
            /\ i # j => Content(i).version # Content(j).version
            /\ Content(i).version <= Content(file).version

\* Commands and files are of their types, and version numbers name one content each.
SkillWellFormed == TypeOK /\ VersionsGrow

\* A proposal that had to improve the benchmark and did not is in the file, or
\* quoted in it, only while goal evolve is at it, or if it died, could not
\* take it back, or never learned the score.
GateHolds ==
  \A c \in Commands :
    /\ Calm /\ asked[c].gate /\ file # NoFile
    /\ \E i \in Held[file] : Content(i).text = c
    => \/ verdict[c] = "passed"
       \/ pc[c] \in {"verify", "restore", "remove", "unverified", "failed", "dead"}

\* docs/implementation-prep-v1.md: a rollback restores from the snapshot that
\* was kept.  The snapshot it finds is the version that the last command replaced.
UndoIsThere ==
  Calm /\ file # NoFile /\ Content(file).snaps # <<>>
    => Extractable(file) = Last(Content(file).snaps)
================================================================================
