---------------------------- MODULE EvolutionProofs ----------------------------
(***************************************************************************)
(* What holds of the files that evolve, for any number of processes,       *)
(* contents and faults.                                                    *)
(*                                                                         *)
(* Of a skill's file (SkillFiles): no published version is lost, no        *)
(* version number is used twice, and what the benchmark did not pass does  *)
(* not stay.  Held is a recursive function, so it first has to be shown    *)
(* that it meets its equation: contents quote older ones only, and a       *)
(* smallest number with a given property takes the place of an induction.  *)
(*                                                                         *)
(* Of the rules, their journal and the stream of events (RuleEvolution):   *)
(* no rule changes without evidence, the stream is the tail of what        *)
(* happened, the journal accounts for the rules, and a rollback restores.  *)
(*                                                                         *)
(* The invariants are about processes that never overlapped and writes     *)
(* that were never cut off; with one or the other only types and evidence  *)
(* are left.                                                               *)
(***************************************************************************)
EXTENDS SkillFiles, RuleEvolution, SequenceTheorems, FiniteSetTheorems,
        WellFoundedInduction, TLAPS

(***************************************************************************)
(* Contents that a content holds                                           *)
(***************************************************************************)

\* A set of numbers that is not empty has a smallest one.
LEMMA SmallestNat ==
  ASSUME NEW T, T \subseteq Nat, T # {}
  PROVE  \E n \in T : \A m \in T : n <= m
<1>1. IsWellFoundedOn(OpToRel(<, Nat), Nat)
  BY NatLessThanWellFounded
<1>2. PICK x \in T : \A y \in T : ~ (<<y, x>> \in OpToRel(<, Nat))
  BY <1>1, WFMin
<1>3. \A y \in T : ~(y < x)
  BY <1>2 DEF OpToRel
<1> QED
  BY <1>3

\* The shape of Held for n contents that quote Q.
Holds(h, n, Q) == h = [i \in 0..n |-> {i} \cup UNION {h[s] : s \in Q[i]}]

\* There is such a function if every content quotes older ones.
LEMMA HeldExists ==
  ASSUME NEW n \in Nat, NEW Q,
         \A i \in 0..n : \A s \in Q[i] : s \in 0..i - 1
  PROVE  \E h : Holds(h, n, Q)
<1> DEFINE T == {m \in 0..n : ~ \E h : Holds(h, m, Q)}
<1>1. SUFFICES ASSUME T # {} PROVE FALSE
  BY <1>1
<1>2. PICK k \in T : \A m \in T : k <= m
  <2>1. T \subseteq Nat
    OBVIOUS
  <2> HIDE DEF T
  <2> QED
    BY <1>1, <2>1, SmallestNat
<1>3. k \in 0..n /\ ~ \E h : Holds(h, k, Q)
  BY <1>2
<1>4. CASE k = 0
  <2> DEFINE h == [i \in 0..0 |-> {0}]
  <2>1. Q[0] = {}
    BY <1>4
  <2>2. Holds(h, 0, Q)
    BY <2>1 DEF Holds
  <2> QED
    BY <1>3, <1>4, <2>2
<1>5. CASE k > 0
  <2>1. PICK h : Holds(h, k - 1, Q)
    BY <1>2, <1>3, <1>5
  <2> DEFINE g == [i \in 0..k |-> IF i = k THEN {k} \cup UNION {h[s] : s \in Q[k]} ELSE h[i]]
  <2>2. ASSUME NEW i \in 0..k PROVE g[i] = {i} \cup UNION {g[s] : s \in Q[i]}
    <3>1. \A s \in Q[i] : s \in 0..k - 1 /\ g[s] = h[s]
      BY <1>3
    <3>2. {g[s] : s \in Q[i]} = {h[s] : s \in Q[i]}
      BY <3>1
    <3>3. CASE i = k
      BY <3>2, <3>3
    <3>4. CASE i # k
      <4>1. i \in 0..k - 1
        BY <1>3, <3>4
      <4>2. h[i] = {i} \cup UNION {h[s] : s \in Q[i]}
        BY <2>1, <4>1 DEF Holds
      <4> QED
        BY <3>2, <3>4, <4>2
    <3> QED
      BY <3>3, <3>4
  <2>3. g = [i \in 0..k |-> g[i]]
    OBVIOUS
  <2> HIDE DEF g
  <2>4. Holds(g, k, Q)
    BY <2>2, <2>3 DEF Holds
  <2> QED
    BY <1>3, <2>4
<1> QED
  BY <1>3, <1>4, <1>5

\* The same on numbers of contents only, leaving out the empty file.
Earlier(n, Q) == \A i \in 1..n : \A s \in Q[i] : s \in 1..i - 1
Solves(h, n, Q) == \A i \in 1..n : h[i] = {i} \cup UNION {h[s] : s \in Q[i]}

\* Nothing newer is held.
LEMMA HeldBelow ==
  ASSUME NEW n \in Nat, NEW Q, NEW h, Earlier(n, Q), Solves(h, n, Q)
  PROVE  \A i \in 1..n : h[i] \subseteq 1..i
<1> USE DEF Earlier, Solves
<1> DEFINE T == {m \in 1..n : ~ (h[m] \subseteq 1..m)}
<1>1. SUFFICES ASSUME T # {} PROVE FALSE
  BY <1>1
<1>2. PICK k \in T : \A m \in T : k <= m
  <2>1. T \subseteq Nat
    OBVIOUS
  <2> HIDE DEF T
  <2> QED
    BY <1>1, <2>1, SmallestNat
<1>3. \A s \in Q[k] : h[s] \subseteq 1..k
  <2> TAKE s \in Q[k]
  <2>1. s \in 1..n /\ s < k
    BY <1>2
  <2>2. h[s] \subseteq 1..s
    BY <1>2, <2>1
  <2> QED
    BY <2>1, <2>2
<1> QED
  BY <1>2, <1>3

\* Two such functions agree.
LEMMA HeldAgree ==
  ASSUME NEW n \in Nat, NEW Q, NEW h, NEW g,
         Earlier(n, Q), Solves(h, n, Q), Solves(g, n, Q)
  PROVE  \A i \in 1..n : h[i] = g[i]
<1> USE DEF Earlier, Solves
<1> DEFINE T == {m \in 1..n : h[m] # g[m]}
<1>1. SUFFICES ASSUME T # {} PROVE FALSE
  BY <1>1
<1>2. PICK k \in T : \A m \in T : k <= m
  <2>1. T \subseteq Nat
    OBVIOUS
  <2> HIDE DEF T
  <2> QED
    BY <1>1, <2>1, SmallestNat
<1>3. \A s \in Q[k] : h[s] = g[s]
  BY <1>2
<1>4. {h[s] : s \in Q[k]} = {g[s] : s \in Q[k]}
  BY <1>3
<1> QED
  BY <1>2, <1>4

(***************************************************************************)
(* The invariant: when no two commands overlapped and no write was cut     *)
(* off, one command at most is at work, and what it works with is what was *)
(* published.                                                              *)
(***************************************************************************)

\* A content that the file may be in: its number, or none.
Whole(f) == IF f = NoFile THEN {} ELSE Held[f]

Filling == {"fill", "refill"}
Judged == {"verify", "restore", "refill", "remove"}
Drafted == {"truncate", "fill"} \cup Judged

\* A command that is at work on a content has rendered it, and only one that
\* proposes something has steps before that.
Begun ==
  \A c \in Commands :
    /\ pc[c] \in Drafted \cup {"adrift"} => draft[c] \in DOMAIN rendered
    /\ pc[c] \in {"original", "read"} => asked[c].op \in {"solidify", "evolve"}

\* One command is at work.
Serial ==
  /\ \A c, d \in Commands : AtWork(c) /\ AtWork(d) => c = d
  /\ \A c \in Commands : pc[c] # "adrift"

\* Contents quote older contents.
Ordered == \A i \in DOMAIN rendered : \A s \in ToSet(rendered[i].snaps) : s \in 1 .. i - 1

\* The file is empty while it is being filled.
EmptyToFill ==
  /\ \A c \in Commands : pc[c] \in Filling => file = 0
  /\ (\A c \in Commands : pc[c] \notin Filling) => file # 0

\* What was published is what the file holds, with one version number for each and
\* the highest for the file itself.
Versioned(f, set) == \A i \in set : Content(i).version <= Content(f).version

Kept ==
  /\ \A i, j \in published : i # j => Content(i).version # Content(j).version
  /\ (\A c \in Commands : pc[c] \notin Filling) => published = Whole(file) /\ Versioned(file, published)

\* goal evolve knows what it replaces.
Replaces(c, set) ==
  /\ original[c] # 0
  /\ set = Whole(original[c])
  /\ Versioned(original[c], set)
  /\ draft[c] \notin set

\* A draft holds what was published, and is newer.
Drafting(c) ==
  /\ draft[c] \notin published
  /\ published = UNION {Held[s] : s \in ToSet(Content(draft[c]).snaps)}
  /\ \A i \in published : Content(i).version < Content(draft[c]).version
  /\ asked[c].op = "evolve" => Replaces(c, published)

\* What is being judged can be taken back.
Judging(c) ==
  /\ asked[c].op = "evolve"
  /\ pc[c] # "refill" => file = draft[c]
  /\ pc[c] \in {"restore", "refill"} => original[c] # NoFile
  /\ pc[c] = "remove" => original[c] = NoFile
  /\ draft[c] \in published /\ Replaces(c, published \ {draft[c]})

AtItsWork(c) ==
  /\ pc[c] \in {"truncate", "fill"} => Drafting(c)
  /\ pc[c] \in Judged => Judging(c)
  /\ asked[c].op = "evolve" /\ pc[c] = "read" => original[c] = file

AtTheirWork == \A c \in Commands : AtItsWork(c)

\* A command is the author of the one content that it proposes, from then on.
Authors ==
  \A c \in Commands, i \in DOMAIN rendered : rendered[i].text = c =>
    /\ asked[c].op \in {"solidify", "evolve"}
    /\ pc[c] \notin {"idle", "original", "read", "refused"}
    /\ pc[c] \in Drafted => i = draft[c]

Passed ==
  \A c \in Commands :
    asked[c].op = "solidify" /\ asked[c].gate /\ pc[c] \notin {"idle", "refused"} => verdict[c] = "passed"

\* A gated proposal may be in the file.
Excused(c) ==
  verdict[c] = "passed" \/ pc[c] \in Judged \cup {"unverified", "failed", "dead"}

Gated ==
  \A c \in Commands : asked[c].gate =>
    /\ \A i \in published : Content(i).text = c => Excused(c)
    /\ \A d \in Commands :
         pc[d] \in {"truncate", "fill"} /\ Content(draft[d]).text = c => c = d \/ Excused(c)

Orderly == Serial /\ Ordered /\ EmptyToFill /\ Kept /\ AtTheirWork /\ Authors /\ Passed /\ Gated

IInv == TypeOK /\ Begun /\ (~upset => Orderly)

\* Held is what its definition says of it.
LEMMA HeldEquation ==
  TypeOK /\ Ordered =>
    \A i \in DOMAIN rendered : Held[i] = {i} \cup UNION {Held[s] : s \in ToSet(rendered[i].snaps)}
<1> SUFFICES ASSUME TypeOK, Ordered
             PROVE  \A i \in DOMAIN rendered :
                      Held[i] = {i} \cup UNION {Held[s] : s \in ToSet(rendered[i].snaps)}
  OBVIOUS
<1> DEFINE n == Len(rendered)
           Q == [i \in 0..n |-> ToSet(Content(i).snaps)]
<1>1. n \in Nat /\ DOMAIN rendered = 1..n
  BY DEF TypeOK
<1>2. \A i \in 0..n : \A s \in Q[i] : s \in 0..i - 1
  <2> TAKE i \in 0..n
  <2>1. CASE i = 0
    BY <1>1, <2>1 DEF Content, Blank, ToSet
  <2>2. CASE i # 0
    BY <1>1, <2>2 DEF Content, Ordered
  <2> QED
    BY <2>1, <2>2
<1>3. \E h : Holds(h, n, Q)
  <2> HIDE DEF n, Q
  <2> QED
    BY <1>1, <1>2, HeldExists
<1> DEFINE Eq(h) == h = [i \in 0..n |-> {i} \cup UNION {h[s] : s \in ToSet(Content(i).snaps)}]
<1>4. \E h : Eq(h)
  <2>1. PICK h : Holds(h, n, Q)
    BY <1>3
  <2>2. Eq(h)
    BY <2>1 DEF Holds
  <2> QED
    BY <2>2
<1>5. Held = CHOOSE h : Eq(h)
  BY DEF Held
<1>6. Eq(Held)
  <2> HIDE DEF Eq
  <2> QED
    BY <1>4, <1>5
<1>7. ASSUME NEW i \in DOMAIN rendered
      PROVE  Held[i] = {i} \cup UNION {Held[s] : s \in ToSet(rendered[i].snaps)}
  <2>1. i \in 0..n /\ Content(i) = rendered[i]
    BY <1>1 DEF Content
  <2>2. Held[i] = {i} \cup UNION {Held[s] : s \in ToSet(Content(i).snaps)}
    BY <1>6, <2>1
  <2> QED
    BY <2>1, <2>2
<1> QED
  BY <1>7

(***************************************************************************)
(* Types                                                                   *)
(***************************************************************************)

\* Contents that quote members of S.
ContentsQuoting(S) ==
  [text : Commands \cup {NoText}, version : Nat,
   status : {"active", "deprecated", "retired"}, snaps : Seq(S)]

\* What is read in a file is a content, whatever the file.
LEMMA ContentTyped ==
  ASSUME TypeOK
  PROVE  \A i : Content(i) \in ContentsQuoting(DOMAIN rendered)
<1>1. <<>> \in Seq(DOMAIN rendered)
  OBVIOUS
<1>2. Blank \in ContentsQuoting(DOMAIN rendered)
  BY <1>1 DEF Blank, ContentsQuoting
<1>3. \A i \in DOMAIN rendered : rendered[i] \in ContentsQuoting(DOMAIN rendered)
  <2>1. rendered \in Seq(ContentsQuoting(DOMAIN rendered))
    BY DEF TypeOK, ContentsQuoting
  <2> QED
    BY <2>1
<1> QED
  BY <1>2, <1>3 DEF Content

\* What quotes a few quotes more.
LEMMA MoreToQuote ==
  ASSUME NEW S, NEW T, S \subseteq T
  PROVE  ContentsQuoting(S) \subseteq ContentsQuoting(T)
<1>1. Seq(S) \subseteq Seq(T)
  <2> SUFFICES ASSUME NEW s \in Seq(S) PROVE s \in Seq(T)
    OBVIOUS
  <2>1. Len(s) \in Nat /\ DOMAIN s = 1..Len(s) /\ \A i \in 1..Len(s) : s[i] \in T
    OBVIOUS
  <2>2. s = [i \in 1..Len(s) |-> s[i]]
    OBVIOUS
  <2> QED
    BY <2>1, <2>2
<1> QED
  BY <1>1 DEF ContentsQuoting

\* The three renderings are contents.
LEMMA RenderingsTyped ==
  ASSUME TypeOK
  PROVE  /\ \A c \in Commands : Solidified(c, file) \in ContentsQuoting(DOMAIN rendered)
         /\ \A status \in {"deprecated", "retired"} :
              Retired(file, status) \in ContentsQuoting(DOMAIN rendered)
         /\ RolledBack(file) \in ContentsQuoting(DOMAIN rendered)
<1>1. \A i : Content(i) \in ContentsQuoting(DOMAIN rendered)
  BY ContentTyped
<1>2. \A i : Quoted(i) \in Seq(DOMAIN rendered) /\ NextVersion(i) \in Nat
  <2>1. \A i : Content(i).version \in Nat
    BY <1>1 DEF ContentsQuoting
  <2>2. \A i \in DOMAIN rendered : <<i>> \in Seq(DOMAIN rendered)
    OBVIOUS
  <2>3. <<>> \in Seq(DOMAIN rendered)
    OBVIOUS
  <2>4. \A i : Quoted(i) \in Seq(DOMAIN rendered)
    BY <2>2, <2>3 DEF Quoted
  <2> QED
    BY <2>1, <2>4 DEF NextVersion
<1>3. \A c \in Commands : Solidified(c, file) \in ContentsQuoting(DOMAIN rendered)
  BY <1>2 DEF Solidified, ContentsQuoting
<1>4. \A i, j : Content(i).snaps \o Quoted(j) \in Seq(DOMAIN rendered)
  BY <1>1, <1>2 DEF ContentsQuoting
<1>5. \A status \in {"deprecated", "retired"} :
        Retired(file, status) \in ContentsQuoting(DOMAIN rendered)
  BY <1>1, <1>2, <1>4 DEF Retired, ContentsQuoting
<1>6. RolledBack(file) \in ContentsQuoting(DOMAIN rendered)
  BY <1>1, <1>2, <1>4 DEF RolledBack, RolledBackVersion, ContentsQuoting
<1> QED
  BY <1>3, <1>5, <1>6

\* The part of the invariant that overlaps and cut writes leave.
Typed == TypeOK /\ Begun

\* A rendering of a content that quotes rendered ones keeps the types.
LEMMA RenderTyped ==
  ASSUME Typed, NEW c \in Commands, NEW x \in ContentsQuoting(DOMAIN rendered), Render(c, x),
         UNCHANGED <<asked, file, original, verdict, faults, published>>
  PROVE  Typed'
<1>1. /\ rendered' \in Seq(ContentsQuoting(DOMAIN rendered))
      /\ Len(rendered') = Len(rendered) + 1
      /\ DOMAIN rendered = 1..Len(rendered) /\ DOMAIN rendered' = 1..Len(rendered')
      /\ Len(rendered) \in Nat
  BY DEF Typed, TypeOK, Render, ContentsQuoting
<1>2. rendered' \in Seq(ContentsQuoting(DOMAIN rendered'))
  <2>1. ContentsQuoting(DOMAIN rendered) \subseteq ContentsQuoting(DOMAIN rendered')
    BY <1>1, MoreToQuote
  <2>2. \A i \in 1..Len(rendered') : rendered'[i] \in ContentsQuoting(DOMAIN rendered')
    BY <1>1, <2>1
  <2>3. rendered' = [i \in 1..Len(rendered') |-> rendered'[i]]
    BY <1>1
  <2> QED
    BY <1>1, <2>2, <2>3
<1>3. upset' \in BOOLEAN
  BY DEF Typed, TypeOK, Render, Enter
<1>4. pc' = [pc EXCEPT ![c] = "truncate"] /\ draft' = [draft EXCEPT ![c] = Len(rendered) + 1]
  BY DEF Render, Goto
<1>5. TypeOK'
  <2>1. /\ asked' \in [Commands -> Requests]
        /\ pc' \in [Commands -> Ends \cup {"idle", "original", "read", "truncate", "fill",
                                     "verify", "restore", "refill", "remove", "adrift"}]
        /\ verdict' \in [Commands -> {"none", "passed", "rejected"}]
        /\ faults' \in 0..MaxFaults /\ upset' \in BOOLEAN
    BY <1>3, <1>4 DEF Typed, TypeOK
  <2>2. /\ file' \in 0..Len(rendered') \cup {NoFile}
        /\ draft' \in [Commands -> 0..Len(rendered')]
        /\ original' \in [Commands -> 0..Len(rendered') \cup {NoFile}]
        /\ published' \in SUBSET (DOMAIN rendered')
    BY <1>1, <1>4 DEF Typed, TypeOK
  <2> QED
    BY <1>2, <2>1, <2>2 DEF TypeOK, ContentsQuoting
<1>6. Begun'
  BY <1>1, <1>4 DEF Typed, TypeOK, Begun, Drafted, Judged
<1> QED
  BY <1>5, <1>6 DEF Typed

\* Whatever happens, the types stay.
LEMMA StepTyped ==
  ASSUME Typed, [Next]_vars
  PROVE  Typed'
<1> USE SkillFilesAssumption
<1>0. rendered \in Seq(ContentsQuoting(DOMAIN rendered))
  BY DEF Typed, TypeOK, ContentsQuoting
<1>1. CASE UNCHANGED vars
  BY <1>1 DEF Typed, TypeOK, Begun, vars
<1>2. ASSUME NEW c \in Commands, Judge(c) PROVE Typed'
  <2>1. /\ pc[c] = "idle" /\ asked[c].op \in {"solidify", "evolve"}
        /\ \E to \in {"original", "read", "refused"} : pc' = [pc EXCEPT ![c] = to]
        /\ verdict' = [verdict EXCEPT ![c] = "passed"] \/ verdict' = verdict
        /\ UNCHANGED <<asked, rendered, file, draft, original, faults, published, upset>>
    BY <1>2 DEF Judge, Goto
  <2>2. TypeOK'
    BY <2>1 DEF Typed, TypeOK, Ends
  <2>3. Begun'
    BY <2>1 DEF Typed, TypeOK, Begun, Drafted, Judged
  <2> QED
    BY <2>2, <2>3 DEF Typed
<1>3. ASSUME NEW c \in Commands, KeepOriginal(c) PROVE Typed'
  BY <1>3 DEF KeepOriginal, Enter, Goto, Typed, TypeOK, Begun, Drafted, Judged, Ends
<1>4. ASSUME NEW c \in Commands, ReadToSolidify(c) PROVE Typed'
  BY <1>4, RenderTyped, RenderingsTyped DEF ReadToSolidify, Typed
<1>5. ASSUME NEW c \in Commands, ReadToRetire(c) PROVE Typed'
  <2>1. CASE file = NoFile
    BY <1>5, <2>1 DEF ReadToRetire, Goto, Typed, TypeOK, Begun, Drafted, Judged, Ends
  <2>2. CASE file # NoFile
    BY <1>5, <2>2, RenderTyped, RenderingsTyped DEF ReadToRetire, Typed
  <2> QED
    BY <2>1, <2>2
<1>6. ASSUME NEW c \in Commands, ReadToRollBack(c) PROVE Typed'
  <2>1. CASE file = NoFile \/ Extractable(file) = NoFile
    BY <1>6, <2>1 DEF ReadToRollBack, Goto, Typed, TypeOK, Begun, Drafted, Judged, Ends
  <2>2. CASE ~(file = NoFile \/ Extractable(file) = NoFile)
    BY <1>6, <2>2, RenderTyped, RenderingsTyped DEF ReadToRollBack, Typed
  <2> QED
    BY <2>1, <2>2
<1>7. ASSUME NEW c \in Commands, Truncate(c) PROVE Typed'
  <2>1. \/ pc[c] = "truncate" /\ pc' = [pc EXCEPT ![c] = "fill"]
        \/ pc[c] = "restore" /\ pc' = [pc EXCEPT ![c] = "refill"]
    BY <1>7 DEF Truncate, Goto
  <2>2. TypeOK'
    <3>1. pc' \in [Commands -> Ends \cup {"idle", "original", "read", "truncate", "fill",
                                     "verify", "restore", "refill", "remove", "adrift"}]
      BY <2>1 DEF Typed, TypeOK
    <3>2. file' \in 0..Len(rendered')
      BY <1>0, <1>7 DEF Truncate
    <3> QED
      BY <1>7, <3>1, <3>2 DEF Truncate, Typed, TypeOK
  <2>3. Begun'
    BY <1>7, <2>1 DEF Truncate, Typed, TypeOK, Begun, Drafted, Judged
  <2> QED
    BY <2>2, <2>3 DEF Typed
<1>8. ASSUME NEW c \in Commands, Fill(c) PROVE Typed'
  <2>1. draft[c] \in DOMAIN rendered
    BY <1>8 DEF Fill, Typed, Begun, Drafted
  <2>2. /\ DOMAIN rendered' = DOMAIN rendered /\ Len(rendered') = Len(rendered)
        /\ rendered' \in Seq(ContentsQuoting(DOMAIN rendered))
    <3>1. CASE UNCHANGED rendered
      BY <1>0, <3>1
    <3>2. ASSUME NEW k \in DOMAIN Content(file).snaps,
                 rendered' = [rendered EXCEPT ![draft[c]].snaps = @ \o
                                SubSeq(Content(file).snaps, k, Len(Content(file).snaps))]
          PROVE  /\ DOMAIN rendered' = DOMAIN rendered /\ Len(rendered') = Len(rendered)
                 /\ rendered' \in Seq(ContentsQuoting(DOMAIN rendered))
      <4> DEFINE snaps == Content(file).snaps
                 rest == SubSeq(snaps, k, Len(snaps))
                 old == rendered[draft[c]]
                 new == [old EXCEPT !.snaps = @ \o rest]
      <4>1. snaps \in Seq(DOMAIN rendered)
        BY ContentTyped DEF Typed, ContentsQuoting
      <4>2. rest \in Seq(DOMAIN rendered)
        BY <3>2, <4>1
      <4>3. old \in ContentsQuoting(DOMAIN rendered)
        BY <1>0, <2>1
      <4> HIDE DEF rest
      <4>4. new \in ContentsQuoting(DOMAIN rendered)
        <5>1. old.snaps \o rest \in Seq(DOMAIN rendered)
          BY <4>2, <4>3 DEF ContentsQuoting
        <5> HIDE DEF old
        <5> QED
          BY <4>3, <5>1 DEF ContentsQuoting
      <4>5. rendered' = [rendered EXCEPT ![draft[c]] = new]
        BY <3>2 DEF rest
      <4> HIDE DEF new
      <4> QED
        BY <1>0, <2>1, <4>4, <4>5
    <3> QED
      BY <1>8, <3>1, <3>2 DEF Fill
  <2>3. pc' = [pc EXCEPT ![c] = Written(c)] /\ Written(c) \in {"verify", "done"}
    BY <1>8 DEF Fill, Goto, Written
  <2>4. TypeOK'
    BY <1>8, <2>1, <2>2, <2>3 DEF Fill, Typed, TypeOK, Ends, ContentsQuoting
  <2>5. Begun'
    BY <1>8, <2>1, <2>2, <2>3 DEF Fill, Typed, TypeOK, Begun, Drafted, Judged
  <2> QED
    BY <2>4, <2>5 DEF Typed
<1>9. ASSUME NEW c \in Commands, Verify(c) PROVE Typed'
  <2>1. /\ pc[c] = "verify"
        /\ \E to \in {"done", "remove", "restore", "unverified"} : pc' = [pc EXCEPT ![c] = to]
        /\ \E v \in {"passed", "rejected", verdict[c]} : verdict' = [verdict EXCEPT ![c] = v]
        /\ faults' \in 0..MaxFaults
    BY <1>9 DEF Verify, TakenBack, Fault, Goto, Typed, TypeOK
  <2>2. TypeOK'
    <3>1. pc' \in [Commands -> Ends \cup {"idle", "original", "read", "truncate", "fill",
                                     "verify", "restore", "refill", "remove", "adrift"}]
      BY <2>1 DEF Typed, TypeOK, Ends
    <3>2. verdict' \in [Commands -> {"none", "passed", "rejected"}]
      BY <2>1 DEF Typed, TypeOK
    <3>3. UNCHANGED <<asked, rendered, file, draft, original, published, upset>>
      BY <1>9 DEF Verify
    <3> QED
      BY <2>1, <3>1, <3>2, <3>3 DEF Typed, TypeOK
  <2>3. Begun'
    BY <1>9, <2>1 DEF Verify, Typed, TypeOK, Begun, Drafted, Judged
  <2> QED
    BY <2>2, <2>3 DEF Typed
<1>10. ASSUME NEW c \in Commands, Restore(c) PROVE Typed'
  BY <1>10 DEF Restore, Goto, Typed, TypeOK, Begun, Drafted, Judged, Ends
<1>11. ASSUME NEW c \in Commands, RemoveCreated(c) PROVE Typed'
  BY <1>11 DEF RemoveCreated, Typed, TypeOK, Begun, Drafted, Judged, Ends
<1>12. ASSUME NEW c \in Commands, FillAdrift(c) PROVE Typed'
  <2>1. pc' = [pc EXCEPT ![c] = "reverted"] \/ pc' = [pc EXCEPT ![c] = "done"]
        \/ (pc' = [pc EXCEPT ![c] = "verify"] /\ pc[c] = "adrift")
    BY <1>12 DEF FillAdrift, Goto, Written
  <2> QED
    BY <1>12, <2>1 DEF FillAdrift, Typed, TypeOK, Begun, Drafted, Judged, Ends
<1>13. ASSUME NEW c \in Commands, WriteFails(c) PROVE Typed'
  BY <1>13 DEF WriteFails, Fault, Cut, Goto, Typed, TypeOK, Begun, Drafted, Judged, Ends
<1>14. ASSUME NEW c \in Commands, Crash(c) PROVE Typed'
  BY <1>14 DEF Crash, Fault, Cut, Goto, Typed, TypeOK, Begun, Drafted, Judged, Ends
<1> QED
  BY <1>1, <1>2, <1>3, <1>4, <1>5, <1>6, <1>7, <1>8, <1>9, <1>10, <1>11, <1>12, <1>13, <1>14 DEF Next

(***************************************************************************)
(* What a step keeps of the quotations                                     *)
(***************************************************************************)

\* After a step, too, Held is what its definition says of it.
LEMMA HeldEquationNext ==
  (TypeOK /\ Ordered)' =>
    (\A i \in DOMAIN rendered :
       Held[i] = {i} \cup UNION {Held[s] : s \in ToSet(rendered[i].snaps)})'
BY HeldEquation, PTL

\* A content holds itself and only contents that were rendered.
LEMMA HeldInside ==
  ASSUME Typed, Ordered
  PROVE  \A i \in DOMAIN rendered : i \in Held[i] /\ Held[i] \subseteq DOMAIN rendered
<1> DEFINE n == Len(rendered)
           Q == [i \in 1..n |-> ToSet(rendered[i].snaps)]
<1>1. n \in Nat /\ DOMAIN rendered = 1..n
  BY DEF Typed, TypeOK
<1>2. Earlier(n, Q)
  BY <1>1 DEF Ordered, Earlier
<1>3. \A i \in 1..n : Held[i] = {i} \cup UNION {Held[s] : s \in Q[i]}
  BY <1>1, HeldEquation DEF Typed
<1>4. \A i \in 1..n : Held[i] \subseteq 1..i
  <2>1. Solves(Held, n, Q)
    BY <1>3 DEF Solves
  <2> HIDE DEF n, Q
  <2> QED
    BY <1>1, <1>2, <2>1, HeldBelow
<1>5. \A i \in 1..n : 1..i \subseteq 1..n
  BY <1>1
<1> QED
  BY <1>1, <1>3, <1>4, <1>5

\* What was rendered stays, so what it holds does.
LEMMA HeldStays ==
  ASSUME Typed, Typed', Ordered, Ordered', Len(rendered) <= Len(rendered'),
         \A i \in DOMAIN rendered : rendered'[i] = rendered[i]
  PROVE  \A i \in DOMAIN rendered : Held'[i] = Held[i]
<1> DEFINE n == Len(rendered)
           Q == [i \in 1..n |-> ToSet(rendered[i].snaps)]
           h == Held
           g == Held'
<1>1. n \in Nat /\ DOMAIN rendered = 1..n /\ \A i \in 1..n : i \in DOMAIN rendered'
  BY DEF Typed, TypeOK
<1>2. Earlier(n, Q)
  BY <1>1 DEF Ordered, Earlier
<1>3. Solves(h, n, Q)
  BY <1>1, HeldEquation DEF Typed, Solves
<1>4. (TypeOK /\ Ordered)' =>
        \A i \in DOMAIN rendered' : g[i] = {i} \cup UNION {g[s] : s \in ToSet(rendered'[i].snaps)}
  BY HeldEquationNext DEF Typed
<1>5. Solves(g, n, Q)
  <2> SUFFICES ASSUME NEW i \in 1..n PROVE g[i] = {i} \cup UNION {g[s] : s \in Q[i]}
    BY DEF Solves
  <2>1. rendered'[i] = rendered[i] /\ i \in DOMAIN rendered'
    BY <1>1
  <2>2. g[i] = {i} \cup UNION {g[s] : s \in ToSet(rendered'[i].snaps)}
    BY <1>4, <2>1 DEF Typed
  <2> QED
    BY <2>1, <2>2
<1>6. \A i \in 1..n : h[i] = g[i]
  <2> HIDE DEF n, Q, h, g
  <2> QED
    BY <1>1, <1>2, <1>3, <1>5, HeldAgree
<1> QED
  BY <1>1, <1>6

\* Nobody but c is at work.
Alone(c) == \A d \in Commands \ {c} : ~AtWork(d)

\* While a command is alone, no other has a draft or knows what it replaces.
LEMMA AloneMeans ==
  ASSUME NEW c \in Commands, Alone(c)
  PROVE  \A d \in Commands \ {c} :
           /\ pc[d] \notin Drafted \cup {"adrift"}
           /\ ~(asked[d].op = "evolve" /\ pc[d] = "read")
BY DEF Alone, AtWork, Drafted, Judged

\* While commands do not overlap, one that is at work is alone.
LEMMA SerialAlone ==
  ASSUME Serial, NEW c \in Commands, AtWork(c)
  PROVE  Alone(c)
BY DEF Serial, Alone

\* A file is empty, or not there, or one of the contents.
LEMMA FileKnown ==
  ASSUME Typed
  PROVE  /\ file # 0 /\ file # NoFile => file \in DOMAIN rendered
         /\ NoFile \notin DOMAIN rendered /\ 0 \notin DOMAIN rendered /\ NoFile # 0
BY SkillFilesAssumption DEF Typed, TypeOK

(***************************************************************************)
(* A step of a command that is at work alone                               *)
(***************************************************************************)

\* What a step of the command c, which has rendered its draft, keeps if it
\* renders nothing: all that is about the others.
LEMMA WorkingStep ==
  ASSUME Typed, Typed', Orderly, NEW c \in Commands, pc[c] \in Drafted,
         UNCHANGED <<asked, rendered, draft, original>>,
         \A d \in Commands \ {c} : pc'[d] = pc[d] /\ verdict'[d] = verdict[d],
         pc'[c] \in Drafted \cup (Ends \ {"refused"}),
         asked[c].op = "evolve" \/ verdict' = verdict
  PROVE  /\ Serial' /\ Ordered' /\ Authors' /\ Passed'
         /\ \A i \in DOMAIN rendered : Held'[i] = Held[i]
         /\ \A i : Content(i)' = Content(i)
         /\ \A set : Replaces(c, set) => Replaces(c, set)'
         /\ AtItsWork(c)' => AtTheirWork'
         /\ \A d \in Commands \ {c} :
              /\ pc[d] \notin Drafted
              /\ Excused(d)' <=> Excused(d)
<1>1. /\ pc[c] \in {"truncate", "fill", "verify", "restore", "refill", "remove"}
      /\ AtWork(c) /\ Serial /\ Ordered /\ AtTheirWork /\ Authors /\ Passed
  BY DEF Drafted, Judged, AtWork, Orderly
<1>2. /\ Alone(c)
      /\ \A d \in Commands \ {c} :
           /\ pc[d] \notin Drafted \cup {"adrift"}
           /\ ~(asked[d].op = "evolve" /\ pc[d] = "read")
  BY <1>1, SerialAlone, AloneMeans
<1>3. Serial'
  <2>1. \A d \in Commands \ {c} : ~AtWork(d)'
    BY <1>2 DEF Alone, AtWork
  <2>2. \A d \in Commands : pc'[d] # "adrift"
    BY <1>1, <1>2 DEF Drafted, Judged, Ends
  <2> QED
    BY <2>1, <2>2 DEF Serial
<1>4. Ordered'
  BY <1>1 DEF Ordered
<1>5. Authors'
  <2> SUFFICES ASSUME NEW d \in Commands, NEW i \in DOMAIN rendered, rendered[i].text = d
               PROVE  /\ asked[d].op \in {"solidify", "evolve"}
                      /\ pc'[d] \notin {"idle", "original", "read", "refused"}
                      /\ pc'[d] \in Drafted => i = draft[d]
    BY DEF Authors
  <2>1. CASE d = c
    BY <1>1, <2>1 DEF Authors, Drafted, Judged, Ends
  <2>2. CASE d # c
    BY <1>1, <2>2 DEF Authors
  <2> QED
    BY <2>1, <2>2
<1>6. Passed'
  <2> SUFFICES ASSUME NEW d \in Commands, asked[d].op = "solidify", asked[d].gate,
                      pc'[d] \notin {"idle", "refused"}
               PROVE  verdict'[d] = "passed"
    BY DEF Passed
  <2>1. CASE d = c
    BY <1>1, <2>1 DEF Passed
  <2>2. CASE d # c
    BY <1>1, <2>2 DEF Passed
  <2> QED
    BY <2>1, <2>2
<1>7. \A i \in DOMAIN rendered : Held'[i] = Held[i]
  <2>1. Len(rendered) <= Len(rendered') /\ \A i \in DOMAIN rendered : rendered'[i] = rendered[i]
    BY DEF Typed, TypeOK
  <2> QED
    BY <1>1, <1>4, <2>1, HeldStays
<1>8. \A i : Content(i)' = Content(i)
  BY DEF Content, Blank
<1>9. ASSUME AtItsWork(c)' PROVE AtTheirWork'
  <2> SUFFICES ASSUME NEW d \in Commands \ {c} PROVE AtItsWork(d)'
    BY <1>9 DEF AtTheirWork
  <2> QED
    BY <1>2 DEF AtItsWork, Drafted, Judged
<1>10. \A d \in Commands \ {c} : Excused(d)' <=> Excused(d)
  BY DEF Excused
<1>11. \A set : Replaces(c, set) => Replaces(c, set)'
  BY <1>7, <1>8 DEF Replaces, Whole, Versioned, Typed, TypeOK
<1> QED
  BY <1>2, <1>3, <1>4, <1>5, <1>6, <1>7, <1>8, <1>9, <1>10, <1>11

\* Emptying the file keeps the invariant.
LEMMA OrderlyTruncate ==
  ASSUME Typed, Typed', Orderly, NEW c \in Commands, Truncate(c)
  PROVE  Orderly'
<1>1. /\ pc[c] \in {"truncate", "restore"}
      /\ pc' = [pc EXCEPT ![c] = IF pc[c] = "truncate" THEN "fill" ELSE "refill"]
      /\ file' = 0
      /\ UNCHANGED <<asked, rendered, draft, original, verdict, faults, published, upset>>
      /\ pc \in [Commands -> Ends \cup {"idle", "original", "read", "truncate", "fill",
                                       "verify", "restore", "refill", "remove", "adrift"}]
  BY DEF Truncate, Goto, Typed, TypeOK
<1>2. /\ pc[c] \in Drafted /\ pc'[c] \in Filling /\ pc'[c] \in Drafted
      /\ \A d \in Commands \ {c} : pc'[d] = pc[d]
      /\ pc[c] = "truncate" => pc'[c] = "fill"
      /\ pc[c] = "restore" => pc'[c] = "refill"
  BY <1>1 DEF Drafted, Judged, Filling
<1>3. /\ Serial' /\ Ordered' /\ Authors' /\ Passed'
      /\ \A i \in DOMAIN rendered : Held'[i] = Held[i]
      /\ \A i : Content(i)' = Content(i)
      /\ \A set : Replaces(c, set) => Replaces(c, set)'
      /\ AtItsWork(c)' => AtTheirWork'
      /\ \A d \in Commands \ {c} :
           /\ pc[d] \notin Drafted
           /\ Excused(d)' <=> Excused(d)
  BY <1>1, <1>2, WorkingStep
<1>4. Kept /\ AtItsWork(c) /\ Gated
  BY DEF Orderly, AtTheirWork
<1>5. EmptyToFill'
  BY <1>1, <1>2 DEF EmptyToFill
<1>6. Kept'
  BY <1>1, <1>2, <1>3, <1>4 DEF Kept
<1>8. AtItsWork(c)'
  <2>1. CASE pc[c] = "truncate"
    <3>1. Drafting(c)
      BY <1>4, <2>1 DEF AtItsWork
    <3>2. UNION {Held'[s] : s \in ToSet(Content(draft[c]).snaps)}
            = UNION {Held[s] : s \in ToSet(Content(draft[c]).snaps)}
      BY <1>3, ContentTyped DEF Typed, ContentsQuoting, ToSet
    <3>3. Drafting(c)'
      BY <1>1, <1>3, <3>1, <3>2 DEF Drafting
    <3> QED
      BY <1>2, <2>1, <3>3 DEF AtItsWork, Judged
  <2>2. CASE pc[c] = "restore"
    <3>1. Judging(c)
      BY <1>4, <2>2 DEF AtItsWork, Judged
    <3>2. Judging(c)'
      BY <1>1, <1>2, <1>3, <2>2, <3>1 DEF Judging
    <3> QED
      BY <1>2, <2>2, <3>2 DEF AtItsWork
  <2> QED
    BY <1>1, <2>1, <2>2
<1>9. Gated'
  <2>1. Excused(c) => Excused(c)'
    BY <1>1, <1>2 DEF Excused, Judged
  <2> QED
    BY <1>1, <1>2, <1>3, <1>4, <2>1 DEF Gated, Drafted
<1> QED
  BY <1>3, <1>5, <1>6, <1>8, <1>9 DEF Orderly

\* Filling the file keeps the invariant.
LEMMA OrderlyFill ==
  ASSUME Typed, Typed', Orderly, NEW c \in Commands, Fill(c)
  PROVE  Orderly'
<1>1. /\ pc[c] = "fill" /\ pc'[c] = Written(c)
      /\ Written(c) = IF asked[c].op = "evolve" /\ asked[c].gate THEN "verify" ELSE "done"
      /\ \A d \in Commands \ {c} : pc'[d] = pc[d]
      /\ file' = draft[c] /\ published' = published \cup {draft[c]}
      /\ UNCHANGED <<asked, draft, original, verdict, faults, upset>>
  BY DEF Fill, Goto, Typed, TypeOK, Written
<1>2. /\ pc[c] \in Drafted /\ pc'[c] \in Drafted \cup (Ends \ {"refused"})
      /\ pc'[c] \in Judged => pc'[c] = "verify"
      /\ pc'[c] \notin Filling \cup {"truncate"}
  BY <1>1 DEF Drafted, Judged, Ends, Filling
<1>3. UNCHANGED rendered
  <2>1. file = 0
    BY <1>1 DEF Orderly, EmptyToFill, Filling
  <2>2. Content(file).snaps = <<>>
    BY <2>1, FileKnown DEF Content, Blank
  <2> QED
    BY <2>2 DEF Fill
<1>4. /\ Serial' /\ Ordered' /\ Authors' /\ Passed'
      /\ \A i \in DOMAIN rendered : Held'[i] = Held[i]
      /\ \A i : Content(i)' = Content(i)
      /\ \A set : Replaces(c, set) => Replaces(c, set)'
      /\ AtItsWork(c)' => AtTheirWork'
      /\ \A d \in Commands \ {c} :
           /\ pc[d] \notin Drafted
           /\ Excused(d)' <=> Excused(d)
  BY <1>1, <1>2, <1>3, WorkingStep
<1>5. /\ Kept /\ Drafting(c) /\ Gated /\ Ordered /\ Authors /\ Passed
      /\ draft[c] \in DOMAIN rendered /\ published \subseteq DOMAIN rendered
  BY <1>1, <1>2 DEF Orderly, AtTheirWork, AtItsWork, Typed, TypeOK, Begun
<1>6. \A d \in Commands : pc'[d] \notin Filling \cup {"truncate"}
  BY <1>1, <1>2, <1>4 DEF Drafted, Judged, Filling
<1>7. EmptyToFill'
  BY <1>1, <1>5, <1>6, FileKnown DEF EmptyToFill
<1>8. Whole(file)' = published'
  <2>1. Held[draft[c]] = {draft[c]} \cup UNION {Held[s] : s \in ToSet(rendered[draft[c]].snaps)}
    BY <1>5, HeldEquation DEF Typed
  <2>2. Held[draft[c]] = {draft[c]} \cup published
    BY <1>5, <2>1 DEF Drafting, Content
  <2>3. Whole(file)' = Held'[draft[c]]
    BY <1>1, <1>5, FileKnown DEF Whole
  <2> QED
    BY <1>1, <1>4, <1>5, <2>2, <2>3
<1>9. \A i \in DOMAIN rendered : Content(i).version \in Nat
  BY ContentTyped DEF Typed, ContentsQuoting
<1>10. Kept'
  <2>1. ASSUME NEW i \in published', NEW j \in published', i # j
        PROVE  Content(i).version # Content(j).version
    BY <1>1, <1>5, <1>9, <2>1 DEF Kept, Drafting
  <2>2. \A i \in published' : Content(i).version <= Content(draft[c]).version
    BY <1>1, <1>5, <1>9 DEF Drafting
  <2> QED
    BY <1>1, <1>4, <1>8, <2>1, <2>2 DEF Kept, Versioned
<1>11. AtItsWork(c)'
  <2>1. CASE pc'[c] = "verify"
    <3>1. /\ asked[c].op = "evolve" /\ Replaces(c, published)
          /\ published' \ {draft[c]} = published
      BY <1>1, <1>5, <2>1 DEF Drafting
    <3>2. PICK set : set = published
      OBVIOUS
    <3>3. Replaces(c, set)' /\ set = (published \ {draft[c]})'
      BY <1>1, <1>4, <3>1, <3>2
    <3>4. Replaces(c, published \ {draft[c]})'
      BY <3>3 DEF Replaces, Versioned
    <3>5. Judging(c)'
      BY <1>1, <2>1, <3>1, <3>4 DEF Judging
    <3> QED
      BY <2>1, <3>5 DEF AtItsWork
  <2>2. CASE pc'[c] # "verify"
    BY <1>1, <1>2, <2>2 DEF AtItsWork
  <2> QED
    BY <2>1, <2>2
<1>12. Gated'
  <2> SUFFICES ASSUME NEW d \in Commands, asked[d].gate, NEW i \in published', Content(i).text = d
               PROVE  Excused(d)'
    BY <1>1, <1>4, <1>6 DEF Gated, Filling
  <2>1. CASE d = c
    <3>1. i \in DOMAIN rendered /\ rendered[i].text = d
      BY <1>1, <1>5 DEF Content
    <3>2. asked[c].op \in {"solidify", "evolve"}
      BY <1>5, <2>1, <3>1 DEF Authors
    <3>3. CASE asked[c].op = "solidify"
      BY <1>1, <1>5, <2>1, <3>3 DEF Passed, Excused
    <3>4. CASE asked[c].op = "evolve"
      BY <1>1, <2>1, <3>4 DEF Excused, Judged
    <3> QED
      BY <3>2, <3>3, <3>4
  <2>2. CASE d # c
    <3>1. Excused(d)
      BY <1>1, <1>5, <2>2 DEF Gated
    <3> QED
      BY <1>4, <2>2, <3>1
  <2> QED
    BY <2>1, <2>2
<1> QED
  BY <1>4, <1>7, <1>10, <1>11, <1>12 DEF Orderly

\* The verdict on what is in the file keeps the invariant.
LEMMA OrderlyVerify ==
  ASSUME Typed, Typed', Orderly, NEW c \in Commands, Verify(c)
  PROVE  Orderly'
<1>1. /\ pc[c] = "verify"
      /\ \/ pc'[c] = "done" /\ verdict'[c] = "passed"
         \/ pc'[c] = "unverified"
         \/ pc'[c] = "remove" /\ original[c] = NoFile
         \/ pc'[c] = "restore" /\ original[c] # NoFile
      /\ \A d \in Commands \ {c} : pc'[d] = pc[d] /\ verdict'[d] = verdict[d]
      /\ UNCHANGED <<asked, rendered, file, draft, original, published, upset>>
  BY DEF Verify, TakenBack, Goto, Typed, TypeOK
<1>2. /\ pc[c] \in Drafted /\ pc'[c] \in Drafted \cup (Ends \ {"refused"})
      /\ pc'[c] \notin Filling \cup {"truncate"} /\ pc[c] \notin Filling /\ pc[c] \in Judged
  BY <1>1 DEF Drafted, Judged, Ends, Filling
<1>3. Judging(c) /\ asked[c].op = "evolve"
  BY <1>2 DEF Orderly, AtTheirWork, AtItsWork, Judging
<1>4. /\ Serial' /\ Ordered' /\ Authors' /\ Passed'
      /\ \A i \in DOMAIN rendered : Held'[i] = Held[i]
      /\ \A i : Content(i)' = Content(i)
      /\ \A set : Replaces(c, set) => Replaces(c, set)'
      /\ AtItsWork(c)' => AtTheirWork'
      /\ \A d \in Commands \ {c} :
           /\ pc[d] \notin Drafted
           /\ Excused(d)' <=> Excused(d)
  BY <1>1, <1>2, <1>3, WorkingStep
<1>5. Kept /\ EmptyToFill /\ Gated
  BY DEF Orderly
<1>6. /\ \A d \in Commands : pc[d] \notin Filling
      /\ \A d \in Commands : pc'[d] \notin Filling \cup {"truncate"}
  BY <1>1, <1>2, <1>4 DEF Drafted, Judged, Filling
<1>7. EmptyToFill'
  BY <1>1, <1>5, <1>6 DEF EmptyToFill
<1>8. Whole(file)' = Whole(file)
  <2>1. file \in DOMAIN rendered
    BY <1>1, <1>3 DEF Judging, Typed, TypeOK
  <2> QED
    BY <1>1, <1>4, <2>1 DEF Whole
<1>9. Kept'
  BY <1>1, <1>4, <1>5, <1>6, <1>8 DEF Kept, Versioned
<1>10. AtItsWork(c)'
  <2>2. pc'[c] \in Judged => Judging(c)'
    BY <1>1, <1>3, <1>4 DEF Judging
  <2>3. pc'[c] # "read"
    BY <1>1
  <2> QED
    BY <1>2, <2>2, <2>3 DEF AtItsWork, Filling
<1>11. Gated'
  <2>1. Excused(c)'
    BY <1>1 DEF Excused, Judged
  <2> QED
    BY <1>1, <1>4, <1>5, <1>6, <2>1 DEF Gated, Filling
<1> QED
  BY <1>4, <1>7, <1>9, <1>10, <1>11 DEF Orderly

\* Taking back: what the draft replaced is in the file again, or nothing is.
LEMMA OrderlyTakeBack ==
  ASSUME Typed, Typed', Orderly, NEW c \in Commands, Restore(c) \/ RemoveCreated(c)
  PROVE  Orderly'
<1>1. pc[c] \in {"refill", "remove"} /\ pc[c] \in Drafted /\ pc[c] \in Judged
  BY DEF Restore, RemoveCreated, Drafted, Judged
<1>2. Judging(c) /\ AtWork(c) /\ Alone(c)
  BY <1>1, SerialAlone DEF Orderly, AtTheirWork, AtItsWork, AtWork
<1>3. \A d \in Commands \ {c} : pc[d] \notin Drafted \cup {"adrift"}
  BY <1>2, AloneMeans
<1>4. /\ pc'[c] = "reverted"
      /\ \A d \in Commands \ {c} : pc'[d] = pc[d]
      /\ file' = original[c]
      /\ published' = published \ {draft[c]}
      /\ UNCHANGED <<asked, rendered, draft, original, verdict, faults, upset>>
  <2>1. CASE Restore(c)
    BY <2>1 DEF Restore, Goto, Typed, TypeOK
  <2>2. CASE RemoveCreated(c)
    <3>1. file = draft[c] /\ draft[c] \in DOMAIN rendered /\ original[c] = NoFile
      BY <1>2, <2>2 DEF RemoveCreated, Judging, Typed, TypeOK
    <3>2. file # NoFile
      BY <3>1, FileKnown
    <3> QED
      BY <1>3, <2>2, <3>1, <3>2 DEF RemoveCreated, Drafted, Judged, Typed, TypeOK
  <2> QED
    BY <2>1, <2>2
<1>5. pc'[c] \in Drafted \cup (Ends \ {"refused"})
  BY <1>4 DEF Ends
<1>6. /\ Serial' /\ Ordered' /\ Authors' /\ Passed'
      /\ \A i \in DOMAIN rendered : Held'[i] = Held[i]
      /\ \A i : Content(i)' = Content(i)
      /\ \A set : Replaces(c, set) => Replaces(c, set)'
      /\ AtItsWork(c)' => AtTheirWork'
      /\ \A d \in Commands \ {c} :
           /\ pc[d] \notin Drafted
           /\ Excused(d)' <=> Excused(d)
  BY <1>1, <1>4, <1>5, WorkingStep
<1>7. Kept /\ Gated /\ Authors /\ Replaces(c, published \ {draft[c]}) /\ draft[c] \in published
  BY <1>2 DEF Orderly, Judging
<1>8. \A d \in Commands : pc'[d] \notin Filling \cup {"truncate"}
  BY <1>4, <1>6 DEF Drafted, Judged, Filling
<1>9. EmptyToFill'
  BY <1>4, <1>7, <1>8 DEF EmptyToFill, Replaces
<1>10. Kept'
  <2>1. \A set : Replaces(c, set) => set = Whole(file)' /\ Versioned(file, set)'
    BY <1>4, <1>6 DEF Replaces, Whole, Versioned
  <2>2. published' = Whole(file)' /\ Versioned(file, published)'
    BY <1>4, <1>7, <2>1 DEF Versioned
  <2>3. \A i, j \in published' : i # j => Content(i)'.version # Content(j)'.version
    BY <1>4, <1>6, <1>7 DEF Kept
  <2> QED
    BY <2>2, <2>3 DEF Kept
<1>11. AtItsWork(c)'
  BY <1>4 DEF AtItsWork, Judged
<1>12. Gated'
  <2> SUFFICES ASSUME NEW d \in Commands, asked[d].gate, NEW i \in published', Content(i).text = d
               PROVE  Excused(d)'
    BY <1>4, <1>6, <1>8 DEF Gated, Filling
  <2>1. d # c
    <3>1. i \in DOMAIN rendered /\ rendered[i].text = d /\ i # draft[c]
      BY <1>4 DEF Content, Typed, TypeOK
    <3> QED
      BY <1>1, <1>7, <3>1 DEF Authors
  <2>2. Excused(d)
    BY <1>4, <1>7 DEF Gated
  <2> QED
    BY <1>6, <2>1, <2>2
<1> QED
  BY <1>6, <1>9, <1>10, <1>11, <1>12 DEF Orderly

(***************************************************************************)
(* Steps of a command that touches nothing                                 *)
(***************************************************************************)

\* A command that begins, is refused or ends, without a rendering and without
\* touching the file, keeps the invariant.
LEMMA QuietStep ==
  ASSUME Typed, Typed', Orderly, NEW c \in Commands,
         UNCHANGED <<asked, rendered, file, draft, original, published>>,
         \A d \in Commands \ {c} : pc'[d] = pc[d] /\ verdict'[d] = verdict[d],
         pc[c] \notin Filling,
         pc'[c] \in {"original", "read", "refused", "failed", "dead"},
         pc'[c] \in {"original", "read", "refused"} => pc[c] = "idle",
         asked[c].op = "evolve" => pc'[c] # "read",
         pc[c] \notin {"idle", "refused"} => verdict' = verdict,
         (asked[c].op = "solidify" /\ asked[c].gate /\ pc[c] \in {"idle", "refused"}
           /\ pc'[c] # "refused") => verdict'[c] = "passed"
  PROVE  Orderly'
<1>1. /\ Serial /\ Ordered /\ EmptyToFill /\ Kept /\ AtTheirWork /\ Authors /\ Passed /\ Gated
      /\ pc'[c] \notin Drafted /\ pc'[c] \notin Filling
  BY DEF Orderly, Drafted, Judged, Filling
<1>2. Serial'
  <2>1. ~AtWork(c)' /\ \A d \in Commands \ {c} : AtWork(d)' <=> AtWork(d)
    BY DEF AtWork
  <2> QED
    BY <1>1, <2>1 DEF Serial
<1>3. Ordered'
  BY <1>1 DEF Ordered
<1>4. \A i \in DOMAIN rendered : Held'[i] = Held[i]
  <2>1. Len(rendered) <= Len(rendered') /\ \A i \in DOMAIN rendered : rendered'[i] = rendered[i]
    BY DEF Typed, TypeOK
  <2> QED
    BY <1>1, <1>3, <2>1, HeldStays
<1>5. \A i : Content(i)' = Content(i)
  BY DEF Content, Blank
<1>6. EmptyToFill'
  BY <1>1 DEF EmptyToFill
<1>7. Kept'
  <2>1. file # 0 => Whole(file)' = Whole(file)
    BY <1>4, FileKnown DEF Whole
  <2>2. (\A d \in Commands : pc'[d] \notin Filling) => \A d \in Commands : pc[d] \notin Filling
    OBVIOUS
  <2> QED
    BY <1>1, <1>5, <2>1, <2>2 DEF Kept, Versioned, EmptyToFill
<1>8. AtTheirWork'
  <2>1. AtItsWork(c)'
    BY <1>1 DEF AtItsWork, Drafted
  <2>2. ASSUME NEW d \in Commands \ {c} PROVE AtItsWork(d)'
    <3>1. \A set : Replaces(d, set) => Replaces(d, set)'
      BY <1>4, <1>5 DEF Replaces, Whole, Versioned, Typed, TypeOK
    <3>2. AtItsWork(d)
      BY <1>1 DEF AtTheirWork
    <3>3. Drafting(d) => Drafting(d)'
      <4>1. UNION {Held'[s] : s \in ToSet(Content(draft[d]).snaps)}
              = UNION {Held[s] : s \in ToSet(Content(draft[d]).snaps)}
        BY <1>4, ContentTyped DEF Typed, ContentsQuoting, ToSet
      <4> QED
        BY <1>5, <3>1, <4>1 DEF Drafting
    <3>4. Judging(d) => Judging(d)'
      BY <3>1 DEF Judging
    <3> QED
      BY <3>2, <3>3, <3>4 DEF AtItsWork
  <2> QED
    BY <2>1, <2>2 DEF AtTheirWork
<1>9. Authors'
  <2> SUFFICES ASSUME NEW d \in Commands, NEW i \in DOMAIN rendered, rendered[i].text = d
               PROVE  /\ asked[d].op \in {"solidify", "evolve"}
                      /\ pc'[d] \notin {"idle", "original", "read", "refused"}
                      /\ pc'[d] \in Drafted => i = draft[d]
    BY DEF Authors
  <2>1. CASE d = c
    BY <1>1, <2>1 DEF Authors
  <2>2. CASE d # c
    BY <1>1, <2>2 DEF Authors
  <2> QED
    BY <2>1, <2>2
<1>10. Passed'
  <2> SUFFICES ASSUME NEW d \in Commands, asked[d].op = "solidify", asked[d].gate,
                      pc'[d] \notin {"idle", "refused"}
               PROVE  verdict'[d] = "passed"
    BY DEF Passed
  <2>1. CASE d = c
    BY <1>1, <2>1 DEF Passed
  <2>2. CASE d # c
    BY <1>1, <2>2 DEF Passed
  <2> QED
    BY <2>1, <2>2
<1>11. Gated'
  <2>1. \A d \in Commands \ {c} : Excused(d)' <=> Excused(d)
    BY DEF Excused
  <2>2. ASSUME NEW i \in DOMAIN rendered, rendered[i].text = c PROVE Excused(c)'
    <3>1. pc[c] \notin {"idle", "refused", "original", "read"}
      BY <1>1, <2>2 DEF Authors
    <3> QED
      BY <3>1 DEF Excused
  <2>3. \A i : Content(i).text = c => i \in DOMAIN rendered /\ rendered[i].text = c
    BY SkillFilesAssumption DEF Content, Blank
  <2> SUFFICES ASSUME NEW d \in Commands, asked[d].gate
               PROVE  /\ \A i \in published : Content(i).text = d => Excused(d)'
                      /\ \A e \in Commands :
                           pc'[e] \in {"truncate", "fill"} /\ Content(draft[e]).text = d
                             => d = e \/ Excused(d)'
    BY <1>5 DEF Gated
  <2>4. CASE d = c
    BY <2>2, <2>3, <2>4
  <2>5. CASE d # c
    BY <1>1, <2>1, <2>5 DEF Gated, Drafted
  <2> QED
    BY <2>4, <2>5
<1> QED
  BY <1>2, <1>3, <1>6, <1>7, <1>8, <1>9, <1>10, <1>11 DEF Orderly

\* So does a step in which nothing changes.
LEMMA OrderlyUnchanged ==
  ASSUME Typed, Orderly, UNCHANGED vars
  PROVE  Orderly'
<1> USE DEF vars
<1>1. /\ Serial' <=> Serial
      /\ Ordered' <=> Ordered
      /\ EmptyToFill' <=> EmptyToFill
      /\ Authors' <=> Authors
      /\ Passed' <=> Passed
  BY DEF Serial, AtWork, Ordered, EmptyToFill, Authors, Passed
<1>2. Typed'
  BY DEF Typed, TypeOK, Begun
<1>3. \A i \in DOMAIN rendered : Held'[i] = Held[i]
  <2>1. Len(rendered) <= Len(rendered') /\ \A i \in DOMAIN rendered : rendered'[i] = rendered[i]
    BY DEF Typed, TypeOK
  <2> QED
    BY <1>1, <1>2, <2>1, HeldStays DEF Orderly
<1>4. \A i : Content(i)' = Content(i)
  BY DEF Content, Blank
<1>5. Gated' <=> Gated
  BY <1>4 DEF Gated, Excused
<1>6. \A c \in Commands : \A set : Replaces(c, set) => Replaces(c, set)'
  BY <1>3, <1>4 DEF Replaces, Whole, Versioned, Typed, TypeOK
<1>7. ASSUME NEW c \in Commands, AtItsWork(c) PROVE AtItsWork(c)'
  <2>1. Drafting(c) => Drafting(c)'
    <3>1. UNION {Held'[s] : s \in ToSet(Content(draft[c]).snaps)}
            = UNION {Held[s] : s \in ToSet(Content(draft[c]).snaps)}
      BY <1>3, ContentTyped DEF Typed, ContentsQuoting, ToSet
    <3> QED
      BY <1>4, <1>6, <3>1 DEF Drafting
  <2>2. Judging(c) => Judging(c)'
    BY <1>6 DEF Judging
  <2> QED
    BY <1>7, <2>1, <2>2 DEF AtItsWork
<1>8. Kept'
  <2>1. file # 0 => Whole(file)' = Whole(file)
    BY <1>3, FileKnown DEF Whole
  <2> QED
    BY <1>4, <2>1 DEF Kept, Versioned, Orderly, EmptyToFill
<1> QED
  BY <1>1, <1>5, <1>7, <1>8 DEF Orderly, AtTheirWork

\* The judgement before the file is read, a write that fails and a crash keep
\* the invariant.
LEMMA OrderlyQuiet ==
  ASSUME Typed, Typed', Orderly, ~upset', NEW c \in Commands,
         Judge(c) \/ WriteFails(c) \/ Crash(c)
  PROVE  Orderly'
<1>1. CASE Judge(c)
  <2>1. /\ pc[c] = "idle" /\ pc'[c] \in {"original", "read", "refused"}
        /\ asked[c].op = "evolve" => pc'[c] # "read"
        /\ asked[c].op = "solidify" /\ asked[c].gate /\ pc'[c] # "refused" => verdict'[c] = "passed"
        /\ \A d \in Commands \ {c} : pc'[d] = pc[d] /\ verdict'[d] = verdict[d]
        /\ UNCHANGED <<asked, rendered, file, draft, original, published>>
    BY <1>1 DEF Judge, Goto, Typed, TypeOK
  <2> QED
    BY <2>1, QuietStep DEF Filling
<1>2. CASE WriteFails(c) \/ Crash(c)
  <2>1. /\ pc[c] \notin Filling \cup {"idle", "refused"} /\ pc'[c] \in {"failed", "dead"}
        /\ \A d \in Commands \ {c} : pc'[d] = pc[d]
        /\ UNCHANGED <<asked, rendered, file, draft, original, verdict, published>>
    BY <1>2 DEF WriteFails, Crash, Writing, Cut, Goto, Filling, Ends, Typed, TypeOK
  <2> QED
    BY <2>1, QuietStep
<1> QED
  BY <1>1, <1>2

\* To begin while nobody else is at work.
LEMMA EnterAlone ==
  ASSUME NEW c \in Commands, Enter(c), ~upset'
  PROVE  Alone(c)
BY DEF Enter, Alone

\* Keeping a copy of the file before goal evolve replaces it keeps the
\* invariant.
LEMMA OrderlyKeepOriginal ==
  ASSUME Typed, Typed', Orderly, ~upset', NEW c \in Commands, KeepOriginal(c)
  PROVE  Orderly'
<1>1. /\ pc[c] = "original" /\ pc'[c] = "read" /\ original'[c] = file
      /\ \A d \in Commands \ {c} : pc'[d] = pc[d]
      /\ UNCHANGED <<asked, rendered, file, draft, verdict, published>>
      /\ Enter(c)
  BY DEF KeepOriginal, Goto, Typed, TypeOK
<1>2. /\ Serial /\ Ordered /\ EmptyToFill /\ Kept /\ Authors /\ Passed /\ Gated
  BY DEF Orderly
<1>3. Alone(c) /\ \A d \in Commands \ {c} : pc[d] \notin Drafted \cup {"adrift"}
                                     /\ ~(asked[d].op = "evolve" /\ pc[d] = "read")
  BY <1>1, EnterAlone, AloneMeans
<1>4. \A d \in Commands : /\ pc[d] \notin Drafted \cup Filling /\ pc'[d] \notin Drafted \cup Filling
  BY <1>1, <1>3 DEF Drafted, Judged, Filling
<1>5. Serial'
  <2>1. \A d \in Commands \ {c} : ~AtWork(d)'
    BY <1>1, <1>3 DEF Alone, AtWork
  <2> QED
    BY <1>1, <1>3, <2>1 DEF Serial
<1>6. Ordered' /\ EmptyToFill' /\ Passed'
  BY <1>1, <1>2, <1>4 DEF Ordered, EmptyToFill, Passed
<1>7. \A i \in DOMAIN rendered : Held'[i] = Held[i]
  <2>1. Len(rendered) <= Len(rendered') /\ \A i \in DOMAIN rendered : rendered'[i] = rendered[i]
    BY <1>1 DEF Typed, TypeOK
  <2> QED
    BY <1>2, <1>6, <2>1, HeldStays
<1>8. \A i : Content(i)' = Content(i)
  BY <1>1 DEF Content, Blank
<1>9. Kept'
  <2>1. file # 0 => Whole(file)' = Whole(file)
    BY <1>1, <1>7, FileKnown DEF Whole
  <2> QED
    BY <1>1, <1>2, <1>4, <1>8, <2>1 DEF Kept, Versioned, EmptyToFill
<1>10. AtTheirWork'
  BY <1>1, <1>3, <1>4 DEF AtTheirWork, AtItsWork, Drafted
<1>11. Authors'
  <2> SUFFICES ASSUME NEW d \in Commands, NEW i \in DOMAIN rendered, rendered[i].text = d
               PROVE  /\ asked[d].op \in {"solidify", "evolve"}
                      /\ pc'[d] \notin {"idle", "original", "read", "refused"}
                      /\ pc'[d] \in Drafted => i = draft[d]
    BY <1>1 DEF Authors
  <2>1. d # c
    BY <1>1, <1>2 DEF Authors
  <2> QED
    BY <1>1, <1>2, <2>1 DEF Authors
<1>12. Gated'
  <2> SUFFICES ASSUME NEW d \in Commands, asked[d].gate, NEW i \in published, Content(i).text = d
               PROVE  Excused(d)'
    BY <1>1, <1>4, <1>8 DEF Gated, Drafted
  <2>1. i \in DOMAIN rendered /\ rendered[i].text = d
    BY DEF Content, Typed, TypeOK
  <2>2. d # c
    BY <1>1, <1>2, <2>1 DEF Authors
  <2> QED
    BY <1>1, <1>2, <2>2 DEF Gated, Excused
<1> QED
  BY <1>5, <1>6, <1>9, <1>10, <1>11, <1>12 DEF Orderly

(***************************************************************************)
(* Rendering                                                               *)
(***************************************************************************)

\* A command that renders while no other is at work, one version above the file
\* and quoting all that the file holds; the body is its own proposal or one that
\* is in the file.
LEMMA OrderlyRender ==
  ASSUME Typed, Typed', Orderly, ~upset', NEW c \in Commands,
         NEW x \in ContentsQuoting(DOMAIN rendered), Render(c, x),
         UNCHANGED <<asked, file, original, verdict, faults, published>>,
         x.version = Content(file).version + 1,
         UNION {Held[s] : s \in ToSet(x.snaps)} = Whole(file),
         x.text \in {c, NoText} \/ \E i \in published : Content(i).text = x.text,
         IF asked[c].op \in {"solidify", "evolve"}
           THEN pc[c] = "read" ELSE pc[c] = "idle" /\ x.text # c
  PROVE  Orderly'
<1>0. PICK n : n = Len(rendered) + 1
  OBVIOUS
<1>1. /\ pc[c] \in {"idle", "read"} /\ pc'[c] = "truncate"
      /\ draft'[c] = n /\ rendered' = Append(rendered, x)
      /\ \A d \in Commands \ {c} : pc'[d] = pc[d] /\ draft'[d] = draft[d]
      /\ Enter(c)
  BY <1>0 DEF Render, Goto, Typed, TypeOK
<1>2. /\ DOMAIN rendered = 1..n - 1 /\ n \in Nat /\ n \notin DOMAIN rendered
      /\ DOMAIN rendered' = 1..n /\ DOMAIN rendered' = DOMAIN rendered \cup {n}
      /\ rendered'[n] = x /\ \A i \in DOMAIN rendered : rendered'[i] = rendered[i]
      /\ Len(rendered) <= Len(rendered')
  <2>1. PICK S : rendered \in Seq(S)
    BY DEF Typed, TypeOK
  <2>2. Len(rendered) \in Nat /\ DOMAIN rendered = 1..Len(rendered)
    BY <2>1
  <2>3. /\ Len(rendered') = n /\ DOMAIN rendered' = 1..n /\ rendered'[n] = x
        /\ \A i \in 1..Len(rendered) : rendered'[i] = rendered[i]
    BY <1>0, <1>1, <2>1
  <2> QED
    BY <1>0, <2>2, <2>3
<1>3. /\ Serial /\ Ordered /\ EmptyToFill /\ Kept /\ AtTheirWork /\ Authors /\ Passed /\ Gated
  BY DEF Orderly
<1>4. Alone(c) /\ \A d \in Commands \ {c} : pc[d] \notin Drafted \cup {"adrift"}
                                     /\ ~(asked[d].op = "evolve" /\ pc[d] = "read")
  BY <1>1, EnterAlone, AloneMeans
<1>5. /\ \A d \in Commands : pc[d] \notin Drafted \cup Filling /\ pc'[d] \notin Filling
      /\ \A d \in Commands \ {c} : pc'[d] \notin Drafted
  BY <1>1, <1>4 DEF Drafted, Judged, Filling
<1>6. /\ file # 0 /\ published = Whole(file) /\ Versioned(file, published)
      /\ file \in DOMAIN rendered \/ file = NoFile
  BY <1>3, <1>5, FileKnown DEF EmptyToFill, Kept
<1>7. Serial'
  <2>1. \A d \in Commands \ {c} : ~AtWork(d)'
    BY <1>1, <1>4 DEF Alone, AtWork
  <2> QED
    BY <1>1, <1>4, <2>1 DEF Serial
<1>8. Ordered'
  <2>1. ToSet(x.snaps) \subseteq 1..n - 1
    BY <1>2 DEF ContentsQuoting, ToSet
  <2> QED
    BY <1>2, <1>3, <2>1 DEF Ordered
<1>9. \A i \in DOMAIN rendered : Held'[i] = Held[i]
  BY <1>2, <1>3, <1>8, HeldStays
<1>10. (\A i \in DOMAIN rendered : Content(i)' = Content(i)) /\ Content(NoFile)' = Content(NoFile)
       /\ Content(n)' = x
  <2>1. NoFile \notin DOMAIN rendered'
    BY <1>2, SkillFilesAssumption
  <2>2. \A i \in DOMAIN rendered' : Content(i)' = rendered'[i]
    BY DEF Content
  <2>3. \A i \in DOMAIN rendered : Content(i) = rendered[i] /\ i \in DOMAIN rendered'
    BY <1>2 DEF Content
  <2>4. Content(NoFile)' = Content(NoFile)
    BY <2>1, FileKnown DEF Content, Blank
  <2> QED
    BY <1>2, <2>2, <2>3, <2>4
<1>11. /\ Content(file)' = Content(file) /\ Whole(file)' = Whole(file)
       /\ \A i \in published : i \in DOMAIN rendered /\ Content(i)' = Content(i)
  BY <1>6, <1>9, <1>10 DEF Whole, Typed, TypeOK
<1>12. EmptyToFill'
  BY <1>5, <1>6 DEF EmptyToFill
<1>13. Kept'
  BY <1>3, <1>6, <1>11 DEF Kept, Versioned
<1>14. AtTheirWork'
  <2>1. \A i \in published : Content(i).version \in Nat /\ Content(i).version < x.version
    BY <1>6, ContentTyped DEF Versioned, Typed, ContentsQuoting
  <2>2. published = UNION {Held'[s] : s \in ToSet(x.snaps)}
    <3>1. ToSet(x.snaps) \subseteq DOMAIN rendered
      BY DEF ContentsQuoting, ToSet
    <3>2. {Held'[s] : s \in ToSet(x.snaps)} = {Held[s] : s \in ToSet(x.snaps)}
      BY <1>9, <3>1
    <3> QED
      BY <1>6, <3>2
  <2>3. asked[c].op = "evolve" => Replaces(c, published)'
    <3>1. asked[c].op = "evolve" => original[c] = file
      BY <1>3 DEF AtTheirWork, AtItsWork
    <3>2. asked[c].op = "evolve" => Whole(original[c])' = Whole(file)' /\ original'[c] = file'
      BY <3>1 DEF Whole
    <3>3. draft'[c] \notin published'
      BY <1>1, <1>2 DEF Typed, TypeOK
    <3>4. Versioned(file, published)'
      BY <1>6, <1>11 DEF Versioned
    <3>5. asked[c].op = "evolve" => Versioned(original[c], published)'
      BY <3>2, <3>4 DEF Versioned
    <3> QED
      BY <1>6, <1>11, <3>2, <3>3, <3>5 DEF Replaces
  <2>4. Drafting(c)'
    <3>1. Content(draft[c])' = x /\ draft'[c] \notin published'
      BY <1>1, <1>2, <1>10 DEF Typed, TypeOK
    <3>2. \A i \in published' : Content(i)'.version < Content(draft[c])'.version
      BY <1>11, <2>1, <3>1
    <3> QED
      BY <2>2, <2>3, <3>1, <3>2 DEF Drafting
  <2>5. AtItsWork(c)'
    BY <1>1, <2>4 DEF AtItsWork, Judged
  <2>6. \A d \in Commands \ {c} : AtItsWork(d)'
    BY <1>1, <1>4, <1>5 DEF AtItsWork, Drafted
  <2> QED
    BY <2>5, <2>6 DEF AtTheirWork
<1>15. \A i \in DOMAIN rendered : rendered[i].text # c
  BY <1>1, <1>3 DEF Authors
<1>16. Authors'
  <2> SUFFICES ASSUME NEW d \in Commands, NEW i \in DOMAIN rendered', rendered'[i].text = d
               PROVE  /\ asked[d].op \in {"solidify", "evolve"}
                      /\ pc'[d] \notin {"idle", "original", "read", "refused"}
                      /\ pc'[d] \in Drafted => i = draft'[d]
    BY DEF Authors
  <2>1. CASE i # n
    <3>1. i \in DOMAIN rendered /\ rendered[i].text = d /\ d # c
      BY <1>2, <1>15, <2>1
    <3> QED
      BY <1>1, <1>3, <3>1 DEF Authors
  <2>2. CASE i = n /\ d = c
    BY <1>1, <1>2, <2>2
  <2>3. CASE i = n /\ d # c
    <3>1. PICK j \in published : Content(j).text = d
      BY <1>2, <2>3, SkillFilesAssumption
    <3>2. j \in DOMAIN rendered /\ rendered[j].text = d
      BY <1>11, <3>1 DEF Content
    <3> QED
      BY <1>1, <1>3, <1>5, <2>3, <3>2 DEF Authors
  <2> QED
    BY <2>1, <2>2, <2>3
<1>17. Passed'
  BY <1>1, <1>3 DEF Passed
<1>18. Gated'
  <2>1. ASSUME NEW d \in Commands, asked[d].gate, NEW i \in published, Content(i).text = d
        PROVE  d # c /\ Excused(d)'
    <3>1. i \in DOMAIN rendered /\ rendered[i].text = d
      BY <1>11, <2>1 DEF Content
    <3> QED
      BY <1>1, <1>3, <1>15, <2>1, <3>1 DEF Gated, Excused
  <2>2. ASSUME NEW d \in Commands, asked[d].gate, x.text = d, d # c PROVE Excused(d)'
    BY <2>1, <2>2, SkillFilesAssumption
  <2>3. \A d \in Commands : pc'[d] \in {"truncate", "fill"} => d = c
    BY <1>5 DEF Drafted
  <2> QED
    <3>1. Content(draft[c])' = x
      BY <1>1, <1>10
    <3> SUFFICES ASSUME NEW d \in Commands, asked[d].gate
                 PROVE  /\ \A i \in published : Content(i)'.text = d => Excused(d)'
                        /\ \A e \in Commands :
                             pc'[e] \in {"truncate", "fill"} /\ Content(draft[e])'.text = d
                               => d = e \/ Excused(d)'
      BY DEF Gated
    <3> QED
      BY <1>11, <2>1, <2>2, <2>3, <3>1
<1> QED
  BY <1>7, <1>8, <1>12, <1>13, <1>14, <1>16, <1>17, <1>18 DEF Orderly

\* What the three commands find in a file that is there.
LEMMA FileHolds ==
  ASSUME Typed, Ordered, file # 0
  PROVE  /\ UNION {Held[s] : s \in ToSet(Quoted(file))} = Whole(file)
         /\ file # NoFile =>
              /\ file \in Whole(file)
              /\ ToSet(Content(file).snaps) \subseteq Whole(file) \cap DOMAIN rendered
              /\ UNION {Held[s] : s \in ToSet(Content(file).snaps)} \subseteq Whole(file)
<1>1. file # NoFile => file \in DOMAIN rendered /\ Content(file) = rendered[file]
  BY FileKnown DEF Content
<1>2. CASE file = NoFile
  <2>1. ToSet(Quoted(file)) = {}
    BY <1>2, FileKnown DEF Quoted, ToSet
  <2> QED
    BY <1>2, <2>1 DEF Whole
<1>3. CASE file # NoFile
  <2>1. ToSet(Quoted(file)) = {file}
    BY <1>1, <1>3 DEF Quoted, ToSet
  <2>2. /\ Held[file] = {file} \cup UNION {Held[s] : s \in ToSet(rendered[file].snaps)}
        /\ Whole(file) = Held[file]
    BY <1>1, <1>3, HeldEquation DEF Typed, Whole
  <2>3. ToSet(Content(file).snaps) \subseteq DOMAIN rendered
    BY ContentTyped DEF Typed, ContentsQuoting, ToSet
  <2>4. \A s \in ToSet(Content(file).snaps) : s \in Held[s]
    BY <2>3, HeldInside
  <2> QED
    BY <1>1, <1>3, <2>1, <2>2, <2>3, <2>4
<1> QED
  BY <1>2, <1>3

\* Each rendering quotes all that the file holds and nothing else.
LEMMA RenderingsHold ==
  ASSUME Typed, Ordered, file # 0
  PROVE  /\ \A c \in Commands :
              UNION {Held[s] : s \in ToSet(Solidified(c, file).snaps)} = Whole(file)
         /\ file # NoFile =>
              \A status \in {"deprecated", "retired"} :
                /\ UNION {Held[s] : s \in ToSet(Retired(file, status).snaps)} = Whole(file)
                /\ Retired(file, status).text = Content(file).text
         /\ file # NoFile /\ Extractable(file) # NoFile =>
              /\ UNION {Held[s] : s \in ToSet(RolledBack(file).snaps)} = Whole(file)
              /\ \E i \in Whole(file) : Content(i).text = RolledBack(file).text
<1>1. Quoted(file) \in Seq(DOMAIN rendered)
  <2>1. file \in DOMAIN rendered => <<file>> \in Seq(DOMAIN rendered)
    OBVIOUS
  <2>2. <<>> \in Seq(DOMAIN rendered)
    OBVIOUS
  <2> QED
    BY <2>1, <2>2 DEF Quoted
<1>2. \A i : Content(i).snaps \in Seq(DOMAIN rendered)
  BY ContentTyped DEF Typed, ContentsQuoting
<1>3. \A S : \A s, t \in Seq(S) : ToSet(s \o t) = ToSet(s) \cup ToSet(t)
  <2> TAKE S
  <2> TAKE s, t \in Seq(S)
  <2>1. /\ Len(s) \in Nat /\ Len(t) \in Nat
        /\ DOMAIN s = 1..Len(s) /\ DOMAIN t = 1..Len(t) /\ DOMAIN (s \o t) = 1..Len(s) + Len(t)
        /\ \A i \in 1..Len(s) : (s \o t)[i] = s[i]
        /\ \A i \in 1..Len(t) : (s \o t)[Len(s) + i] = t[i] /\ Len(s) + i \in 1..Len(s) + Len(t)
        /\ \A i \in 1..Len(s) + Len(t) : i \in 1..Len(s) \/ i - Len(s) \in 1..Len(t)
    OBVIOUS
  <2>2. \A i \in 1..Len(s) + Len(t) : (s \o t)[i] \in ToSet(s) \cup ToSet(t)
    <3> TAKE i \in 1..Len(s) + Len(t)
    <3>1. CASE i \in 1..Len(s)
      BY <2>1, <3>1 DEF ToSet
    <3>2. CASE i - Len(s) \in 1..Len(t)
      <4>1. (s \o t)[i] = t[i - Len(s)]
        BY <2>1, <3>2
      <4> QED
        BY <2>1, <3>2, <4>1 DEF ToSet
    <3> QED
      BY <2>1, <3>1, <3>2
  <2>3. \A i \in 1..Len(s) : s[i] \in ToSet(s \o t)
    BY <2>1 DEF ToSet
  <2>4. \A i \in 1..Len(t) : t[i] \in ToSet(s \o t)
    BY <2>1 DEF ToSet
  <2>5. ToSet(s \o t) \subseteq ToSet(s) \cup ToSet(t)
    BY <2>1, <2>2 DEF ToSet
  <2>6. ToSet(s) \subseteq ToSet(s \o t)
    BY <2>1, <2>3 DEF ToSet
  <2>7. ToSet(t) \subseteq ToSet(s \o t)
    BY <2>1, <2>4 DEF ToSet
  <2> QED
    BY <2>5, <2>6, <2>7
<1>4. \A c \in Commands : UNION {Held[s] : s \in ToSet(Solidified(c, file).snaps)} = Whole(file)
  BY FileHolds DEF Solidified
<1>5. ASSUME file # NoFile, NEW status \in {"deprecated", "retired"}
      PROVE  /\ UNION {Held[s] : s \in ToSet(Retired(file, status).snaps)} = Whole(file)
             /\ Retired(file, status).text = Content(file).text
  <2>1. ToSet(Retired(file, status).snaps) = ToSet(Content(file).snaps) \cup ToSet(Quoted(file))
    BY <1>1, <1>2, <1>3 DEF Retired
  <2>2. UNION {Held[s] : s \in ToSet(Retired(file, status).snaps)} = Whole(file)
    <3> DEFINE old == ToSet(Content(file).snaps)
               new == ToSet(Quoted(file))
               all == UNION {Held[s] : s \in old \cup new}
    <3>1. \A s \in old : Held[s] \subseteq Whole(file)
      BY <1>5, FileHolds
    <3>2. UNION {Held[s] : s \in new} = Whole(file)
      BY FileHolds
    <3>3. all \subseteq Whole(file)
      BY <3>1, <3>2
    <3>4. Whole(file) \subseteq all
      BY <3>2
    <3> QED
      BY <2>1, <3>3, <3>4
  <2>3. Retired(file, status).text = Content(file).text
    BY DEF Retired
  <2> QED
    BY <2>2, <2>3
<1>6. ASSUME file # NoFile, Extractable(file) # NoFile
      PROVE  /\ UNION {Held[s] : s \in ToSet(RolledBack(file).snaps)} = Whole(file)
             /\ \E i \in Whole(file) : Content(i).text = RolledBack(file).text
  <2> DEFINE e == Extractable(file)
             snaps == Content(file).snaps
  <2>1. snaps # <<>> /\ e = Head(snaps) /\ Content(e).snaps = <<>>
    BY <1>6 DEF Extractable
  <2>2. e \in ToSet(snaps)
    BY <1>2, <2>1 DEF ToSet
  <2>3. RolledBack(file).snaps = Quoted(file) /\ RolledBack(file).text = Content(e).text
    BY <1>1, <2>1 DEF RolledBack
  <2> QED
    BY <1>6, <2>2, <2>3, FileHolds
<1> QED
  BY <1>4, <1>5, <1>6

\* Reading the file to render from it keeps the invariant.
LEMMA OrderlyRead ==
  ASSUME Typed, Typed', Orderly, ~upset', NEW c \in Commands,
         ReadToSolidify(c) \/ ReadToRetire(c) \/ ReadToRollBack(c)
  PROVE  Orderly'
<1>1. asked[c].op \in Ops
  BY SkillFilesAssumption DEF Typed, TypeOK
<1>2. /\ Serial /\ Ordered /\ EmptyToFill /\ Kept /\ Authors
  BY DEF Orderly
<1>3. ASSUME NEW x, Render(c, x)
      PROVE  file # 0 /\ published = Whole(file)
  <2>1. \A d \in Commands \ {c} : pc[d] \notin Filling
    BY <1>3, EnterAlone, AloneMeans DEF Render, Drafted, Judged, Filling
  <2>2. pc[c] \notin Filling
    BY DEF ReadToSolidify, ReadToRetire, ReadToRollBack, Filling
  <2> QED
    BY <1>2, <2>1, <2>2 DEF EmptyToFill, Kept
<1>4. CASE ReadToSolidify(c)
  <2>1. Render(c, Solidified(c, file)) /\ pc[c] = "read" /\ Solidified(c, file).text = c
    BY <1>4 DEF ReadToSolidify, Solidified
  <2>2. asked[c].op \in {"solidify", "evolve"}
    BY <2>1 DEF Typed, Begun
  <2>3. Solidified(c, file) \in ContentsQuoting(DOMAIN rendered)
    BY RenderingsTyped DEF Typed
  <2>4. /\ Solidified(c, file).version = Content(file).version + 1
        /\ UNION {Held[s] : s \in ToSet(Solidified(c, file).snaps)} = Whole(file)
    BY <1>2, <1>3, <2>1, RenderingsHold DEF Solidified, NextVersion
  <2> QED
    BY <1>4, <2>1, <2>2, <2>3, <2>4, OrderlyRender DEF ReadToSolidify
<1>5. ASSUME NEW x \in ContentsQuoting(DOMAIN rendered), Render(c, x),
             pc[c] = "idle", asked[c].op \notin {"solidify", "evolve"},
             UNCHANGED <<asked, file, original, verdict, faults, published>>,
             x.version = Content(file).version + 1,
             UNION {Held[s] : s \in ToSet(x.snaps)} = Whole(file),
             \E i \in Whole(file) : Content(i).text = x.text
      PROVE  Orderly'
  <2>1. PICK i \in published : Content(i).text = x.text
    BY <1>3, <1>5
  <2>2. i \in DOMAIN rendered /\ rendered[i].text = x.text
    BY <2>1 DEF Content, Typed, TypeOK
  <2>3. x.text # c
    BY <1>2, <1>5, <2>2 DEF Authors
  <2> QED
    BY <1>5, <2>1, <2>3, OrderlyRender
<1>6. ASSUME pc[c] = "idle", asked[c].op \notin {"solidify", "evolve"}, pc'[c] = "refused",
             \A d \in Commands \ {c} : pc'[d] = pc[d],
             UNCHANGED <<asked, rendered, file, draft, original, verdict, published>>
      PROVE  Orderly'
  BY <1>6, QuietStep DEF Filling
<1>7. CASE ReadToRetire(c)
  <2>1. pc[c] = "idle" /\ asked[c].op \in {"deprecated", "retired"}
    BY <1>7 DEF ReadToRetire
  <2>2. CASE file = NoFile
    BY <1>6, <1>7, <2>1, <2>2 DEF ReadToRetire, Goto, Typed, TypeOK
  <2>3. CASE file # NoFile
    <3> DEFINE x == Retired(file, asked[c].op)
    <3>1. Render(c, x) /\ UNCHANGED <<asked, file, original, verdict, faults, published>>
      BY <1>7, <2>3 DEF ReadToRetire
    <3>2. x \in ContentsQuoting(DOMAIN rendered)
      BY <2>1, RenderingsTyped DEF Typed
    <3>3. file # 0
      BY <1>3, <3>1
    <3>4. /\ UNION {Held[s] : s \in ToSet(x.snaps)} = Whole(file)
          /\ x.text = Content(file).text
      BY <1>2, <2>1, <2>3, <3>3, RenderingsHold
    <3>5. \E i \in Whole(file) : Content(i).text = x.text
      BY <1>2, <2>3, <3>3, <3>4, FileHolds
    <3>6. x.version = Content(file).version + 1
      BY DEF Retired, NextVersion
    <3> HIDE DEF x
    <3> QED
      BY <1>5, <2>1, <3>1, <3>2, <3>4, <3>5, <3>6
  <2> QED
    BY <2>2, <2>3
<1>8. CASE ReadToRollBack(c)
  <2>1. pc[c] = "idle" /\ asked[c].op = "rollback"
    BY <1>8 DEF ReadToRollBack
  <2>2. CASE file = NoFile \/ Extractable(file) = NoFile
    BY <1>6, <1>8, <2>1, <2>2 DEF ReadToRollBack, Goto, Typed, TypeOK
  <2>3. CASE ~(file = NoFile \/ Extractable(file) = NoFile)
    <3> DEFINE x == RolledBack(file)
    <3>1. Render(c, x) /\ UNCHANGED <<asked, file, original, verdict, faults, published>>
      BY <1>8, <2>3 DEF ReadToRollBack
    <3>2. x \in ContentsQuoting(DOMAIN rendered)
      BY RenderingsTyped DEF Typed
    <3>3. file # 0
      BY <1>3, <3>1
    <3>4. /\ UNION {Held[s] : s \in ToSet(x.snaps)} = Whole(file)
          /\ \E i \in Whole(file) : Content(i).text = x.text
      BY <1>2, <2>3, <3>3, RenderingsHold
    <3>5. x.version = Content(file).version + 1
      BY DEF RolledBack, RolledBackVersion, NextVersion
    <3> HIDE DEF x
    <3> QED
      BY <1>5, <2>1, <3>1, <3>2, <3>4, <3>5
  <2> QED
    BY <2>2, <2>3
<1> QED
  BY <1>4, <1>7, <1>8

(***************************************************************************)
(* The invariant                                                           *)
(***************************************************************************)

\* At first there is no file and nobody is at work.
LEMMA InitOrderly == Init => IInv
<1> SUFFICES ASSUME Init PROVE IInv
  OBVIOUS
<1> USE SkillFilesAssumption
<1>1. rendered = <<>> /\ DOMAIN rendered = {} /\ Len(rendered) = 0 /\ \A S : <<>> \in Seq(S)
  BY DEF Init
<1>2. TypeOK
  <2>1. rendered \in Seq([text : Commands \cup {NoText}, version : Nat,
                         status : {"active", "deprecated", "retired"}, snaps : Seq(DOMAIN rendered)])
    BY <1>1
  <2>2. /\ file \in 0..Len(rendered) \cup {NoFile}
        /\ draft \in [Commands -> 0..Len(rendered)]
        /\ original \in [Commands -> 0..Len(rendered) \cup {NoFile}]
        /\ published \in SUBSET (DOMAIN rendered)
    BY <1>1 DEF Init
  <2>3. pc \in [Commands -> Ends \cup {"idle", "original", "read", "truncate", "fill",
                                    "verify", "restore", "refill", "remove", "adrift"}]
    BY DEF Init
  <2>4. /\ asked \in [Commands -> Requests] /\ verdict \in [Commands -> {"none", "passed", "rejected"}]
        /\ upset \in BOOLEAN
    BY DEF Init
  <2>5. faults \in 0..MaxFaults
    BY DEF Init
  <2> QED
    BY <2>1, <2>2, <2>3, <2>4, <2>5 DEF TypeOK
<1>3. Begun
  BY DEF Init, Begun, Drafted, Judged
<1>4. Serial /\ Ordered /\ EmptyToFill /\ AtTheirWork /\ Authors /\ Passed
  BY <1>1 DEF Init, Serial, AtWork, Ordered, EmptyToFill, Filling, AtTheirWork, AtItsWork, Judged,
              Authors, Passed
<1>5. Kept /\ Gated
  BY DEF Init, Kept, Whole, Versioned, Gated
<1> QED
  BY <1>2, <1>3, <1>4, <1>5 DEF IInv, Orderly

\* Whatever a command does, the invariant stays.
LEMMA StepOrderly == IInv /\ [Next]_vars => IInv'
<1> SUFFICES ASSUME IInv, [Next]_vars PROVE IInv'
  OBVIOUS
<1>1. Typed /\ Typed'
  <2>1. Typed
    BY DEF IInv, Typed
  <2> QED
    BY <2>1, StepTyped
<1>2. SUFFICES ASSUME ~upset' PROVE Orderly'
  BY <1>1 DEF IInv, Typed
<1>3. ~upset
  BY <1>2 DEF Next, vars, Judge, KeepOriginal, ReadToSolidify, ReadToRetire, ReadToRollBack, Truncate,
              Fill, Verify, Restore, RemoveCreated, FillAdrift, WriteFails, Crash, Render, Enter, Cut
<1>4. Orderly
  BY <1>3 DEF IInv
<1>5. CASE UNCHANGED vars
  BY <1>1, <1>4, <1>5, OrderlyUnchanged
<1>6. ASSUME NEW c \in Commands, Judge(c) \/ WriteFails(c) \/ Crash(c) PROVE Orderly'
  BY <1>1, <1>2, <1>4, <1>6, OrderlyQuiet
<1>7. ASSUME NEW c \in Commands, KeepOriginal(c) PROVE Orderly'
  BY <1>1, <1>2, <1>4, <1>7, OrderlyKeepOriginal
<1>8. ASSUME NEW c \in Commands, ReadToSolidify(c) \/ ReadToRetire(c) \/ ReadToRollBack(c)
      PROVE  Orderly'
  BY <1>1, <1>2, <1>4, <1>8, OrderlyRead
<1>9. ASSUME NEW c \in Commands, Truncate(c) PROVE Orderly'
  BY <1>1, <1>4, <1>9, OrderlyTruncate
<1>10. ASSUME NEW c \in Commands, Fill(c) PROVE Orderly'
  BY <1>1, <1>4, <1>10, OrderlyFill
<1>11. ASSUME NEW c \in Commands, Verify(c) PROVE Orderly'
  BY <1>1, <1>4, <1>11, OrderlyVerify
<1>12. ASSUME NEW c \in Commands, Restore(c) \/ RemoveCreated(c) PROVE Orderly'
  BY <1>1, <1>4, <1>12, OrderlyTakeBack
<1>13. ASSUME NEW c \in Commands PROVE ~FillAdrift(c)
  BY <1>4 DEF FillAdrift, Orderly, Serial
<1> QED
  BY <1>5, <1>6, <1>7, <1>8, <1>9, <1>10, <1>11, <1>12, <1>13 DEF Next

\* The invariant holds in every state.
LEMMA Invariant == Spec => []IInv
BY InitOrderly, StepOrderly, PTL DEF Spec

\* Types hold, and as long as commands do not overlap a version number names one
\* published content and the file has the highest: retiring, rolling back and taking
\* back never hand a number out again.
THEOREM Versions == Spec => []SkillWellFormed
<1>1. IInv => SkillWellFormed
  <2> SUFFICES ASSUME IInv PROVE SkillWellFormed
    OBVIOUS
  <2>1. Calm => Kept /\ \A c \in Commands : pc[c] \notin Filling
    BY DEF IInv, Calm, Orderly, Filling
  <2>2. VersionsGrow
    BY <2>1 DEF VersionsGrow, Kept, Versioned
  <2> QED
    BY <2>2 DEF IInv, SkillWellFormed
<1> QED
  BY <1>1, Invariant, PTL

\* As long as commands do not overlap, the file holds every version that was
\* published and not taken back by goal evolve, and nothing else, however many were
\* rendered and rolled back.
THEOREM NothingIsLost == Spec => []HistoryIsWhole
<1>1. IInv => HistoryIsWhole
  BY DEF IInv, Calm, Orderly, Filling, HistoryIsWhole, Kept, Whole
<1> QED
  BY <1>1, Invariant, PTL

\* As long as commands do not overlap, a gated proposal that the benchmark did not
\* pass is in the file only while goal evolve is at it or if it could not finish.
THEOREM ProposalsPassed == Spec => []GateHolds
<1>1. IInv => GateHolds
  <2> SUFFICES ASSUME IInv, NEW c \in Commands, Calm, asked[c].gate, file # NoFile,
                      NEW i \in Held[file], Content(i).text = c
               PROVE  \/ verdict[c] = "passed"
                      \/ pc[c] \in {"verify", "restore", "remove", "unverified", "failed", "dead"}
    BY DEF GateHolds
  <2>1. Kept /\ Gated /\ \A d \in Commands : pc[d] \notin Filling
    BY DEF IInv, Calm, Orderly, Filling
  <2>2. i \in published
    BY <2>1 DEF Kept, Whole
  <2>3. Excused(c)
    BY <2>1, <2>2 DEF Gated
  <2> QED
    BY <2>1, <2>3 DEF Excused, Judged, Filling
<1> QED
  BY <1>1, Invariant, PTL

(***************************************************************************)
(* Rules: places in sequences                                              *)
(***************************************************************************)

\* The first of some numbers.
LEMMA FirstOf ==
  ASSUME NEW T, T \subseteq Nat, T # {}
  PROVE  Min(T) \in T /\ \A n \in T : Min(T) <= n
BY SmallestNat DEF Min

\* The last of some places.
LEMMA LastOf ==
  ASSUME NEW n \in Nat, NEW T, T \subseteq 1..n, T # {}
  PROVE  Max(T) \in T /\ \A m \in T : m <= Max(T)
<1> DEFINE U == {n - x : x \in T}
<1>0. \A x \in T : n - x \in Nat
  OBVIOUS
<1>1. U \subseteq Nat /\ U # {}
  BY <1>0
<1> HIDE DEF U
<1>2. PICK u \in U : \A v \in U : u <= v
  BY <1>1, SmallestNat
<1>3. PICK x \in T : u = n - x
  BY <1>2 DEF U
<1>4. \A y \in T : n - x <= n - y
  BY <1>2, <1>3, <1>0 DEF U
<1>5. \A y \in T : x >= y
  BY <1>4
<1> QED
  BY <1>5 DEF Max

\* What occurs at some place of a sequence is finite.
LEMMA ImageFinite ==
  ASSUME NEW n \in Nat, NEW f, NEW S, \A s \in S : \E i \in 1..n : f[i] = s
  PROVE  IsFiniteSet(S)
<1> DEFINE T == {f[i] : i \in 1..n}
          g == [i \in 1..n |-> f[i]]
<1>1. g \in Surjection(1..n, T)
  BY DEF Surjection
<1>2. IsFiniteSet(T)
  BY <1>1, FS_NatSurjection DEF ExistsSurjection
<1>3. S \subseteq T
  OBVIOUS
<1> QED
  BY <1>2, <1>3, FS_Subset

\* A finite set as a sequence.
LEMMA ListOf ==
  ASSUME NEW S, IsFiniteSet(S)
  PROVE  SetToSeq(S) \in Seq(S)
<1>1. Cardinality(S) \in Nat /\ ExistsBijection(1..Cardinality(S), S)
  BY FS_CardinalityType
<1>2. \E f \in [1..Cardinality(S) -> S] : IsInjective(f)
  BY <1>1 DEF ExistsBijection, Bijection, Injection, IsInjective
<1>3. SetToSeq(S) \in [1..Cardinality(S) -> S]
  BY <1>2 DEF SetToSeq
<1> QED
  BY <1>1, <1>3

(***************************************************************************)
(* Rules: types                                                            *)
(***************************************************************************)

\* Where a process is tells what it has.
Staged ==
  /\ change = [p \in Procs |-> change[p]]
  /\ \A p \in Procs :
       /\ at[p] \in {"observe", "refill", "propose"} => p \in Turns
       /\ at[p] = "find" => p \in Rollbacks
       /\ at[p] = "refill" => mem[p] # <<>>
       /\ at[p] = "propose" => patterns[p] # <<>>
       /\ patterns[p] # <<>> => p \in Turns
       /\ Changing(p) => change[p] \in Changes

\* What a process has in memory.
PrivateTyped ==
  /\ mem \in [Procs -> Seq(Events)]
  /\ left \in [Procs -> Seq(Events)]
  /\ patterns \in [Procs -> Seq(Signatures)]
  /\ change = [p \in Procs |-> change[p]]
  /\ \A p \in Procs : change[p] = NoChange \/ change[p] \in Changes
  /\ before \in [Procs -> Rules \cup {NoRule}]
  /\ version \in [Procs -> Nat]
  /\ after \in [Procs -> Rules \cup {NoRule}]
  /\ copy \in [Procs -> Seq(Entries)]

\* What is on disk, and the history.
SharedTyped ==
  /\ observed \in Seq(Events)
  /\ rules \in [Signatures -> Rules \cup {NoRule}]
  /\ journal \in Seq(Entries)
  /\ mishaps \in 0..MaxMishaps
  /\ happened \in Seq(Events)
  /\ byHand \in [Signatures -> {"none"} \cup Edits]
  /\ disturbed \in SUBSET {"observed", "changes"}

Steps == Final \cup {"idle", "observe", "refill", "propose", "find", "before",
  "version", "truncate", "fill", "reread", "load", "cut", "append"}

\* The types in parts: of the private, of the shared, and of what goes with a
\* step.
LEMMA RulesTypedParts ==
  RulesTyped /\ Staged
    <=> /\ batch \in [Turns -> Batches]
        /\ at \in [Procs -> Steps]
        /\ PrivateTyped /\ SharedTyped /\ Staged
BY DEF RulesTyped, Staged, PrivateTyped, SharedTyped, Steps

\* A process that forgets still has memory of the right types.
LEMMA ForgetTyped ==
  ASSUME PrivateTyped, NEW p \in Procs, Forget(p)
  PROVE  /\ PrivateTyped'
         /\ patterns'[p] = <<>> /\ change'[p] = NoChange
         /\ \A q \in Procs \ {p} : /\ mem'[q] = mem[q] /\ patterns'[q] = patterns[q]
                                   /\ change'[q] = change[q]
<1>1. /\ <<>> \in Seq(Events) /\ <<>> \in Seq(Signatures) /\ <<>> \in Seq(Entries)
  OBVIOUS
<1>2. mem' \in [Procs -> Seq(Events)] /\ left' \in [Procs -> Seq(Events)]
  BY <1>1 DEF PrivateTyped, Forget
<1>3. patterns' \in [Procs -> Seq(Signatures)]
  BY <1>1 DEF PrivateTyped, Forget
<1>4. change' = [q \in Procs |-> change'[q]] /\ change'[p] = NoChange
  BY DEF PrivateTyped, Forget
<1>5. \A q \in Procs \ {p} : change'[q] = change[q]
  BY DEF PrivateTyped, Forget
<1>6. before' \in [Procs -> Rules \cup {NoRule}] /\ after' \in [Procs -> Rules \cup {NoRule}]
  BY DEF PrivateTyped, Forget
<1>7. version' \in [Procs -> Nat] /\ copy' \in [Procs -> Seq(Entries)]
  BY <1>1 DEF PrivateTyped, Forget
<1>8. \A q \in Procs : change'[q] = NoChange \/ change'[q] \in Changes
  BY <1>4, <1>5 DEF PrivateTyped
<1>9. /\ patterns'[p] = <<>>
      /\ \A q \in Procs \ {p} : mem'[q] = mem[q] /\ patterns'[q] = patterns[q]
  BY DEF PrivateTyped, Forget
<1> QED
  BY <1>2, <1>3, <1>4, <1>5, <1>6, <1>7, <1>8, <1>9 DEF PrivateTyped

\* What is left of more than one.
LEMMA TailOfLonger ==
  ASSUME NEW S, NEW list \in Seq(S), Len(list) > 1
  PROVE  Tail(list) \in Seq(S) /\ Tail(list) # <<>>
<1>1. list # <<>>
  OBVIOUS
<1>2. Tail(list) \in Seq(S) /\ Len(Tail(list)) = Len(list) - 1
  BY <1>1
<1> PICK rest : rest = Tail(list)
  OBVIOUS
<1>3. rest \in Seq(S) /\ Len(rest) # 0
  BY <1>2
<1>4. rest # <<>>
  BY <1>3
<1> QED
  BY <1>2, <1>4

\* The same for one that leaves a change.
LEMMA LeaveTyped ==
  ASSUME PrivateTyped, Staged, at \in [Procs -> Steps],
         NEW p \in Procs, NEW result \in Final, Leave(p, result)
  PROVE  /\ PrivateTyped' /\ Staged'
         /\ at' = [at EXCEPT ![p] = at'[p]]
         /\ at'[p] \in Final \cup {"propose"}
         /\ change'[p] = NoChange
         /\ \A q \in Procs \ {p} : /\ mem'[q] = mem[q] /\ patterns'[q] = patterns[q]
                                   /\ change'[q] = change[q]
<1>1. CASE Len(patterns[p]) > 1
  <2>1. patterns[p] \in Seq(Signatures) /\ patterns[p] # <<>>
    BY <1>1 DEF PrivateTyped
  <2>2. Tail(patterns[p]) \in Seq(Signatures) /\ Tail(patterns[p]) # <<>>
    BY <1>1, <2>1, TailOfLonger
  <2>3. p \in Turns
    BY <2>1 DEF Staged
  <2>4. patterns' \in [Procs -> Seq(Signatures)] /\ patterns'[p] = Tail(patterns[p])
    BY <1>1, <2>2 DEF PrivateTyped, Leave
  <2>5. /\ change' = [q \in Procs |-> change'[q]] /\ change'[p] = NoChange
        /\ \A q \in Procs \ {p} : change'[q] = change[q]
    BY <1>1 DEF PrivateTyped, Leave
  <2>6. before' \in [Procs -> Rules \cup {NoRule}] /\ after' \in [Procs -> Rules \cup {NoRule}]
    BY <1>1 DEF PrivateTyped, Leave
  <2>7. version' \in [Procs -> Nat] /\ copy' \in [Procs -> Seq(Entries)]
    <3>1. <<>> \in Seq(Entries)
      OBVIOUS
    <3>2. version' = [version EXCEPT ![p] = 0] /\ copy' = [copy EXCEPT ![p] = <<>>]
      BY <1>1 DEF Leave
    <3>3. version \in [Procs -> Nat] /\ copy \in [Procs -> Seq(Entries)]
      BY DEF PrivateTyped
    <3> QED
      BY <3>1, <3>2, <3>3
  <2>8. mem' = mem /\ left' = left /\ \A q \in Procs \ {p} : patterns'[q] = patterns[q]
    BY <1>1 DEF PrivateTyped, Leave
  <2>9. PrivateTyped'
    BY <2>4, <2>5, <2>6, <2>7, <2>8 DEF PrivateTyped
  <2>10. at' = [at EXCEPT ![p] = "propose"]
    BY <1>1 DEF Leave, Proceed
  <2>11. Staged'
    BY <2>2, <2>3, <2>4, <2>5, <2>8, <2>10 DEF Staged, Steps, Changing
  <2> QED
    BY <2>5, <2>8, <2>9, <2>10, <2>11
<1>2. CASE ~(Len(patterns[p]) > 1)
  <2>1. Forget(p)
    BY <1>2 DEF Leave
  <2>2. PICK step : step = IF p \in Rollbacks THEN result ELSE "done"
    OBVIOUS
  <2>3. at' = [at EXCEPT ![p] = step] /\ step \in Final
    BY <1>2, <2>2 DEF Leave, Proceed, Final
  <2>4. /\ PrivateTyped' /\ patterns'[p] = <<>> /\ change'[p] = NoChange
        /\ \A q \in Procs \ {p} : /\ mem'[q] = mem[q] /\ patterns'[q] = patterns[q]
                                   /\ change'[q] = change[q]
    BY <2>1, ForgetTyped
  <2>5. Staged'
    BY <2>3, <2>4 DEF Staged, Steps, Final, Changing, PrivateTyped
  <2> QED
    BY <2>3, <2>4, <2>5
<1> QED
  BY <1>1, <1>2

\* A stream that is cut to its bound is a stream.
LEMMA BoundedTyped ==
  ASSUME NEW S, NEW events \in Seq(S), RuleEvolutionAssumption
  PROVE  Bounded(events) \in Seq(S)
<1>1. CASE Len(events) <= MaxObserved
  BY <1>1 DEF Bounded
<1>2. CASE ~(Len(events) <= MaxObserved)
  <2>1. MaxObserved \in Nat \ {0} /\ Len(events) \in Nat
    BY DEF RuleEvolutionAssumption
  <2>2. Len(events) - MaxObserved + 1 \in 1..Len(events) + 1 /\ Len(events) \in 0..Len(events)
    BY <1>2, <2>1
  <2>3. SubSeq(events, Len(events) - MaxObserved + 1, Len(events)) \in Seq(S)
    BY <2>2, SubSeqProperties
  <2> QED
    BY <1>2, <2>3 DEF Bounded
<1> QED
  BY <1>1, <1>2

\* A file that is filled while others write is longer, but begins alike.
LEMMA OverlayIs ==
  ASSUME NEW S, NEW content \in Seq(S), NEW over \in Seq(S)
  PROVE  /\ Overlay(content, over) \in Seq(S)
         /\ \A i \in DOMAIN Overlay(content, over) :
              \/ i \in DOMAIN content /\ Overlay(content, over)[i] = content[i]
              \/ i \in DOMAIN over /\ Overlay(content, over)[i] = over[i]
         /\ over = <<>> => Overlay(content, over) = content
<1> DEFINE rest == SubSeq(over, Len(content) + 1, Len(over))
<1>1. CASE Len(content) >= Len(over)
  <2>1. rest = <<>>
    BY <1>1, SubSeqProperties
  <2>2. Overlay(content, over) = content
    <3>1. Overlay(content, over) = content \o rest
      BY DEF Overlay
    <3> HIDE DEF rest
    <3> QED
      BY <2>1, <3>1
  <2> QED
    BY <1>1, <2>2
<1>2. CASE ~(Len(content) >= Len(over))
  <2>1. /\ rest \in Seq(S)
        /\ Len(rest) = Len(over) - Len(content)
        /\ \A i \in 1..Len(rest) : rest[i] = over[Len(content) + i]
    BY <1>2, SubSeqProperties
  <2> HIDE DEF rest
  <2>2. /\ content \o rest \in Seq(S)
        /\ Len(content \o rest) = Len(over)
    BY <2>1
  <2>3. \A i \in 1..Len(over) : (content \o rest)[i]
                                  = IF i <= Len(content) THEN content[i] ELSE over[i]
    BY <1>2, <2>1
  <2>4. Overlay(content, over) = content \o rest
    BY DEF Overlay, rest
  <2>5. Len(Overlay(content, over)) = Len(over) /\ Overlay(content, over) \in Seq(S)
    BY <2>2, <2>4
  <2>6. over # <<>>
    BY <1>2
  <2>7. ASSUME NEW i \in DOMAIN Overlay(content, over)
        PROVE  \/ i \in DOMAIN content /\ Overlay(content, over)[i] = content[i]
               \/ i \in DOMAIN over /\ Overlay(content, over)[i] = over[i]
    <3>1. i \in 1..Len(over)
      BY <2>5, <2>7
    <3>2. Overlay(content, over)[i] = IF i <= Len(content) THEN content[i] ELSE over[i]
      BY <2>3, <2>4, <3>1
    <3> QED
      BY <3>1, <3>2
  <2> QED
    BY <2>5, <2>6, <2>7
<1> QED
  BY <1>1, <1>2

\* What a turn gives to the stream is a list of events.
LEMMA StreamTyped ==
  ASSUME NEW t \in Turns, batch \in [Turns -> Batches], RuleEvolutionAssumption
  PROVE  Stream(t) \in Seq(Events)
<1>1. batch[t] \in Seq(Signatures \cup {Fine})
  BY DEF RuleEvolutionAssumption
<1>2. \A i \in 1..Len(batch[t]) + 1 :
        [of |-> t, index |-> i, what |-> IF i <= Len(batch[t]) THEN batch[t][i] ELSE Fine] \in Events
  BY <1>1 DEF Events
<1>3. Len(batch[t]) + 1 \in Nat
  BY <1>1
<1> QED
  BY <1>2, <1>3 DEF Stream

(***************************************************************************)
(* Rules: types, step by step                                              *)
(***************************************************************************)

\* What a step of p leaves alone: where the others are and what they have.
OthersKept(p) ==
  /\ \A q \in Procs \ {p} : /\ at'[q] = at[q] /\ mem'[q] = mem[q]
                            /\ patterns'[q] = patterns[q] /\ change'[q] = change[q]
  /\ change' = [q \in Procs |-> change'[q]]
  /\ at' = [at EXCEPT ![p] = at'[p]]

\* Being staged is a matter of each process by itself.
StagedAt(p) ==
  /\ at[p] \in {"observe", "refill", "propose"} => p \in Turns
  /\ at[p] = "find" => p \in Rollbacks
  /\ at[p] = "refill" => mem[p] # <<>>
  /\ at[p] = "propose" => patterns[p] # <<>>
  /\ patterns[p] # <<>> => p \in Turns
  /\ Changing(p) => change[p] \in Changes

\* A step of one process leaves what goes with the steps of the others.
LEMMA StagedStep ==
  ASSUME Staged, NEW p \in Procs, OthersKept(p), StagedAt(p)'
  PROVE  Staged'
<1>1. ASSUME NEW q \in Procs PROVE StagedAt(q)'
  <2>1. CASE q = p
    BY <2>1
  <2>2. CASE q # p
    BY <2>2 DEF Staged, StagedAt, OthersKept, Changing
  <2> QED
    BY <2>1, <2>2
<1> QED
  BY <1>1 DEF Staged, StagedAt, OthersKept

\* Mishaps are within their bound.
LEMMA MishapTyped ==
  ASSUME RuleEvolutionAssumption, mishaps \in 0..MaxMishaps, Mishap
  PROVE  mishaps' \in 0..MaxMishaps
BY DEF Mishap, RuleEvolutionAssumption

\* A disturbance is noted, or it was none.
LEMMA DisturbIs ==
  ASSUME NEW what, NEW if \in BOOLEAN, Disturb(what, if)
  PROVE  disturbed' = disturbed \cup {what} \/ disturbed' = disturbed
BY DEF Disturb

\* The start of a turn, which reads the stream, keeps the types.
LEMMA StartTyped ==
  ASSUME RuleEvolutionAssumption, RulesTyped, Staged, NEW p \in Procs, Start(p)
  PROVE  RulesTyped' /\ Staged'
<1> PICK list : list = (IF p \in Turns THEN Stream(p) ELSE <<>>)
  OBVIOUS
<1> PICK step : step = (IF p \in Turns THEN "observe" ELSE "find")
  OBVIOUS
<1>1. list \in Seq(Events)
  <2>1. <<>> \in Seq(Events)
    OBVIOUS
  <2>2. batch \in [Turns -> Batches]
    BY DEF RulesTyped
  <2> QED
    BY <2>1, <2>2, StreamTyped
<1>2. /\ at' = [at EXCEPT ![p] = step] /\ step \in Steps
      /\ mem' = [mem EXCEPT ![p] = observed]
      /\ left' = [left EXCEPT ![p] = list]
  BY DEF Start, Proceed, Steps
<1>3. /\ at' \in [Procs -> Steps]
      /\ mem' \in [Procs -> Seq(Events)]
      /\ left' \in [Procs -> Seq(Events)]
  BY <1>1, <1>2, RulesTypedParts DEF PrivateTyped, SharedTyped
<1>4. /\ UNCHANGED <<batch, patterns, change, before, version, after, copy, observed,
                 rules, journal, happened, byHand, disturbed>>
      /\ mishaps' \in 0..MaxMishaps
  BY RulesTypedParts DEF Start, Mishap, SharedTyped, RuleEvolutionAssumption
<1>5. PrivateTyped' /\ SharedTyped' /\ batch' \in [Turns -> Batches]
  BY <1>3, <1>4, RulesTypedParts DEF PrivateTyped, SharedTyped
<1>6. OthersKept(p)
  BY <1>2, <1>4, RulesTypedParts DEF OthersKept, PrivateTyped
<1>7. StagedAt(p)'
  BY <1>2, <1>4, RulesTypedParts DEF StagedAt, Staged, Procs, Changing, Start
<1>8. Staged'
  BY <1>6, <1>7, StagedStep
<1> QED
  BY <1>3, <1>5, <1>8 DEF RulesTyped, PrivateTyped, SharedTyped, Steps

\* The write of the stream keeps the types.
LEMMA ObserveTyped ==
  ASSUME RuleEvolutionAssumption, RulesTyped, Staged, NEW t \in Turns, Observe(t)
  PROVE  RulesTyped' /\ Staged'
<1> t \in Procs
  BY DEF Procs
<1>1. /\ mem \in [Procs -> Seq(Events)] /\ left \in [Procs -> Seq(Events)]
      /\ observed \in Seq(Events) /\ happened \in Seq(Events)
      /\ at \in [Procs -> Steps] /\ disturbed \in SUBSET {"observed", "changes"}
  BY RulesTypedParts DEF PrivateTyped, SharedTyped
<1> PICK known : known = mem[t]
  OBVIOUS
<1> PICK all : all = left[t]
  OBVIOUS
<1>2. known \in Seq(Events) /\ all \in Seq(Events) /\ all # <<>>
  BY <1>1 DEF Observe
<1>3. Head(all) \in Events /\ Tail(all) \in Seq(Events)
  BY <1>2
<1> PICK event : event = Head(all)
  OBVIOUS
<1> PICK events : events = Append(known, event)
  OBVIOUS
<1>4. event \in Events /\ events \in Seq(Events) /\ Len(events) = Len(known) + 1
  BY <1>2, <1>3
<1>5. Bounded(events) \in Seq(Events)
  BY <1>4, BoundedTyped
<1>6. mem' = [mem EXCEPT ![t] = Bounded(events)] /\ left' = [left EXCEPT ![t] = Tail(all)]
  BY DEF Observe
<1>7. mem' \in [Procs -> Seq(Events)] /\ left' \in [Procs -> Seq(Events)]
  BY <1>1, <1>3, <1>5, <1>6
<1>8. /\ UNCHANGED <<batch, patterns, change, before, version, after, copy, rules, journal, byHand>>
      /\ at[t] = "observe"
  BY DEF Observe
<1>9. observed' \in Seq(Events) /\ happened' \in Seq(Events)
  <2>1. observed' \in {observed, Append(observed, event), <<>>}
    BY DEF Observe
  <2>2. happened' \in {happened, Append(happened, event)}
    BY DEF Observe
  <2>3. /\ Append(observed, event) \in Seq(Events) /\ Append(happened, event) \in Seq(Events)
        /\ <<>> \in Seq(Events)
    BY <1>1, <1>4
  <2> QED
    BY <1>1, <2>1, <2>2, <2>3
<1>10. disturbed' \in SUBSET {"observed", "changes"} /\ mishaps' \in 0..MaxMishaps
  <2>1. mishaps \in 0..MaxMishaps
    BY RulesTypedParts DEF SharedTyped
  <2>2. mishaps' = mishaps \/ Mishap
    BY DEF Observe
  <2>3. \/ disturbed' = disturbed
        \/ disturbed' = disturbed \cup {"observed"}
    BY DEF Observe, Disturb
  <2> QED
    BY <1>1, <2>1, <2>2, <2>3, MishapTyped
<1>11. \/ at' = at
       \/ at' = [at EXCEPT ![t] = "refill"] /\ Len(events) > MaxObserved
  BY DEF Observe, Proceed
<1>12. Bounded(events) # <<>>
  <2>1. MaxObserved \in Nat \ {0}
    BY DEF RuleEvolutionAssumption
  <2>2. CASE Len(events) <= MaxObserved
    BY <1>2, <1>4, <2>2 DEF Bounded
  <2>3. CASE ~(Len(events) <= MaxObserved)
    <3>1. Len(SubSeq(events, Len(events) - MaxObserved + 1, Len(events))) = MaxObserved
      BY <1>4, <2>1, <2>3, SubSeqProperties
    <3>2. Len(Bounded(events)) > 0
      BY <2>1, <2>3, <3>1 DEF Bounded
    <3> QED
      BY <1>5, <3>2
  <2> QED
    BY <2>2, <2>3
<1>13. PrivateTyped' /\ SharedTyped' /\ batch' \in [Turns -> Batches]
  BY <1>7, <1>8, <1>9, <1>10, RulesTypedParts DEF PrivateTyped, SharedTyped
<1>14. at' \in [Procs -> Steps]
  BY <1>1, <1>11 DEF Steps
<1>15. OthersKept(t)
  BY <1>1, <1>6, <1>8, <1>11, RulesTypedParts DEF OthersKept, PrivateTyped
<1>16. mem'[t] # <<>>
  BY <1>1, <1>6, <1>12
<1>17. StagedAt(t)'
  BY <1>1, <1>8, <1>11, <1>16, RulesTypedParts DEF StagedAt, Staged, Changing
<1>18. Staged'
  BY <1>15, <1>17, StagedStep
<1> QED
  BY <1>13, <1>14, <1>18 DEF RulesTyped, PrivateTyped, SharedTyped, Steps

\* The refilling of the stream keeps the types.
LEMMA RefillTyped ==
  ASSUME RuleEvolutionAssumption, RulesTyped, Staged, NEW t \in Turns, Refill(t)
  PROVE  RulesTyped' /\ Staged'
<1> t \in Procs
  BY DEF Procs
<1>1. /\ mem \in [Procs -> Seq(Events)] /\ observed \in Seq(Events)
      /\ happened \in Seq(Events) /\ at \in [Procs -> Steps]
      /\ disturbed \in SUBSET {"observed", "changes"} /\ mishaps \in 0..MaxMishaps
  BY RulesTypedParts DEF PrivateTyped, SharedTyped
<1>2. mem[t] \in Seq(Events) /\ mem[t] # <<>>
  BY <1>1 DEF Staged, Refill
<1>3. Last(mem[t]) \in Events
  BY <1>2 DEF Last
<1>4. Overlay(mem[t], observed) \in Seq(Events)
  BY <1>1, <1>2, OverlayIs
<1>5. observed' \in Seq(Events)
  BY <1>1, <1>4 DEF Refill
<1>6. happened' \in Seq(Events)
  <2>1. happened' \in {happened, Append(happened, Last(mem[t]))}
    BY DEF Refill
  <2>2. Append(happened, Last(mem[t])) \in Seq(Events)
    BY <1>1, <1>3
  <2> QED
    BY <1>1, <2>1, <2>2
<1>7. disturbed' \in SUBSET {"observed", "changes"} /\ mishaps' \in 0..MaxMishaps
  <2>1. mishaps' = mishaps \/ Mishap
    BY DEF Refill
  <2>2. \/ disturbed' = disturbed
        \/ disturbed' = disturbed \cup {"observed"}
    BY DEF Refill, Disturb
  <2> QED
    BY <1>1, <2>1, <2>2, MishapTyped
<1>8. /\ UNCHANGED <<batch, private, rules, journal, byHand>>
      /\ at' = [at EXCEPT ![t] = "observe"]
  BY DEF Refill, Proceed
<1>9. PrivateTyped' /\ SharedTyped' /\ batch' \in [Turns -> Batches]
  BY <1>5, <1>6, <1>7, <1>8, RulesTypedParts DEF PrivateTyped, SharedTyped, private
<1>10. at' \in [Procs -> Steps]
  BY <1>1, <1>8 DEF Steps
<1>11. OthersKept(t)
  BY <1>1, <1>8, RulesTypedParts DEF OthersKept, PrivateTyped, private
<1>12. StagedAt(t)'
  BY <1>1, <1>8, RulesTypedParts DEF StagedAt, Staged, Changing, private
<1>13. Staged'
  BY <1>11, <1>12, StagedStep
<1> QED
  BY <1>9, <1>10, <1>13 DEF RulesTyped, PrivateTyped, SharedTyped, Steps

\* Only finitely many failures repeat.
LEMMA RepeatedFinite ==
  ASSUME RuleEvolutionAssumption, NEW events \in Seq(Events)
  PROVE  IsFiniteSet({s \in Signatures : Repeated(events, s)})
<1> DEFINE S == {s \in Signatures : Repeated(events, s)}
           n == Len(events)
           f == [i \in 1..n |-> events[i].what]
<1>1. ASSUME NEW s \in S PROVE \E i \in 1..n : f[i] = s
  <2>1. SUFFICES ASSUME Failures(events, s) = {} PROVE FALSE
    BY DEF Failures
  <2>2. Cardinality(Failures(events, s)) = 0
    BY <2>1, FS_EmptySet
  <2> QED
    BY <2>2 DEF Repeated, RuleEvolutionAssumption
<1>2. n \in Nat
  OBVIOUS
<1> HIDE DEF S, n, f
<1>3. \A s \in S : \E i \in 1..n : f[i] = s
  BY <1>1
<1>4. IsFiniteSet(S)
  BY <1>2, <1>3, ImageFinite
<1> QED
  BY <1>4 DEF S

\* The search for patterns keeps the types.
LEMMA DetectTyped ==
  ASSUME RuleEvolutionAssumption, RulesTyped, Staged, NEW t \in Turns, Detect(t)
  PROVE  RulesTyped' /\ Staged'
<1> t \in Procs
  BY DEF Procs
<1> PICK S : S = {s \in Signatures : Repeated(mem[t], s)}
  OBVIOUS
<1> PICK found : found = SetToSeq(S)
  OBVIOUS
<1>1. /\ mem \in [Procs -> Seq(Events)] /\ at \in [Procs -> Steps]
      /\ patterns \in [Procs -> Seq(Signatures)]
  BY RulesTypedParts DEF PrivateTyped, SharedTyped
<1>2. found \in Seq(Signatures)
  <2>1. mem[t] \in Seq(Events)
    BY <1>1
  <2>4. IsFiniteSet(S)
    BY <2>1, RepeatedFinite
  <2>5. found \in Seq(S)
    BY <2>4, ListOf
  <2>6. S \subseteq Signatures
    OBVIOUS
  <2> QED
    BY <2>5, <2>6
<1>3. UNCHANGED <<batch, observed, rules, journal, mishaps, happened, byHand, disturbed>>
  BY DEF Detect
<1>4. SharedTyped' /\ batch' \in [Turns -> Batches]
  BY <1>3, RulesTypedParts DEF SharedTyped
<1>5. CASE found = <<>>
  <2>1. Forget(t) /\ at' = [at EXCEPT ![t] = "done"]
    BY <1>5 DEF Detect, Proceed
  <2>2. PrivateTyped'
    BY <2>1, ForgetTyped, RulesTypedParts
  <2>3. OthersKept(t) /\ patterns'[t] = <<>>
    BY <1>1, <2>1, ForgetTyped, RulesTypedParts DEF OthersKept, PrivateTyped
  <2>4. at' \in [Procs -> Steps] /\ at'[t] = "done"
    BY <1>1, <2>1 DEF Steps, Final
  <2>5. StagedAt(t)'
    BY <2>3, <2>4 DEF StagedAt, Changing
  <2>6. Staged'
    BY <2>3, <2>5, StagedStep
  <2> QED
    BY <1>4, <2>2, <2>4, <2>6 DEF RulesTyped, PrivateTyped, SharedTyped, Steps
<1>6. CASE found # <<>>
  <2>1. /\ patterns' = [patterns EXCEPT ![t] = found] /\ at' = [at EXCEPT ![t] = "propose"]
        /\ UNCHANGED <<mem, left, change, before, version, after, copy>>
    BY <1>6 DEF Detect, Proceed
  <2>2. patterns' \in [Procs -> Seq(Signatures)] /\ patterns'[t] # <<>>
    BY <1>1, <1>2, <1>6, <2>1
  <2>3. PrivateTyped'
    BY <2>1, <2>2, RulesTypedParts DEF PrivateTyped
  <2>4. OthersKept(t)
    BY <1>1, <2>1, RulesTypedParts DEF OthersKept, PrivateTyped
  <2>5. at' \in [Procs -> Steps] /\ at'[t] = "propose"
    BY <1>1, <2>1 DEF Steps
  <2>6. StagedAt(t)'
    BY <2>2, <2>5 DEF StagedAt, Changing
  <2>7. Staged'
    BY <2>4, <2>6, StagedStep
  <2> QED
    BY <1>4, <2>3, <2>5, <2>7 DEF RulesTyped, PrivateTyped, SharedTyped, Steps
<1> QED
  BY <1>5, <1>6

\* The failures of a kind that a process knows of.
LEMMA FailuresKnown ==
  ASSUME NEW events \in Seq(Events), NEW s \in Signatures, Failures(events, s) # {}
  PROVE  /\ Max(Failures(events, s)) \in DOMAIN events
         /\ events[Max(Failures(events, s))] \in Events
         /\ {events[i] : i \in Failures(events, s)} \subseteq Events
<1>1. Failures(events, s) \subseteq 1..Len(events) /\ Len(events) \in Nat
  BY DEF Failures
<1>2. Max(Failures(events, s)) \in 1..Len(events)
  BY <1>1, LastOf
<1> QED
  BY <1>1, <1>2

\* The proposal of a change keeps the types.
LEMMA ProposeTyped ==
  ASSUME RuleEvolutionAssumption, RulesTyped, Staged, NEW t \in Turns, Propose(t)
  PROVE  RulesTyped' /\ Staged'
<1> t \in Procs
  BY DEF Procs
<1> PICK s : s = Head(patterns[t])
  OBVIOUS
<1> PICK known : known = mem[t]
  OBVIOUS
<1> PICK failures : failures = Failures(known, s)
  OBVIOUS
<1> PICK c : c = [id |-> [rule |-> s, last |-> known[Max(failures)], undo |-> 0],
                  old |-> Procedure(s), new |-> "repair",
                  evidence |-> {known[i] : i \in failures}]
  OBVIOUS
<1>1. /\ mem \in [Procs -> Seq(Events)] /\ at \in [Procs -> Steps]
      /\ patterns \in [Procs -> Seq(Signatures)]
      /\ rules \in [Signatures -> Rules \cup {NoRule}]
      /\ disturbed \in SUBSET {"observed", "changes"}
  BY RulesTypedParts DEF PrivateTyped, SharedTyped
<1>2. /\ Approved(t, c) /\ Prepare(t, c)
      /\ UNCHANGED <<batch, mem, left, patterns, before, version, after, copy, observed,
                 rules, journal, mishaps, happened, byHand>>
  BY DEF Propose
<1>3. s \in Signatures
  BY <1>1 DEF Propose, Staged
<1>4. failures # {}
  <2>1. SUFFICES ASSUME failures = {} PROVE FALSE
    OBVIOUS
  <2>2. c.evidence = {}
    BY <2>1
  <2>3. Cardinality(c.evidence) = 0
    BY <2>2, FS_EmptySet
  <2> QED
    BY <1>2, <2>3 DEF Approved, RuleEvolutionAssumption
<1>5. known \in Seq(Events)
  BY <1>1
<1>6. known[Max(failures)] \in Events /\ {known[i] : i \in failures} \subseteq Events
  BY <1>3, <1>4, <1>5, FailuresKnown
<1>7. Procedure(s) \in Procedures
  BY <1>1, <1>3 DEF Procedure, Rules, Procedures
<1>8. c \in Changes
  <2>1. [rule |-> s, last |-> known[Max(failures)], undo |-> 0] \in ChangeIds
    BY <1>3, <1>6 DEF ChangeIds
  <2>2. "repair" \in Procedures
    BY DEF Procedures
  <2> QED
    BY <1>6, <1>7, <2>1, <2>2 DEF Changes
<1>9. change' = [change EXCEPT ![t] = c] /\ at' = [at EXCEPT ![t] = "before"]
  BY <1>2 DEF Prepare, Proceed
<1>10. disturbed' \in SUBSET {"observed", "changes"}
  BY <1>1, <1>2 DEF Prepare, Disturb
<1>11. change' = [p \in Procs |-> change'[p]] /\ change'[t] = c
       /\ \A p \in Procs \ {t} : change'[p] = change[p]
  BY <1>9 DEF Staged
<1>12. PrivateTyped'
  BY <1>2, <1>8, <1>11, RulesTypedParts DEF PrivateTyped
<1>13. SharedTyped' /\ batch' \in [Turns -> Batches]
  BY <1>2, <1>10, RulesTypedParts DEF SharedTyped
<1>14. at' \in [Procs -> Steps] /\ at'[t] = "before"
  BY <1>1, <1>9 DEF Steps
<1>15. OthersKept(t)
  BY <1>1, <1>2, <1>9, <1>11 DEF OthersKept
<1>16. StagedAt(t)'
  BY <1>2, <1>8, <1>11, <1>14 DEF StagedAt, Staged, Changing
<1>17. Staged'
  BY <1>15, <1>16, StagedStep
<1> QED
  BY <1>12, <1>13, <1>14, <1>17 DEF RulesTyped, PrivateTyped, SharedTyped, Steps

\* The entry that find returns is the first with its name.
LEMMA FoundIs ==
  ASSUME NEW entries \in Seq(Entries), NEW id, Places(entries, id) # {}
  PROVE  /\ Find(entries, id) \in DOMAIN entries
         /\ entries[Find(entries, id)].change.id = id
         /\ \A j \in Places(entries, id) : Find(entries, id) <= j
<1>1. Places(entries, id) \subseteq Nat
  BY DEF Places
<1>2. /\ Find(entries, id) \in Places(entries, id)
      /\ \A j \in Places(entries, id) : Find(entries, id) <= j
  BY <1>1, FirstOf DEF Find
<1> QED
  BY <1>2 DEF Places

\* The rollback of a change.
Back(c) == [id |-> [c.id EXCEPT !.undo = @ + 1], old |-> c.new, new |-> c.old,
            evidence |-> c.evidence]

\* What takes back a change is a change of the same rule with the same evidence.
LEMMA BackTyped ==
  ASSUME NEW c \in Changes
  PROVE  /\ Back(c) \in Changes
         /\ Back(c).id.rule = c.id.rule /\ Back(c).id.undo = c.id.undo + 1
         /\ Back(c).evidence = c.evidence /\ Back(c).new = c.old
BY DEF Back, Changes, ChangeIds

\* What finding an entry does.
LEMMA FoundEntry ==
  ASSUME RulesTyped, NEW b \in Rollbacks, FindEntry(b)
  PROVE  \/ /\ \E i \in DOMAIN journal :
                 LET c == journal[i].change
                 IN /\ \A j \in Places(journal, c.id) : i <= j
                    /\ c.old # "none" /\ Approved(b, Back(c)) /\ Prepare(b, Back(c))
            /\ UNCHANGED <<mem, left, patterns, before, version, after, copy>>
         \/ Proceed(b, "refused") /\ Forget(b) /\ UNCHANGED disturbed
<1>1. journal \in Seq(Entries)
  BY DEF RulesTyped
<1>2. PICK i \in DOMAIN journal :
       LET c == journal[Find(journal, journal[i].change.id)].change
       IN \/ c.old # "none" /\ Approved(b, Back(c)) /\ Prepare(b, Back(c))
             /\ UNCHANGED <<mem, left, patterns, before, version, after, copy>>
          \/ Proceed(b, "refused") /\ Forget(b) /\ UNCHANGED disturbed
  BY DEF FindEntry, Back
<1>3. i \in Places(journal, journal[i].change.id)
  BY <1>2 DEF Places
<1> PICK k : k = Find(journal, journal[i].change.id)
  OBVIOUS
<1>4. /\ k \in DOMAIN journal /\ journal[k].change.id = journal[i].change.id
      /\ \A j \in Places(journal, journal[i].change.id) : k <= j
  BY <1>1, <1>3, FoundIs
<1> QED
  BY <1>2, <1>4

\* The choice of the entry to roll back keeps the types.
LEMMA FindEntryTyped ==
  ASSUME RuleEvolutionAssumption, RulesTyped, Staged, NEW b \in Rollbacks, FindEntry(b)
  PROVE  RulesTyped' /\ Staged'
<1> b \in Procs
  BY DEF Procs
<1>1. /\ at \in [Procs -> Steps] /\ journal \in Seq(Entries)
      /\ disturbed \in SUBSET {"observed", "changes"}
  BY RulesTypedParts DEF PrivateTyped, SharedTyped
<1>2. UNCHANGED <<batch, observed, rules, journal, mishaps, happened, byHand>>
  BY DEF FindEntry
<1>3. CASE /\ \E i \in DOMAIN journal :
                LET c == journal[i].change
                IN /\ \A j \in Places(journal, c.id) : i <= j
                   /\ c.old # "none" /\ Approved(b, Back(c)) /\ Prepare(b, Back(c))
           /\ UNCHANGED <<mem, left, patterns, before, version, after, copy>>
  <2>1. PICK i \in DOMAIN journal : Prepare(b, Back(journal[i].change))
    BY <1>3
  <2>2. journal[i].change \in Changes
    <3>1. journal[i] \in Entries
      BY <1>1
    <3> QED
      BY <3>1 DEF Entries
  <2> PICK c : c = Back(journal[i].change)
    OBVIOUS
  <2>3. c \in Changes
    BY <2>2, BackTyped
  <2>4. change' = [change EXCEPT ![b] = c] /\ at' = [at EXCEPT ![b] = "before"]
    BY <2>1 DEF Prepare, Proceed
  <2>5. change' = [p \in Procs |-> change'[p]] /\ change'[b] = c
        /\ \A p \in Procs \ {b} : change'[p] = change[p]
    BY <2>4 DEF Staged
  <2>6. disturbed' \in SUBSET {"observed", "changes"}
    BY <1>1, <2>1 DEF Prepare, Disturb
  <2>7. PrivateTyped'
    BY <1>3, <2>3, <2>5, RulesTypedParts DEF PrivateTyped
  <2>8. SharedTyped' /\ batch' \in [Turns -> Batches]
    BY <1>2, <2>6, RulesTypedParts DEF SharedTyped
  <2>9. at' \in [Procs -> Steps] /\ at'[b] = "before"
    BY <1>1, <2>4 DEF Steps
  <2>10. OthersKept(b)
    BY <1>1, <1>3, <2>4, <2>5 DEF OthersKept
  <2>11. StagedAt(b)'
    BY <1>3, <2>3, <2>5, <2>9 DEF StagedAt, Staged, Changing
  <2>12. Staged'
    BY <2>10, <2>11, StagedStep
  <2> QED
    BY <2>7, <2>8, <2>9, <2>12 DEF RulesTyped, PrivateTyped, SharedTyped, Steps
<1>4. CASE Proceed(b, "refused") /\ Forget(b) /\ UNCHANGED disturbed
  <2>1. PrivateTyped'
    BY <1>4, ForgetTyped, RulesTypedParts
  <2>2. OthersKept(b) /\ patterns'[b] = <<>>
    BY <1>1, <1>4, ForgetTyped, RulesTypedParts DEF OthersKept, PrivateTyped, Proceed
  <2>3. at' \in [Procs -> Steps] /\ at'[b] = "refused"
    BY <1>1, <1>4 DEF Steps, Final, Proceed
  <2>4. StagedAt(b)'
    BY <2>2, <2>3 DEF StagedAt, Changing
  <2>5. Staged'
    BY <2>2, <2>4, StagedStep
  <2>6. SharedTyped' /\ batch' \in [Turns -> Batches]
    BY <1>2, <1>4, RulesTypedParts DEF SharedTyped
  <2> QED
    BY <2>1, <2>3, <2>5, <2>6 DEF RulesTyped, PrivateTyped, SharedTyped, Steps
<1> QED
  BY <1>3, <1>4, FoundEntry

\* From one step of a change to the next.
LEMMA Onward ==
  ASSUME RulesTyped, Staged, NEW p \in Procs, Changing(p),
         NEW step \in {"version", "truncate", "fill", "reread", "load", "cut", "append"},
         Proceed(p, step), UNCHANGED <<mem, patterns, change>>
  PROVE  Staged' /\ at' \in [Procs -> Steps]
<1>1. at \in [Procs -> Steps] /\ at' = [at EXCEPT ![p] = step]
  BY DEF RulesTyped, Steps, Proceed
<1>2. at' \in [Procs -> Steps] /\ at'[p] = step
  BY <1>1 DEF Steps
<1>3. change' = [q \in Procs |-> change'[q]]
  BY DEF Staged
<1>4. OthersKept(p)
  BY <1>1, <1>3 DEF OthersKept
<1>5. StagedAt(p)'
  BY <1>2 DEF StagedAt, Staged, Changing
<1> QED
  BY <1>2, <1>4, <1>5, StagedStep

\* A process that is changing something has a change, of a rule.
LEMMA WorkingOn ==
  ASSUME RulesTyped, Staged, NEW p \in Procs, Changing(p)
  PROVE  /\ change[p] \in Changes /\ Target(p) \in Signatures
         /\ change[p].new \in Procedures
         /\ rules[Target(p)] \in Rules \cup {NoRule}
BY DEF RulesTyped, Staged, Changes, ChangeIds, Target

\* A step that reads, and one that writes a rule or the journal.
LEMMA ReadingTyped ==
  ASSUME RuleEvolutionAssumption, RulesTyped, Staged, NEW p \in Procs,
         ReadBefore(p) \/ ReadVersion(p) \/ ReadAfter(p) \/ ReadJournal(p)
  PROVE  RulesTyped' /\ Staged'
<1>1. Changing(p)
  BY DEF ReadBefore, ReadVersion, ReadAfter, ReadJournal, Changing
<1>2. rules[Target(p)] \in Rules \cup {NoRule}
  BY <1>1, WorkingOn
<1>3. UNCHANGED <<batch, mem, left, patterns, change, observed, rules, journal,
                  mishaps, happened, byHand, disturbed>>
  BY DEF ReadBefore, ReadVersion, ReadAfter, ReadJournal
<1>4. Staged' /\ at' \in [Procs -> Steps]
  <2>1. PICK step \in {"version", "truncate", "load", "cut"} : Proceed(p, step)
    BY DEF ReadBefore, ReadVersion, ReadAfter, ReadJournal
  <2> QED
    BY <1>1, <1>3, <2>1, Onward
<1>5. before' \in [Procs -> Rules \cup {NoRule}]
  <2>1. before' = before \/ before' = [before EXCEPT ![p] = rules[Target(p)]]
    BY DEF ReadBefore, ReadVersion, ReadAfter, ReadJournal
  <2> QED
    BY <1>2, <2>1 DEF RulesTyped
<1>6. after' \in [Procs -> Rules \cup {NoRule}]
  <2>1. after' = after \/ after' = [after EXCEPT ![p] = rules[Target(p)]]
    BY DEF ReadBefore, ReadVersion, ReadAfter, ReadJournal
  <2> QED
    BY <1>2, <2>1 DEF RulesTyped
<1>7. version' \in [Procs -> Nat]
  <2> PICK content : content = rules[Target(p)]
    OBVIOUS
  <2> PICK v : v = IF content = NoRule THEN 1 ELSE VersionAfter(content)
    OBVIOUS
  <2>1. v \in Nat
    BY <1>2 DEF VersionAfter, Rules
  <2>2. version' = version \/ version' = [version EXCEPT ![p] = v]
    BY DEF ReadBefore, ReadVersion, ReadAfter, ReadJournal
  <2>3. version \in [Procs -> Nat]
    BY DEF RulesTyped
  <2> QED
    BY <2>1, <2>2, <2>3
<1>8. copy' \in [Procs -> Seq(Entries)]
  <2>1. copy' = copy \/ copy' = [copy EXCEPT ![p] = journal]
    BY DEF ReadBefore, ReadVersion, ReadAfter, ReadJournal
  <2>2. copy \in [Procs -> Seq(Entries)] /\ journal \in Seq(Entries)
    BY DEF RulesTyped
  <2> QED
    BY <2>1, <2>2
<1> QED
  BY <1>3, <1>4, <1>5, <1>6, <1>7, <1>8 DEF RulesTyped, Steps

\* The writes of the rule and of the journal keep the types.
LEMMA WritingTyped ==
  ASSUME RuleEvolutionAssumption, RulesTyped, Staged, NEW p \in Procs,
         TruncateRule(p) \/ FillRule(p) \/ TruncateJournal(p)
  PROVE  RulesTyped' /\ Staged'
<1>1. Changing(p)
  BY DEF TruncateRule, FillRule, TruncateJournal, Changing
<1>2. UNCHANGED <<batch, private, observed, mishaps, happened, byHand, disturbed>>
  BY DEF TruncateRule, FillRule, TruncateJournal
<1>3. Staged' /\ at' \in [Procs -> Steps]
  <2>1. PICK step \in {"fill", "reread", "append"} : Proceed(p, step)
    BY DEF TruncateRule, FillRule, TruncateJournal
  <2> QED
    BY <1>1, <1>2, <2>1, Onward DEF private
<1>4. journal' \in Seq(Entries)
  <2>1. journal' = journal \/ journal' = <<>>
    BY DEF TruncateRule, FillRule, TruncateJournal
  <2>2. journal \in Seq(Entries) /\ <<>> \in Seq(Entries)
    BY DEF RulesTyped
  <2> QED
    BY <2>1, <2>2
<1>5. rules' \in [Signatures -> Rules \cup {NoRule}]
  <2> PICK s : s = Target(p)
    OBVIOUS
  <2> PICK filled : filled = [procedure |-> change[p].new, version |-> version[p]]
    OBVIOUS
  <2> PICK cut : cut = [procedure |-> "none", version |-> 1]
    OBVIOUS
  <2>1. \/ rules' = rules
        \/ rules' = [rules EXCEPT ![s] = filled]
        \/ rules' = [rules EXCEPT ![s] = cut]
    BY DEF TruncateRule, FillRule, TruncateJournal
  <2>2. version[p] \in Nat /\ change[p].new \in Procedures
    BY <1>1, WorkingOn DEF RulesTyped
  <2>3. filled \in Rules /\ cut \in Rules
    BY <2>2 DEF Rules, Procedures
  <2> QED
    BY <2>1, <2>3 DEF RulesTyped
<1> QED
  BY <1>2, <1>3, <1>4, <1>5 DEF RulesTyped, Steps, private

\* A step that ends a change.
LEMMA LeavingTyped ==
  ASSUME RuleEvolutionAssumption, RulesTyped, Staged, NEW p \in Procs,
         ScoresTooLow(p) \/ FillJournal(p) \/ SaveFails(p)
  PROVE  RulesTyped' /\ Staged'
<1>1. /\ at \in [Procs -> Steps] /\ PrivateTyped /\ SharedTyped /\ batch \in [Turns -> Batches]
  BY RulesTypedParts
<1>2. PICK result \in Final : Leave(p, result)
  BY DEF ScoresTooLow, FillJournal, SaveFails, Final
<1>3. /\ PrivateTyped' /\ Staged' /\ at' = [at EXCEPT ![p] = at'[p]]
      /\ at'[p] \in Final \cup {"propose"}
  BY <1>1, <1>2, LeaveTyped
<1>4. at' \in [Procs -> Steps]
  BY <1>1, <1>3 DEF Steps
<1>5. UNCHANGED <<batch, observed, rules, happened, byHand>>
  BY DEF ScoresTooLow, FillJournal, SaveFails
<1>6. journal' \in Seq(Entries)
  <2>1. CASE FillJournal(p)
    <3>1. Changing(p)
      BY <2>1 DEF FillJournal, Changing
    <3>2. Entry(p) \in Entries
      BY <3>1, <1>1, WorkingOn DEF Entry, Entries, PrivateTyped
    <3>3. copy[p] \in Seq(Entries)
      BY <1>1 DEF PrivateTyped
    <3>4. Journaled(p) \in Seq(Entries)
      BY <3>2, <3>3 DEF Journaled
    <3>5. journal \in Seq(Entries)
      BY <1>1 DEF SharedTyped
    <3> QED
      BY <2>1, <3>4, <3>5, OverlayIs DEF FillJournal
  <2>2. CASE ~FillJournal(p)
    <3>1. journal' = journal
      BY <2>2 DEF ScoresTooLow, SaveFails
    <3> QED
      BY <1>1, <3>1 DEF SharedTyped
  <2> QED
    BY <2>1, <2>2
<1>7. disturbed' \in SUBSET {"observed", "changes"} /\ mishaps' \in 0..MaxMishaps
  <2>1. mishaps' = mishaps \/ Mishap
    BY DEF ScoresTooLow, FillJournal, SaveFails
  <2>2. disturbed' = disturbed \/ disturbed' = disturbed \cup {"changes"}
    BY DEF ScoresTooLow, FillJournal, SaveFails, Disturb
  <2> QED
    BY <1>1, <2>1, <2>2, MishapTyped DEF SharedTyped
<1>8. SharedTyped'
  BY <1>1, <1>5, <1>6, <1>7 DEF SharedTyped
<1> QED
  BY <1>1, <1>3, <1>4, <1>5, <1>8 DEF RulesTyped, PrivateTyped, SharedTyped, Steps

\* A process that dies keeps the types.
LEMMA DiesTyped ==
  ASSUME RuleEvolutionAssumption, RulesTyped, Staged, NEW p \in Procs, Dies(p)
  PROVE  RulesTyped' /\ Staged'
<1>1. /\ at \in [Procs -> Steps] /\ PrivateTyped /\ SharedTyped /\ batch \in [Turns -> Batches]
  BY RulesTypedParts
<1>2. Proceed(p, "dead") /\ Forget(p) /\ Mishap
      /\ UNCHANGED <<batch, observed, rules, journal, happened, byHand>>
  BY DEF Dies
<1>3. PrivateTyped'
  BY <1>1, <1>2, ForgetTyped
<1>4. OthersKept(p) /\ patterns'[p] = <<>>
  BY <1>1, <1>2, ForgetTyped DEF OthersKept, PrivateTyped, Proceed
<1>5. at' \in [Procs -> Steps] /\ at'[p] = "dead"
  BY <1>1, <1>2 DEF Steps, Final, Proceed
<1>6. StagedAt(p)'
  BY <1>4, <1>5 DEF StagedAt, Changing
<1>7. Staged'
  BY <1>4, <1>6, StagedStep
<1>8. mishaps' \in 0..MaxMishaps
  BY <1>1, <1>2, MishapTyped DEF SharedTyped
<1>9. disturbed' \in SUBSET {"observed", "changes"}
  BY <1>1 DEF Dies, SharedTyped
<1>10. SharedTyped'
  BY <1>1, <1>2, <1>8, <1>9 DEF SharedTyped
<1> QED
  BY <1>1, <1>2, <1>3, <1>5, <1>7, <1>10 DEF RulesTyped, PrivateTyped, SharedTyped, Steps

\* What an operator writes by hand keeps the types.
LEMMA EditTyped ==
  ASSUME RuleEvolutionAssumption, RulesTyped, Staged,
         NEW s \in Signatures, NEW e \in Edits, Edit(s, e)
  PROVE  RulesTyped' /\ Staged'
<1>1. UNCHANGED <<batch, at, private, observed, journal, mishaps, happened>>
  BY DEF Edit
<1>2. Staged'
  BY <1>1 DEF Staged, Changing, private
<1>3. rules' \in [Signatures -> Rules \cup {NoRule}]
  <2>1. rules \in [Signatures -> Rules \cup {NoRule}] /\ rules[s] # NoRule
    BY DEF RulesTyped, Edit
  <2>2. rules[s].version \in Nat
    BY <2>1 DEF Rules
  <2>3. [procedure |-> e, version |-> rules[s].version] \in Rules
    BY <2>2 DEF Rules, Procedures
  <2>4. rules' = [rules EXCEPT ![s] = [procedure |-> e, version |-> rules[s].version]]
    BY <2>1 DEF Edit
  <2> QED
    BY <2>1, <2>3, <2>4
<1>4. byHand' \in [Signatures -> {"none"} \cup Edits]
  BY DEF RulesTyped, Edit
<1>5. disturbed' \in SUBSET {"observed", "changes"}
  BY DEF RulesTyped, Edit, Disturb
<1> QED
  BY <1>1, <1>2, <1>3, <1>4, <1>5 DEF RulesTyped, private

\* Whatever happens to the rules, the types stay.
LEMMA RulesStepTyped ==
  ASSUME RuleEvolutionAssumption, RulesTyped, Staged, [RulesNext]_ruleVars
  PROVE  RulesTyped' /\ Staged'
<1>1. ASSUME NEW p \in Procs, Start(p) PROVE RulesTyped' /\ Staged'
  BY <1>1, StartTyped
<1>2. ASSUME NEW p \in Procs, Apply(p) PROVE RulesTyped' /\ Staged'
  BY <1>2, ReadingTyped, WritingTyped, LeavingTyped DEF Apply
<1>3. ASSUME NEW p \in Procs, Dies(p) PROVE RulesTyped' /\ Staged'
  BY <1>3, DiesTyped
<1>4. ASSUME NEW t \in Turns, Observe(t) \/ Refill(t) \/ Detect(t) \/ Propose(t)
      PROVE  RulesTyped' /\ Staged'
  BY <1>4, ObserveTyped, RefillTyped, DetectTyped, ProposeTyped
<1>5. ASSUME NEW b \in Rollbacks, FindEntry(b) PROVE RulesTyped' /\ Staged'
  BY <1>5, FindEntryTyped
<1>6. ASSUME NEW s \in Signatures, NEW e \in Edits, Edit(s, e) PROVE RulesTyped' /\ Staged'
  BY <1>6, EditTyped
<1>7. CASE UNCHANGED ruleVars
  BY <1>7 DEF RulesTyped, Staged, Changing, ruleVars
<1> QED
  BY <1>1, <1>2, <1>3, <1>4, <1>5, <1>6, <1>7 DEF RulesNext

(***************************************************************************)
(* Rules: evidence                                                         *)
(***************************************************************************)

\* What is in a sequence after an element more, after one less, after the
\* oldest are dropped, and after others wrote to the file.
LEMMA MembersAppend ==
  ASSUME NEW S, NEW list \in Seq(S), NEW e \in S
  PROVE  ToSet(Append(list, e)) = ToSet(list) \cup {e}
<1>1. /\ Len(Append(list, e)) = Len(list) + 1
      /\ \A i \in 1..Len(list) : Append(list, e)[i] = list[i]
      /\ Append(list, e)[Len(list) + 1] = e
  OBVIOUS
<1>2. DOMAIN Append(list, e) = 1..Len(list) + 1 /\ DOMAIN list = 1..Len(list) /\ Len(list) \in Nat
  OBVIOUS
<1>3. 1..Len(list) + 1 = (1..Len(list)) \cup {Len(list) + 1}
  BY <1>2
<1> PICK more : more = Append(list, e)
  OBVIOUS
<1>4. ToSet(more) = {more[i] : i \in 1..Len(list)} \cup {more[Len(list) + 1]}
  BY <1>2, <1>3 DEF ToSet
<1> QED
  BY <1>1, <1>2, <1>4 DEF ToSet

\* The head and the tail of a list are of its members.
LEMMA MembersTail ==
  ASSUME NEW S, NEW list \in Seq(S), list # <<>>
  PROVE  Head(list) \in ToSet(list) /\ ToSet(Tail(list)) \subseteq ToSet(list)
<1>1. Head(list) = list[1] /\ 1 \in DOMAIN list
  OBVIOUS
<1>2. \A i \in DOMAIN Tail(list) : i + 1 \in DOMAIN list /\ Tail(list)[i] = list[i + 1]
  OBVIOUS
<1> QED
  BY <1>1, <1>2 DEF ToSet

\* Cutting a stream to its bound adds nothing to it.
LEMMA MembersBounded ==
  ASSUME NEW S, NEW list \in Seq(S), RuleEvolutionAssumption
  PROVE  ToSet(Bounded(list)) \subseteq ToSet(list)
<1>1. CASE Len(list) <= MaxObserved
  BY <1>1 DEF Bounded
<1>2. CASE ~(Len(list) <= MaxObserved)
  <2>1. MaxObserved \in Nat \ {0} /\ Len(list) \in Nat
    BY DEF RuleEvolutionAssumption
  <2> PICK m : m = Len(list) - MaxObserved + 1
    OBVIOUS
  <2>2. m \in 1..Len(list)
    BY <1>2, <2>1
  <2>3. /\ Len(SubSeq(list, m, Len(list))) = Len(list) - m + 1
        /\ \A i \in 1..Len(list) - m + 1 : SubSeq(list, m, Len(list))[i] = list[m + i - 1]
        /\ SubSeq(list, m, Len(list)) \in Seq(S)
    BY <2>2, SubSeqProperties
  <2> PICK end : end = SubSeq(list, m, Len(list))
    OBVIOUS
  <2>4. \A i \in DOMAIN end : m + i - 1 \in DOMAIN list /\ end[i] = list[m + i - 1]
    BY <2>1, <2>2, <2>3
  <2>5. Bounded(list) = end
    BY <1>2 DEF Bounded
  <2> QED
    BY <2>4, <2>5 DEF ToSet
<1> QED
  BY <1>1, <1>2

\* A file that two processes wrote holds nothing that neither of them wrote.
LEMMA MembersOverlay ==
  ASSUME NEW S, NEW content \in Seq(S), NEW over \in Seq(S)
  PROVE  ToSet(Overlay(content, over)) \subseteq ToSet(content) \cup ToSet(over)
BY OverlayIs DEF ToSet

\* The empty list has no members.
LEMMA MembersNone == ToSet(<<>>) = {}
BY DEF ToSet

\* The events that a turn really met, changes with evidence, and entries of such.
Genuine == {e \in Events : e \in ToSet(Stream(e.of))}
Sound == {c \in Changes : /\ Cardinality(c.evidence) >= MinRepeats
                          /\ \A e \in c.evidence : e.what = c.id.rule /\ e \in Genuine}
Evidenced == {e \in Entries : e.change \in Sound}

Evident ==
  /\ ToSet(observed) \subseteq Genuine
  /\ \A p \in Procs : ToSet(mem[p]) \subseteq Genuine
  /\ \A p \in Procs : ToSet(left[p]) \subseteq Genuine
  /\ ToSet(journal) \subseteq Evidenced
  /\ \A p \in Procs : ToSet(copy[p]) \subseteq Evidenced
  /\ \A p \in Procs : change[p] = NoChange \/ change[p] \in Sound

\* What a turn gives to the stream did happen.
LEMMA StreamGenuine ==
  ASSUME RuleEvolutionAssumption, RulesTyped, NEW t \in Turns
  PROVE  ToSet(Stream(t)) \subseteq Genuine
<1>1. batch \in [Turns -> Batches]
  BY DEF RulesTyped
<1>2. Stream(t) \in Seq(Events)
  BY <1>1, StreamTyped
<1>3. \A e \in ToSet(Stream(t)) : e \in Events /\ e.of = t
  <2>1. \A i \in DOMAIN Stream(t) : Stream(t)[i].of = t /\ Stream(t)[i] \in Events
    BY <1>2 DEF Stream
  <2> QED
    BY <2>1 DEF ToSet
<1> QED
  BY <1>3 DEF Genuine

\* The batches stay, and with them what is genuine.
LEMMA GenuineStays ==
  ASSUME batch' = batch
  PROVE  /\ Genuine' = Genuine /\ Evidenced' = Evidenced
         /\ Sound' = Sound
<1>1. \A t : Stream(t)' = Stream(t)
  BY DEF Stream
<1>2. Genuine' = Genuine
  BY <1>1 DEF Genuine, ToSet
<1>3. Sound' = Sound
  BY <1>2 DEF Sound
<1>4. Evidenced' = Evidenced
  BY <1>3 DEF Evidenced
<1> QED
  BY <1>2, <1>3, <1>4

\* A process that only forgets knows nothing new.
Fewer ==
  \A p \in Procs :
    /\ mem'[p] = mem[p] \/ mem'[p] = <<>>
    /\ left'[p] = left[p] \/ left'[p] = <<>>
    /\ copy'[p] = copy[p] \/ copy'[p] = <<>>
    /\ change'[p] = change[p] \/ change'[p] = NoChange

\* A process that forgets is left with less.
LEMMA ForgetFewer ==
  ASSUME RulesTyped, Staged, NEW p \in Procs, Forget(p)
  PROVE  Fewer
<1>1. /\ mem \in [Procs -> Seq(Events)] /\ left \in [Procs -> Seq(Events)]
      /\ copy \in [Procs -> Seq(Entries)] /\ change = [q \in Procs |-> change[q]]
  BY DEF RulesTyped, Staged
<1>2. /\ mem' = [mem EXCEPT ![p] = <<>>] /\ left' = [left EXCEPT ![p] = <<>>]
      /\ copy' = [copy EXCEPT ![p] = <<>>] /\ change' = [change EXCEPT ![p] = NoChange]
  BY DEF Forget
<1> QED
  BY <1>1, <1>2 DEF Fewer

\* A process that ends is left with less.
LEMMA LeaveFewer ==
  ASSUME RulesTyped, Staged, NEW p \in Procs, NEW result, Leave(p, result)
  PROVE  Fewer
<1>1. CASE Len(patterns[p]) > 1
  <2>1. /\ copy \in [Procs -> Seq(Entries)] /\ change = [q \in Procs |-> change[q]]
    BY DEF RulesTyped, Staged
  <2>2. /\ copy' = [copy EXCEPT ![p] = <<>>] /\ change' = [change EXCEPT ![p] = NoChange]
        /\ UNCHANGED <<mem, left>>
    BY <1>1 DEF Leave
  <2> QED
    BY <2>1, <2>2 DEF Fewer
<1>2. CASE ~(Len(patterns[p]) > 1)
  BY <1>2, ForgetFewer DEF Leave
<1> QED
  BY <1>1, <1>2

\* Who is left with less makes nothing up.
LEMMA FewerEvident ==
  ASSUME Evident, Fewer, batch' = batch, observed' = observed,
         ToSet(journal') \subseteq Evidenced
  PROVE  Evident'
<1>1. /\ Genuine' = Genuine /\ Evidenced' = Evidenced
      /\ Sound' = Sound
  BY GenuineStays
<1>2. ASSUME NEW p \in Procs
      PROVE  /\ ToSet(mem'[p]) \subseteq Genuine
             /\ ToSet(left'[p]) \subseteq Genuine
             /\ ToSet(copy'[p]) \subseteq Evidenced
             /\ change'[p] = NoChange \/ change'[p] \in Sound
  BY MembersNone DEF Fewer, Evident
<1>3. \A p \in Procs : change'[p] = NoChange \/ change'[p] \in Sound'
  BY <1>1, <1>2
<1>4. ToSet(observed') \subseteq Genuine
  BY DEF Evident
<1> QED
  BY <1>1, <1>2, <1>3, <1>4 DEF Evident, ToSet

\* What p knows may become more, by what is genuine.
LEMMA KnowsEvident ==
  ASSUME RulesTyped, Evident, NEW p \in Procs, NEW known, NEW rest,
         mem' = [mem EXCEPT ![p] = known], left' = [left EXCEPT ![p] = rest],
         ToSet(known) \subseteq Genuine, ToSet(rest) \subseteq Genuine,
         ToSet(observed') \subseteq Genuine,
         UNCHANGED <<batch, journal, copy, change>>
  PROVE  Evident'
<1>1. /\ Genuine' = Genuine /\ Evidenced' = Evidenced
      /\ Sound' = Sound
  BY GenuineStays
<1>2. \A q \in Procs : /\ ToSet(mem'[q]) \subseteq Genuine
                       /\ ToSet(left'[q]) \subseteq Genuine
  <2>1. mem \in [Procs -> Seq(Events)] /\ left \in [Procs -> Seq(Events)]
    BY DEF RulesTyped
  <2> QED
    BY <2>1 DEF Evident
<1>3. \A q \in Procs : change'[q] = NoChange \/ change'[q] \in Sound'
  BY <1>1 DEF Evident
<1>4. /\ ToSet(journal') \subseteq Evidenced
      /\ \A q \in Procs : ToSet(copy'[q]) \subseteq Evidenced
  BY DEF Evident
<1> QED
  BY <1>1, <1>2, <1>3, <1>4 DEF Evident, ToSet

\* What a turn reads in the stream did happen.
LEMMA StartEvident ==
  ASSUME RuleEvolutionAssumption, RulesTyped, Staged, Evident, NEW p \in Procs, Start(p)
  PROVE  Evident'
<1> PICK rest : rest = (IF p \in Turns THEN Stream(p) ELSE <<>>)
  OBVIOUS
<1>1. ToSet(rest) \subseteq Genuine
  BY StreamGenuine, MembersNone
<1>2. ToSet(observed) \subseteq Genuine
  BY DEF Evident
<1>3. /\ mem' = [mem EXCEPT ![p] = observed] /\ left' = [left EXCEPT ![p] = rest]
      /\ UNCHANGED <<batch, journal, copy, change, observed>>
  BY DEF Start
<1> QED
  BY <1>1, <1>2, <1>3, KnowsEvident

\* What a turn writes to the stream did happen.
LEMMA ObserveEvident ==
  ASSUME RuleEvolutionAssumption, RulesTyped, Staged, Evident, NEW t \in Turns, Observe(t)
  PROVE  Evident'
<1> t \in Procs
  BY DEF Procs
<1>1. mem \in [Procs -> Seq(Events)] /\ left \in [Procs -> Seq(Events)] /\ observed \in Seq(Events)
  BY DEF RulesTyped
<1> PICK known : known = mem[t]
  OBVIOUS
<1> PICK all : all = left[t]
  OBVIOUS
<1>2. known \in Seq(Events) /\ all \in Seq(Events) /\ all # <<>>
  BY <1>1 DEF Observe
<1> PICK event : event = Head(all)
  OBVIOUS
<1>3. event \in Events /\ event \in Genuine /\ ToSet(Tail(all)) \subseteq Genuine
  <2>1. ToSet(all) \subseteq Genuine
    BY DEF Evident
  <2>2. event \in ToSet(all) /\ ToSet(Tail(all)) \subseteq ToSet(all)
    BY <1>2, MembersTail
  <2> QED
    BY <2>1, <2>2 DEF Genuine
<1> PICK events : events = Append(known, event)
  OBVIOUS
<1>4. events \in Seq(Events) /\ ToSet(events) \subseteq Genuine
  <2>1. ToSet(known) \subseteq Genuine
    BY DEF Evident
  <2> QED
    BY <1>2, <1>3, <2>1, MembersAppend
<1>5. ToSet(Bounded(events)) \subseteq Genuine
  BY <1>4, MembersBounded
<1>6. ToSet(observed') \subseteq Genuine
  <2>1. observed' \in {observed, Append(observed, event), <<>>}
    BY DEF Observe
  <2>2. ToSet(observed) \subseteq Genuine
    BY DEF Evident
  <2>3. ToSet(Append(observed, event)) \subseteq Genuine
    BY <1>1, <1>3, <2>2, MembersAppend
  <2> QED
    BY <2>1, <2>2, <2>3, MembersNone
<1>7. /\ mem' = [mem EXCEPT ![t] = Bounded(events)] /\ left' = [left EXCEPT ![t] = Tail(all)]
      /\ UNCHANGED <<batch, journal, copy, change>>
  BY DEF Observe
<1> QED
  BY <1>3, <1>5, <1>6, <1>7, KnowsEvident

\* So did what it refills it with.
LEMMA RefillEvident ==
  ASSUME RuleEvolutionAssumption, RulesTyped, Staged, Evident, NEW t \in Turns, Refill(t)
  PROVE  Evident'
<1> t \in Procs
  BY DEF Procs
<1> PICK known : known = mem[t]
  OBVIOUS
<1>1. known \in Seq(Events) /\ observed \in Seq(Events)
  BY DEF RulesTyped
<1>2. ToSet(known) \subseteq Genuine /\ ToSet(observed) \subseteq Genuine
  BY DEF Evident
<1>3. observed' = observed \/ observed' = Overlay(known, observed)
  BY DEF Refill
<1>4. ToSet(observed') \subseteq Genuine
  BY <1>1, <1>2, <1>3, MembersOverlay
<1>5. UNCHANGED <<batch, mem, left, copy, change, journal>>
  BY DEF Refill, private
<1>6. Genuine' = Genuine /\ Evidenced' = Evidenced /\ Sound' = Sound
  BY <1>5, GenuineStays
<1> QED
  BY <1>4, <1>5, <1>6 DEF Evident, ToSet

\* A change that is prepared has evidence.
LEMMA PrepareEvident ==
  ASSUME RulesTyped, Staged, Evident, NEW p \in Procs, NEW c \in Sound, Prepare(p, c),
         UNCHANGED <<batch, mem, left, copy, observed, journal>>
  PROVE  Evident'
<1>1. Genuine' = Genuine /\ Evidenced' = Evidenced /\ Sound' = Sound
  BY GenuineStays
<1>2. \A q \in Procs : change'[q] = NoChange \/ change'[q] \in Sound
  BY DEF Prepare, Evident, Staged
<1> QED
  BY <1>1, <1>2 DEF Evident, ToSet

\* A proposal cites failures that a turn observed.
LEMMA ProposeEvident ==
  ASSUME RuleEvolutionAssumption, RulesTyped, Staged, Evident, NEW t \in Turns, Propose(t)
  PROVE  Evident'
<1> t \in Procs
  BY DEF Procs
<1> PICK s : s = Head(patterns[t])
  OBVIOUS
<1> PICK failures : failures = Failures(mem[t], s)
  OBVIOUS
<1> PICK c : c = [id |-> [rule |-> s, last |-> mem[t][Max(failures)], undo |-> 0],
                  old |-> Procedure(s), new |-> "repair",
                  evidence |-> {mem[t][i] : i \in failures}]
  OBVIOUS
<1>1. /\ Approved(t, c) /\ Prepare(t, c)
      /\ UNCHANGED <<batch, mem, left, copy, observed, journal>>
  BY DEF Propose
<1>2. ASSUME NEW e \in c.evidence PROVE e.what = c.id.rule /\ e \in Genuine
  <2>1. PICK i \in DOMAIN mem[t] : e = mem[t][i] /\ mem[t][i].what = s
    BY <1>2 DEF Failures
  <2>2. e \in ToSet(mem[t])
    BY <2>1 DEF ToSet
  <2> QED
    BY <2>1, <2>2 DEF Evident
<1>3. c \in Changes
  <2>1. RulesTyped' /\ Staged'
    BY ProposeTyped
  <2>2. at'[t] = "before" /\ change'[t] = c
    BY <1>1 DEF Prepare, Proceed, RulesTyped, Staged
  <2>3. Changing(t)'
    BY <2>2 DEF Changing
  <2> QED
    BY <2>1, <2>2, <2>3 DEF Staged
<1>4. c \in Sound
  BY <1>1, <1>2, <1>3 DEF Sound, Approved
<1> QED
  BY <1>1, <1>4, PrepareEvident

\* A rollback cites what the change cited that it takes back.
LEMMA FindEntryEvident ==
  ASSUME RuleEvolutionAssumption, RulesTyped, Staged, Evident, NEW b \in Rollbacks, FindEntry(b)
  PROVE  Evident'
<1> b \in Procs
  BY DEF Procs
<1>1. UNCHANGED <<batch, observed, journal>>
  BY DEF FindEntry
<1>2. CASE Proceed(b, "refused") /\ Forget(b)
  BY <1>1, <1>2, ForgetFewer, FewerEvident DEF Evident
<1>3. ASSUME UNCHANGED <<mem, left, copy>>,
             NEW i \in DOMAIN journal, Prepare(b, Back(journal[i].change))
      PROVE  Evident'
  <2>1. journal[i] \in Entries /\ journal[i] \in ToSet(journal)
    BY <1>3 DEF RulesTyped, ToSet
  <2>2. journal[i].change \in Sound
    BY <2>1 DEF Evident, Evidenced
  <2>3. Back(journal[i].change) \in Sound
    BY <2>2, BackTyped DEF Sound
  <2> QED
    BY <1>1, <1>3, <2>3, PrepareEvident
<1> QED
  BY <1>2, <1>3, FoundEntry

\* What a process reads in the journal has evidence.
LEMMA ReadJournalEvident ==
  ASSUME RulesTyped, Evident, NEW p \in Procs, ReadJournal(p)
  PROVE  Evident'
<1>1. /\ UNCHANGED <<batch, observed, journal, mem, left, change>>
      /\ copy' = [copy EXCEPT ![p] = journal]
  BY DEF ReadJournal
<1>2. Genuine' = Genuine /\ Evidenced' = Evidenced /\ Sound' = Sound
  BY <1>1, GenuineStays
<1>3. \A q \in Procs : ToSet(copy'[q]) \subseteq Evidenced
  <2>1. copy \in [Procs -> Seq(Entries)]
    BY DEF RulesTyped
  <2> QED
    BY <1>1, <2>1 DEF Evident
<1> QED
  BY <1>1, <1>2, <1>3 DEF Evident, ToSet

\* The entry that it adds has the evidence of its change.
LEMMA FillJournalEvident ==
  ASSUME RulesTyped, Staged, Evident, NEW p \in Procs, FillJournal(p)
  PROVE  Evident'
<1>1. /\ Leave(p, "done") /\ UNCHANGED <<batch, observed>>
      /\ journal' = Overlay(Journaled(p), journal)
  BY DEF FillJournal
<1>2. Changing(p)
  BY DEF FillJournal, Changing
<1>3. Entry(p) \in Entries
  <2>1. change[p] \in Changes
    BY <1>2 DEF Staged
  <2>2. before[p] \in Rules \cup {NoRule} /\ after[p] \in Rules \cup {NoRule}
    BY DEF RulesTyped
  <2> QED
    BY <2>1, <2>2 DEF Entry, Entries
<1>4. Entry(p) \in Evidenced
  <2>1. change[p] # NoChange
    BY <1>2 DEF Staged, NoChange, Changes
  <2> QED
    BY <1>3, <2>1 DEF Evident, Evidenced, Entry
<1>5. copy[p] \in Seq(Entries) /\ journal \in Seq(Entries)
  BY DEF RulesTyped
<1>6. ToSet(Journaled(p)) \subseteq Evidenced /\ Journaled(p) \in Seq(Entries)
  <2>1. ToSet(copy[p]) \subseteq Evidenced
    BY DEF Evident
  <2>2. ToSet(Append(copy[p], Entry(p))) = ToSet(copy[p]) \cup {Entry(p)}
    BY <1>3, <1>5, MembersAppend
  <2> QED
    BY <1>3, <1>4, <1>5, <2>1, <2>2 DEF Journaled
<1>7. ToSet(journal') \subseteq Evidenced
  <2>1. ToSet(journal) \subseteq Evidenced
    BY DEF Evident
  <2> QED
    BY <1>1, <1>5, <1>6, <2>1, MembersOverlay
<1> QED
  BY <1>1, <1>7, LeaveFewer, FewerEvident

\* Whatever happens to the rules, nothing is made up.
LEMMA StepEvident ==
  ASSUME RuleEvolutionAssumption, RulesTyped, Staged, Evident, [RulesNext]_ruleVars
  PROVE  Evident'
<1>1. ASSUME NEW p \in Procs, Start(p) PROVE Evident'
  BY <1>1, StartEvident
<1>2. ASSUME UNCHANGED <<batch, mem, left, copy, change, observed, journal>> PROVE Evident'
  BY <1>2, FewerEvident DEF Fewer, Evident
<1>3. ASSUME NEW p \in Procs,
             ReadBefore(p) \/ ReadVersion(p) \/ TruncateRule(p) \/ FillRule(p) \/ ReadAfter(p)
      PROVE  Evident'
  <2>1. UNCHANGED <<batch, mem, left, copy, change, observed, journal>>
    BY <1>3 DEF ReadBefore, ReadVersion, TruncateRule, FillRule, ReadAfter, private
  <2> QED
    BY <1>2, <2>1
<1>4. ASSUME NEW p \in Procs, ScoresTooLow(p) \/ SaveFails(p) PROVE Evident'
  <2>1. UNCHANGED <<batch, observed, journal>>
    BY <1>4 DEF ScoresTooLow, SaveFails
  <2>2. PICK result : Leave(p, result)
    BY <1>4 DEF ScoresTooLow, SaveFails
  <2>3. Fewer
    BY <2>2, LeaveFewer
  <2> QED
    BY <2>1, <2>3, FewerEvident DEF Evident
<1>5. ASSUME NEW p \in Procs, TruncateJournal(p) PROVE Evident'
  <2>1. UNCHANGED <<batch, observed, mem, left, copy, change>> /\ journal' = <<>>
    BY <1>5 DEF TruncateJournal, private
  <2>2. Fewer
    BY <2>1 DEF Fewer
  <2> QED
    BY <2>1, <2>2, MembersNone, FewerEvident
<1>6. ASSUME NEW p \in Procs, Apply(p) PROVE Evident'
  BY <1>3, <1>4, <1>5, <1>6, ReadJournalEvident, FillJournalEvident DEF Apply
<1>7. ASSUME NEW p \in Procs, Dies(p) PROVE Evident'
  <2>1. UNCHANGED <<batch, observed, journal>> /\ Forget(p)
    BY <1>7 DEF Dies
  <2> QED
    BY <2>1, ForgetFewer, FewerEvident DEF Evident
<1>8. ASSUME NEW t \in Turns, Detect(t) PROVE Evident'
  <2>1. t \in Procs
    BY DEF Procs
  <2>2. UNCHANGED <<batch, observed, journal>>
    BY <1>8 DEF Detect
  <2>3. Forget(t) \/ UNCHANGED <<mem, left, copy, change>>
    BY <1>8 DEF Detect
  <2> QED
    BY <1>2, <2>1, <2>2, <2>3, ForgetFewer, FewerEvident DEF Evident
<1>9. ASSUME NEW t \in Turns, Observe(t) \/ Refill(t) \/ Detect(t) \/ Propose(t)
      PROVE  Evident'
  BY <1>8, <1>9, ObserveEvident, RefillEvident, ProposeEvident
<1>10. ASSUME NEW b \in Rollbacks, FindEntry(b) PROVE Evident'
  BY <1>10, FindEntryEvident
<1>11. ASSUME NEW s \in Signatures, NEW e \in Edits, Edit(s, e) PROVE Evident'
  BY <1>2, <1>11 DEF Edit, private
<1>12. CASE UNCHANGED ruleVars
  BY <1>2, <1>12 DEF ruleVars
<1> QED
  BY <1>1, <1>6, <1>7, <1>9, <1>10, <1>11, <1>12 DEF RulesNext

\* If nothing is made up, every change has evidence.
LEMMA EvidentMeans ==
  ASSUME RulesTyped, Evident
  PROVE  ChangesHaveEvidence
<1>1. ASSUME NEW c \in Sound
      PROVE  /\ Cardinality(c.evidence) >= MinRepeats
             /\ \A e \in c.evidence : e.what = c.id.rule /\ e \in ToSet(Stream(e.of))
  BY DEF Sound, Genuine
<1>2. \A i \in DOMAIN journal : journal[i].change \in Sound
  BY DEF Evident, Evidenced, ToSet
<1>3. \A p \in Procs : change[p] # NoChange => change[p] \in Sound
  BY DEF Evident
<1> QED
  BY <1>1, <1>2, <1>3 DEF ChangesHaveEvidence

(***************************************************************************)
(* Rules: the stream                                                       *)
(***************************************************************************)

\* s is what t ends with.
EndOf(s, t) ==
  /\ Len(s) <= Len(t)
  /\ \A i \in 1..Len(s) : s[i] = t[Len(t) - Len(s) + i]

\* Lists that begin alike have the same beginnings.
LEMMA BeginAlike ==
  ASSUME NEW S, NEW r \in Seq(S), NEW q \in Seq(S), NEW m \in Nat,
         m <= Len(r), m <= Len(q), \A i \in 1..m : r[i] = q[i]
  PROVE  SubSeq(r, 1, m) = SubSeq(q, 1, m)
<1> PICK a : a = SubSeq(r, 1, m)
  OBVIOUS
<1> PICK b : b = SubSeq(q, 1, m)
  OBVIOUS
<1>1. a \in Seq(S) /\ Len(a) = m /\ \A i \in 1..m : a[i] = r[i]
  BY SubSeqProperties
<1>2. b \in Seq(S) /\ Len(b) = m /\ \A i \in 1..m : b[i] = q[i]
  BY SubSeqProperties
<1>3. \A i \in 1..m : a[i] = b[i]
  BY <1>1, <1>2
<1>4. a = b
  BY <1>1, <1>2, <1>3, SeqEqual
<1> QED
  BY <1>4

\* The members of a reversed list, by their places.
LEMMA ReverseIs ==
  ASSUME NEW S, NEW s \in Seq(S)
  PROVE  /\ Reverse(s) \in Seq(S) /\ Len(Reverse(s)) = Len(s)
         /\ \A i \in 1..Len(s) : Reverse(s)[i] = s[Len(s) - i + 1]
<1> PICK m : m = Len(s)
  OBVIOUS
<1>1. m \in Nat
  OBVIOUS
<1>2. \A i \in 1..m : m - i + 1 \in 1..m
  BY <1>1
<1>3. \A i \in 1..m : s[m - i + 1] \in S
  BY <1>2
<1>4. [i \in 1..m |-> s[m - i + 1]] \in [1..m -> S]
  BY <1>3
<1>5. Reverse(s) = [i \in 1..m |-> s[m - i + 1]]
  BY DEF Reverse
<1> QED
  BY <1>1, <1>4, <1>5

\* The end of a list is a suffix of it.
LEMMA SuffixIs ==
  ASSUME NEW S, NEW s \in Seq(S), NEW t \in Seq(S), EndOf(s, t)
  PROVE  IsSuffix(s, t)
<1>1. Len(s) \in Nat /\ Len(t) \in Nat /\ Len(s) <= Len(t)
  BY DEF EndOf
<1>2. /\ Reverse(s) \in Seq(S) /\ Len(Reverse(s)) = Len(s)
      /\ Reverse(t) \in Seq(S) /\ Len(Reverse(t)) = Len(t)
  BY ReverseIs
<1>3. ASSUME NEW i \in 1..Len(s) PROVE Reverse(s)[i] = Reverse(t)[i]
  <2>1. Reverse(s)[i] = s[Len(s) - i + 1] /\ Reverse(t)[i] = t[Len(t) - i + 1]
    BY <1>1, ReverseIs
  <2>2. s[Len(s) - i + 1] = t[Len(t) - Len(s) + (Len(s) - i + 1)]
    BY <1>1 DEF EndOf
  <2>3. Len(t) - Len(s) + (Len(s) - i + 1) = Len(t) - i + 1
    BY <1>1
  <2> QED
    BY <2>1, <2>2, <2>3
<1>4. SubSeq(Reverse(s), 1, Len(s)) = SubSeq(Reverse(t), 1, Len(s))
  <2>1. Len(s) \in Nat /\ Len(s) <= Len(Reverse(s)) /\ Len(s) <= Len(Reverse(t))
    BY <1>1, <1>2
  <2>2. Reverse(s) \in Seq(S) /\ Reverse(t) \in Seq(S)
    BY <1>2
  <2>3. \A i \in 1..Len(s) : Reverse(s)[i] = Reverse(t)[i]
    BY <1>3
  <2> QED
    BY <2>1, <2>2, <2>3, BeginAlike, Zenon
<1> QED
  BY <1>1, <1>2, <1>4 DEF IsSuffix, IsPrefix

\* An end of a list stays one when both get the same further member.
LEMMA EndOfAppend ==
  ASSUME NEW S, NEW s \in Seq(S), NEW t \in Seq(S), NEW e \in S, EndOf(s, t)
  PROVE  EndOf(Append(s, e), Append(t, e))
<1> PICK m : m = Len(s)
  OBVIOUS
<1> PICK n : n = Len(t)
  OBVIOUS
<1> PICK a : a = Append(s, e)
  OBVIOUS
<1> PICK b : b = Append(t, e)
  OBVIOUS
<1>1. m \in Nat /\ n \in Nat /\ m <= n
  BY DEF EndOf
<1>2. Len(a) = m + 1 /\ a[m + 1] = e /\ \A i \in 1..m : a[i] = s[i]
  OBVIOUS
<1>3. Len(b) = n + 1 /\ b[n + 1] = e /\ \A i \in 1..n : b[i] = t[i]
  OBVIOUS
<1>4. ASSUME NEW i \in 1..m + 1
      PROVE  a[i] = b[n - m + i]
  <2>1. CASE i = m + 1
    BY <1>1, <1>2, <1>3, <2>1
  <2>2. CASE i # m + 1
    <3>1. i \in 1..m /\ n - m + i \in 1..n
      BY <1>1, <2>2
    <3>2. s[i] = t[n - m + i]
      BY <3>1 DEF EndOf
    <3> QED
      BY <1>2, <1>3, <3>1, <3>2
  <2> QED
    BY <2>1, <2>2
<1>5. Len(b) - Len(a) = n - m
  BY <1>1, <1>2, <1>3
<1>6. Len(a) <= Len(b)
  BY <1>1, <1>2, <1>3
<1>7. \A i \in 1..Len(a) : a[i] = b[Len(b) - Len(a) + i]
  BY <1>2, <1>4, <1>5
<1>8. EndOf(a, b)
  BY <1>6, <1>7 DEF EndOf
<1> QED
  BY <1>8

\* Dropping the oldest leaves the newest.
LEMMA BoundedEnd ==
  ASSUME RuleEvolutionAssumption, NEW S, NEW s \in Seq(S), NEW t \in Seq(S), EndOf(s, t),
         Len(s) > MaxObserved
  PROVE  /\ EndOf(Bounded(s), t) /\ Len(Bounded(s)) = MaxObserved
         /\ Last(Bounded(s)) = Last(s)
<1>1. MaxObserved \in Nat \ {0} /\ Len(s) \in Nat /\ Len(t) \in Nat /\ Len(s) <= Len(t)
  BY DEF RuleEvolutionAssumption, EndOf
<1> PICK m : m = Len(s) - MaxObserved + 1
  OBVIOUS
<1>2. m \in 1..Len(s) /\ Len(s) - m + 1 = MaxObserved
  BY <1>1
<1> PICK b : b = SubSeq(s, m, Len(s))
  OBVIOUS
<1>3. /\ Len(b) = MaxObserved
      /\ \A i \in 1..MaxObserved : b[i] = s[m + i - 1]
  BY <1>1, <1>2, SubSeqProperties
<1>4. Bounded(s) = b
  BY <1>1 DEF Bounded
<1>5. \A i \in 1..MaxObserved : b[i] = t[Len(t) - MaxObserved + i]
  <2> SUFFICES ASSUME NEW i \in 1..MaxObserved PROVE b[i] = t[Len(t) - MaxObserved + i]
    OBVIOUS
  <2>1. m + i - 1 \in 1..Len(s)
    BY <1>1, <1>2
  <2>2. s[m + i - 1] = t[Len(t) - Len(s) + (m + i - 1)]
    BY <2>1 DEF EndOf
  <2>3. Len(t) - Len(s) + (m + i - 1) = Len(t) - MaxObserved + i
    BY <1>1
  <2> QED
    BY <1>3, <2>2, <2>3
<1>6. Last(b) = Last(s)
  <2>1. MaxObserved \in 1..MaxObserved /\ m + MaxObserved - 1 = Len(s)
    BY <1>1
  <2> QED
    BY <1>3, <2>1 DEF Last
<1>7. Len(b) <= Len(t)
  BY <1>1, <1>3
<1>8. \A i \in 1..Len(b) : b[i] = t[Len(t) - Len(b) + i]
  BY <1>3, <1>5
<1>9. EndOf(b, t)
  BY <1>7, <1>8 DEF EndOf
<1> QED
  BY <1>3, <1>4, <1>6, <1>9

Rewriting == {t \in Turns : at[t] = "refill"}

\* Nobody rewrites the stream; one does, and has what it will end with; or
\* a rewrite is bound to lose what another appended.
AtRest ==
  /\ Rewriting = {}
  /\ EndOf(observed, happened)
  /\ Len(observed) >= MaxObserved \/ observed = happened
OneRewrites ==
  \E t \in Turns :
    /\ Rewriting = {t} /\ observed = <<>>
    /\ EndOf(mem[t], Append(happened, Last(mem[t]))) /\ Len(mem[t]) = MaxObserved
Clash ==
  \/ observed # <<>> /\ Rewriting # {}
  \/ \E t, u \in Rewriting : t # u
Trailing == "observed" \notin disturbed => AtRest \/ OneRewrites \/ Clash

\* A step that has nothing to do with the stream.
Unheard ==
  /\ UNCHANGED <<observed, happened>>
  /\ \A t \in Turns : /\ at'[t] = "refill" <=> at[t] = "refill"
                      /\ at[t] = "refill" => mem'[t] = mem[t]
  /\ "observed" \in disturbed => "observed" \in disturbed'

\* A step that has nothing to do with the stream leaves it the tail.
LEMMA UnheardTrailing ==
  ASSUME Trailing, Unheard
  PROVE  Trailing'
<1>1. Rewriting' = Rewriting
  BY DEF Rewriting, Unheard
<1>2. observed' = observed /\ happened' = happened
  BY DEF Unheard
<1>3. \A t \in Rewriting : mem'[t] = mem[t]
  BY DEF Rewriting, Unheard
<1>4. SUFFICES ASSUME "observed" \notin disturbed'
               PROVE  AtRest' \/ OneRewrites' \/ Clash'
  BY DEF Trailing
<1>5. AtRest \/ OneRewrites \/ Clash
  BY <1>4 DEF Trailing, Unheard
<1>6. CASE AtRest
  BY <1>1, <1>2, <1>6 DEF AtRest, EndOf
<1>7. CASE OneRewrites
  <2>1. PICK t \in Turns : /\ Rewriting = {t} /\ observed = <<>>
                           /\ EndOf(mem[t], Append(happened, Last(mem[t])))
                           /\ Len(mem[t]) = MaxObserved
    BY <1>7 DEF OneRewrites
  <2>2. mem'[t] = mem[t]
    BY <1>3, <2>1
  <2>3. EndOf(mem'[t], Append(happened', Last(mem'[t]))) /\ Len(mem'[t]) = MaxObserved
    BY <1>2, <2>1, <2>2
  <2> QED
    BY <1>1, <1>2, <2>1, <2>3 DEF OneRewrites, EndOf, Last
<1>8. CASE Clash
  BY <1>1, <1>2, <1>8 DEF Clash
<1> QED
  BY <1>5, <1>6, <1>7, <1>8

\* The same for a step of a process that neither begins nor ends a rewrite.
LEMMA StepUnheard ==
  ASSUME RulesTyped, UNCHANGED <<observed, happened>>,
         NEW p \in Procs, at[p] # "refill", at'[p] # "refill",
         at' = [at EXCEPT ![p] = at'[p]], \A q \in Procs \ {p} : mem'[q] = mem[q],
         "observed" \in disturbed => "observed" \in disturbed'
  PROVE  Unheard
<1>1. \A q \in Procs \ {p} : at'[q] = at[q]
  BY DEF RulesTyped
<1> QED
  BY <1>1 DEF Unheard, Procs

\* A list with something appended is not empty.
LEMMA NoneAppended ==
  ASSUME NEW S, NEW list \in Seq(S), NEW e \in S
  PROVE  Append(list, e) # <<>>
BY AppendProperties

\* A turn that adds to the stream leaves it the tail, or begins to rewrite it
\* with what it holds.
LEMMA ObserveTrailing ==
  ASSUME RuleEvolutionAssumption, RulesTyped, Staged, Trailing, NEW t \in Turns, Observe(t)
  PROVE  Trailing'
<1> t \in Procs
  BY DEF Procs
<1>1. /\ mem \in [Procs -> Seq(Events)] /\ left \in [Procs -> Seq(Events)]
      /\ observed \in Seq(Events) /\ happened \in Seq(Events)
      /\ at \in [Procs -> Steps] /\ MaxObserved \in Nat \ {0}
  BY DEF RulesTyped, RuleEvolutionAssumption, Steps
<1> PICK known : known = mem[t]
  OBVIOUS
<1> PICK event : event = Head(left[t])
  OBVIOUS
<1>2. known \in Seq(Events) /\ event \in Events
  BY <1>1 DEF Observe
<1> PICK events : events = Append(known, event)
  OBVIOUS
<1>3. events \in Seq(Events) /\ Len(events) = Len(known) + 1 /\ Last(events) = event
  BY <1>2 DEF Last
<1>4. mem'[t] = Bounded(events) /\ t \notin Rewriting
  BY <1>1 DEF Observe, Rewriting
<1>5. SUFFICES ASSUME "observed" \notin disturbed'
               PROVE  AtRest' \/ OneRewrites' \/ Clash'
  BY DEF Trailing
<1>6. "observed" \notin disturbed
  BY <1>5 DEF Observe, Disturb
<1>7. AtRest \/ OneRewrites \/ Clash
  BY <1>6 DEF Trailing
<1>8. CASE /\ Len(events) <= MaxObserved
           /\ observed' = Append(observed, event) /\ happened' = Append(happened, event)
           /\ at' = at
  <2>1. Rewriting' = Rewriting
    BY <1>8 DEF Rewriting
  <2>2. observed' # <<>>
    <3>1. Append(observed, event) # <<>>
      BY <1>1, <1>2, NoneAppended
    <3> QED
      BY <1>8, <3>1
  <2>3. CASE AtRest
    <3>1. EndOf(Append(observed, event), Append(happened, event))
      BY <1>1, <1>2, <2>3, EndOfAppend DEF AtRest
    <3>2. EndOf(observed, happened)'
      BY <1>8, <3>1 DEF EndOf
    <3>3. Len(observed') >= MaxObserved \/ observed' = happened'
      BY <1>1, <1>2, <1>8, <2>3 DEF AtRest
    <3> QED
      BY <2>1, <2>3, <3>2, <3>3 DEF AtRest
  <2>4. CASE OneRewrites \/ Clash
    <3>1. Rewriting # {}
      BY <2>4 DEF OneRewrites, Clash
    <3> QED
      BY <2>1, <2>2, <3>1 DEF Clash
  <2> QED
    BY <1>7, <2>3, <2>4
<1>9. CASE /\ Len(events) > MaxObserved /\ observed' = <<>> /\ happened' = happened
           /\ Disturb("observed", observed # known) /\ Proceed(t, "refill")
  <2>1. observed = known
    BY <1>5, <1>9 DEF Disturb
  <2>2. Rewriting' = Rewriting \cup {t}
    BY <1>1, <1>9 DEF Rewriting, Proceed
  <2>3. CASE AtRest
    <3>1. Rewriting' = {t}
      BY <2>2, <2>3 DEF AtRest
    <3>2. EndOf(events, Append(happened, event))
      BY <1>1, <1>2, <2>1, <2>3, EndOfAppend DEF AtRest
    <3>3. Append(happened, event) \in Seq(Events)
      BY <1>1, <1>2
    <3>4. /\ EndOf(Bounded(events), Append(happened, event))
          /\ Len(Bounded(events)) = MaxObserved /\ Last(Bounded(events)) = event
      BY <1>3, <1>9, <3>2, <3>3, BoundedEnd
    <3>5. EndOf(mem'[t], Append(happened', Last(mem'[t]))) /\ Len(mem'[t]) = MaxObserved
      BY <1>4, <1>9, <3>4
    <3> QED
      BY <1>9, <3>1, <3>5 DEF OneRewrites, EndOf, Last
  <2>4. CASE OneRewrites
    <3>1. known = <<>>
      BY <2>1, <2>4 DEF OneRewrites
    <3>2. Len(events) = 1
      BY <1>3, <3>1
    <3> QED
      BY <1>1, <1>9, <3>2
  <2>5. CASE Clash
    <3>1. PICK u \in Rewriting : TRUE
      BY <2>5 DEF Clash
    <3> QED
      BY <1>4, <2>2, <3>1 DEF Clash
  <2> QED
    BY <1>7, <2>3, <2>4, <2>5
<1>10. CASE Disturb("observed", TRUE)
  BY <1>5, <1>10 DEF Disturb
<1> QED
  BY <1>8, <1>9, <1>10 DEF Observe

\* A turn that was the only one to rewrite it leaves the tail of what happened.
LEMMA RefillTrailing ==
  ASSUME RuleEvolutionAssumption, RulesTyped, Staged, Trailing, NEW t \in Turns, Refill(t)
  PROVE  Trailing'
<1> t \in Procs
  BY DEF Procs
<1>1. /\ mem \in [Procs -> Seq(Events)] /\ observed \in Seq(Events)
      /\ at \in [Procs -> Steps] /\ MaxObserved \in Nat \ {0}
  BY DEF RulesTyped, RuleEvolutionAssumption, Steps
<1>2. mem[t] \in Seq(Events) /\ mem[t] # <<>> /\ t \in Rewriting
  BY <1>1 DEF Staged, Refill, Rewriting
<1>3. Rewriting' = Rewriting \ {t}
  BY <1>1 DEF Refill, Proceed, Rewriting
<1>4. SUFFICES ASSUME "observed" \notin disturbed'
               PROVE  AtRest' \/ OneRewrites' \/ Clash'
  BY DEF Trailing
<1>5. AtRest \/ OneRewrites \/ Clash
  BY <1>4 DEF Trailing, Refill, Disturb
<1>6. /\ observed' = Overlay(mem[t], observed) /\ observed = <<>>
      /\ happened' = Append(happened, Last(mem[t]))
  BY <1>4 DEF Refill, Disturb
<1>7. observed' = mem[t]
  BY <1>1, <1>2, <1>6, OverlayIs
<1>8. CASE AtRest
  BY <1>2, <1>8 DEF AtRest
<1>9. CASE OneRewrites
  <2>1. Rewriting = {t} /\ EndOf(mem[t], happened') /\ Len(mem[t]) = MaxObserved
    BY <1>2, <1>6, <1>9 DEF OneRewrites
  <2>2. EndOf(observed, happened)'
    BY <1>7, <2>1 DEF EndOf
  <2>3. Len(observed') >= MaxObserved
    BY <1>1, <1>7, <2>1
  <2> QED
    BY <1>3, <2>1, <2>2, <2>3 DEF AtRest
<1>10. CASE Clash
  BY <1>2, <1>3, <1>6, <1>7, <1>10 DEF Clash
<1> QED
  BY <1>5, <1>8, <1>9, <1>10

\* Whatever happens to the rules, an undisturbed stream is the tail, or is being
\* written by one turn that holds it.
LEMMA StepTrailing ==
  ASSUME RuleEvolutionAssumption, RulesTyped, Staged, Trailing, [RulesNext]_ruleVars
  PROVE  Trailing'
<1>0. /\ at \in [Procs -> Steps] /\ PrivateTyped /\ SharedTyped
  BY RulesTypedParts
<1>1. ASSUME NEW p \in Procs, Start(p) PROVE Trailing'
  <2>1. /\ UNCHANGED <<observed, happened, disturbed>> /\ at[p] = "idle"
        /\ at' = [at EXCEPT ![p] = IF p \in Turns THEN "observe" ELSE "find"]
        /\ mem' = [mem EXCEPT ![p] = observed]
    BY <1>1 DEF Start, Proceed
  <2>2. /\ at'[p] # "refill" /\ at' = [at EXCEPT ![p] = at'[p]]
        /\ \A q \in Procs \ {p} : mem'[q] = mem[q]
    BY <1>0, <2>1 DEF PrivateTyped
  <2> QED
    BY <2>1, <2>2, StepUnheard, UnheardTrailing
<1>2. ASSUME NEW p \in Procs,
             ReadBefore(p) \/ ReadVersion(p) \/ TruncateRule(p) \/ FillRule(p)
               \/ ReadAfter(p) \/ ReadJournal(p) \/ TruncateJournal(p)
      PROVE  Trailing'
  <2>1. /\ UNCHANGED <<observed, happened, disturbed, mem>> /\ at[p] # "refill"
        /\ \E step \in Steps \ {"refill"} : Proceed(p, step)
    BY <1>2 DEF ReadBefore, ReadVersion, TruncateRule, FillRule, ReadAfter, ReadJournal,
                TruncateJournal, private, Steps
  <2>2. at'[p] # "refill" /\ at' = [at EXCEPT ![p] = at'[p]]
    BY <1>0, <2>1 DEF Proceed
  <2> QED
    BY <2>1, <2>2, StepUnheard, UnheardTrailing
<1>3. ASSUME NEW p \in Procs, ScoresTooLow(p) \/ FillJournal(p) \/ SaveFails(p)
      PROVE  Trailing'
  <2>1. PICK result \in Final : Leave(p, result)
    BY <1>3 DEF ScoresTooLow, FillJournal, SaveFails, Final
  <2>2. /\ UNCHANGED <<observed, happened>> /\ at[p] # "refill"
        /\ "observed" \in disturbed => "observed" \in disturbed'
    BY <1>3 DEF ScoresTooLow, FillJournal, SaveFails, Disturb
  <2>3. /\ at' = [at EXCEPT ![p] = at'[p]] /\ at'[p] \in Final \cup {"propose"}
        /\ \A q \in Procs \ {p} : mem'[q] = mem[q]
    BY <1>0, <2>1, LeaveTyped
  <2>4. at'[p] # "refill"
    BY <2>3 DEF Final
  <2> QED
    BY <2>2, <2>3, <2>4, StepUnheard, UnheardTrailing
<1>4. ASSUME NEW p \in Procs, Apply(p) PROVE Trailing'
  BY <1>2, <1>3, <1>4 DEF Apply
<1>5. ASSUME NEW p \in Procs, Dies(p) PROVE Trailing'
  <2>1. CASE at[p] = "refill"
    BY <1>5, <2>1 DEF Dies, Trailing
  <2>2. CASE at[p] # "refill"
    <3>1. /\ UNCHANGED <<observed, happened>> /\ at' = [at EXCEPT ![p] = "dead"]
          /\ "observed" \in disturbed => "observed" \in disturbed'
          /\ \A q \in Procs \ {p} : mem'[q] = mem[q]
      BY <1>0, <1>5, ForgetTyped DEF Dies, Proceed
    <3>2. at'[p] # "refill" /\ at' = [at EXCEPT ![p] = at'[p]]
      BY <1>0, <3>1
    <3> QED
      BY <2>2, <3>1, <3>2, StepUnheard, UnheardTrailing
  <2> QED
    BY <2>1, <2>2
<1>6. ASSUME NEW t \in Turns, Detect(t) \/ Propose(t) PROVE Trailing'
  <2> t \in Procs
    BY DEF Procs
  <2>1. /\ UNCHANGED <<observed, happened>> /\ at[t] # "refill"
        /\ "observed" \in disturbed => "observed" \in disturbed'
        /\ \E step \in Steps \ {"refill"} : Proceed(t, step)
    BY <1>6 DEF Detect, Propose, Prepare, Disturb, Steps, Final
  <2>2. at'[t] # "refill" /\ at' = [at EXCEPT ![t] = at'[t]]
    BY <1>0, <2>1 DEF Proceed
  <2>3. \A q \in Procs \ {t} : mem'[q] = mem[q]
    <3>1. mem' = mem \/ Forget(t)
      BY <1>6 DEF Detect, Propose
    <3> QED
      BY <1>0, <3>1, ForgetTyped
  <2> QED
    BY <2>1, <2>2, <2>3, StepUnheard, UnheardTrailing
<1>7. ASSUME NEW b \in Rollbacks, FindEntry(b) PROVE Trailing'
  <2> b \in Procs
    BY DEF Procs
  <2>1. /\ UNCHANGED <<observed, happened>> /\ at[b] # "refill"
    BY <1>7 DEF FindEntry
  <2>2. \/ \E c : Prepare(b, c) /\ mem' = mem
        \/ Proceed(b, "refused") /\ Forget(b) /\ UNCHANGED disturbed
    BY <1>7, FoundEntry
  <2>3. /\ "observed" \in disturbed => "observed" \in disturbed'
        /\ \E step \in Steps \ {"refill"} : Proceed(b, step)
    BY <2>2 DEF Prepare, Disturb, Steps, Final
  <2>4. at'[b] # "refill" /\ at' = [at EXCEPT ![b] = at'[b]]
    BY <1>0, <2>3 DEF Proceed
  <2>5. \A q \in Procs \ {b} : mem'[q] = mem[q]
    BY <1>0, <2>2, ForgetTyped
  <2> QED
    BY <2>1, <2>3, <2>4, <2>5, StepUnheard, UnheardTrailing
<1>8. ASSUME NEW s \in Signatures, NEW e \in Edits, Edit(s, e) PROVE Trailing'
  <2>1. Unheard
    BY <1>8 DEF Edit, Disturb, Unheard, private
  <2> QED
    BY <2>1, UnheardTrailing
<1>9. CASE UNCHANGED ruleVars
  <2>1. Unheard
    BY <1>9 DEF ruleVars, Unheard
  <2> QED
    BY <2>1, UnheardTrailing
<1> QED
  BY <1>1, <1>4, <1>5, <1>6, <1>7, <1>8, <1>9, ObserveTrailing, RefillTrailing DEF RulesNext

\* That makes it the tail whenever nobody is rewriting it.
LEMMA TrailingMeans ==
  ASSUME RulesTyped, Trailing
  PROVE  ObservedIsTail
<1>1. SUFFICES ASSUME "observed" \notin disturbed, \A t \in Turns : at[t] # "refill"
               PROVE  /\ IsSuffix(observed, happened)
                      /\ Len(observed) >= MaxObserved \/ observed = happened
  BY DEF ObservedIsTail
<1>2. Rewriting = {}
  BY <1>1 DEF Rewriting
<1>3. AtRest
  BY <1>1, <1>2 DEF Trailing, OneRewrites, Clash
<1>4. observed \in Seq(Events) /\ happened \in Seq(Events)
  BY DEF RulesTyped
<1> QED
  BY <1>3, <1>4, SuffixIs DEF AtRest

(***************************************************************************)
(* Rules: the journal                                                      *)
(***************************************************************************)

\* The journal accounts for these contents of the rules, and a rule that was never
\* there has no entries.
Ledger(entries, contents, written) ==
  \A s \in Signatures :
    /\ Audited(entries, s, contents[s])
    /\ HandKept(entries, s, contents[s], written[s])
    /\ contents[s] = NoRule => Trail(entries, s) = {}

\* One entry more accounts for the change it tells.
LEMMA TrailGrows ==
  ASSUME NEW entries \in Seq(Entries), NEW e \in Entries, NEW s \in Signatures
  PROVE  /\ \A i \in 1..Len(entries) : Append(entries, e)[i] = entries[i]
         /\ Append(entries, e)[Len(entries) + 1] = e
         /\ e.change.id.rule # s => Trail(Append(entries, e), s) = Trail(entries, s)
         /\ e.change.id.rule = s => Trail(Append(entries, e), s) = Trail(entries, s) \cup {Len(entries) + 1}
         /\ Trail(entries, s) \subseteq 1..Len(entries)
<1> PICK more : more = Append(entries, e)
  OBVIOUS
<1> PICK n : n = Len(entries)
  OBVIOUS
<1>1. /\ n \in Nat /\ DOMAIN entries = 1..n /\ DOMAIN more = 1..n + 1
      /\ \A i \in 1..n : more[i] = entries[i]
      /\ more[n + 1] = e
  OBVIOUS
<1>2. 1..n + 1 = (1..n) \cup {n + 1} /\ n + 1 \notin 1..n
  BY <1>1
<1>3. Trail(entries, s) = {i \in 1..n : entries[i].change.id.rule = s}
  BY <1>1 DEF Trail
<1>4. Trail(more, s) = {i \in 1..n : more[i].change.id.rule = s}
                        \cup {i \in {n + 1} : more[i].change.id.rule = s}
  BY <1>1, <1>2 DEF Trail
<1>5. {i \in 1..n : more[i].change.id.rule = s} = Trail(entries, s)
  BY <1>1, <1>3
<1>6. {i \in {n + 1} : more[i].change.id.rule = s} = IF e.change.id.rule = s THEN {n + 1} ELSE {}
  BY <1>1
<1> QED
  BY <1>1, <1>3, <1>4, <1>5, <1>6

\* An entry that begins with the content the journal accounts for leads to the
\* content it ends with.
LEMMA AuditedGrows ==
  ASSUME RuleEvolutionAssumption, NEW entries \in Seq(Entries), NEW e \in Entries,
         e.after # NoRule,
         Audited(entries, e.change.id.rule, e.before),
         e.before = NoRule => Trail(entries, e.change.id.rule) = {}
  PROVE  Audited(Append(entries, e), e.change.id.rule, e.after)
<1> PICK s : s = e.change.id.rule
  OBVIOUS
<1> PICK more : more = Append(entries, e)
  OBVIOUS
<1> PICK n : n = Len(entries)
  OBVIOUS
<1> PICK old : old = Trail(entries, s)
  OBVIOUS
<1>0. s \in Signatures
  BY DEF Entries, Changes, ChangeIds
<1>1. /\ n \in Nat /\ \A i \in 1..n : more[i] = entries[i]
      /\ more[n + 1] = e /\ Trail(more, s) = old \cup {n + 1} /\ old \subseteq 1..n
  BY <1>0, TrailGrows
<1>2. \E i \in Trail(more, s) : (\A j \in Trail(more, s) : j <= i) /\ more[i].after = e.after
  <2>1. \A j \in Trail(more, s) : j <= n + 1
    BY <1>1
  <2> QED
    BY <1>1, <2>1
<1>3. ASSUME NEW i \in Trail(more, s), NEW j \in Trail(more, s), i < j,
             \A k \in Trail(more, s) : k <= i \/ j <= k
      PROVE  \/ more[j].before = more[i].after
             \/ more[j].before # NoRule /\ more[j].before.procedure \in Edits
  <2>1. i \in old
    BY <1>1, <1>3
  <2>2. CASE j \in old
    <3>1. \A k \in old : k <= i \/ j <= k
      BY <1>1, <1>3
    <3>2. \/ entries[j].before = entries[i].after
          \/ entries[j].before # NoRule /\ entries[j].before.procedure \in Edits
      BY <1>3, <2>1, <2>2, <3>1 DEF Audited
    <3> QED
      BY <1>1, <2>1, <2>2, <3>2
  <2>3. CASE j = n + 1
    <3>1. \A k \in old : k <= i
      <4> SUFFICES ASSUME NEW k \in old PROVE k <= i
        OBVIOUS
      <4>1. k \in 1..n /\ ~(n + 1 <= k)
        BY <1>1
      <4> QED
        BY <1>1, <1>3, <2>3, <4>1
    <3>2. e.before \in Rules
      BY <2>1 DEF Entries
    <3>3. CASE e.before.procedure \in Edits
      BY <1>1, <2>3, <3>2, <3>3 DEF RuleEvolutionAssumption
    <3>4. CASE e.before.procedure \notin Edits
      <4>1. e.before.procedure \in {"repair", "none"}
        BY <3>2, <3>4 DEF Rules, Procedures
      <4>2. e.before # NoRule
        BY <3>2 DEF RuleEvolutionAssumption
      <4>3. PICK m \in old : (\A k \in old : k <= m) /\ entries[m].after = e.before
        BY <4>1, <4>2 DEF Audited
      <4>4. m = i
        BY <1>1, <2>1, <3>1, <4>3
      <4> QED
        BY <1>1, <2>1, <2>3, <4>3, <4>4
    <3> QED
      BY <3>3, <3>4
  <2> QED
    BY <1>1, <2>2, <2>3
<1> QED
  BY <1>2, <1>3 DEF Audited

\* What an operator wrote is in the rule, or in the entry that overwrote it.
LEMMA HandKeptGrows ==
  ASSUME NEW entries \in Seq(Entries), NEW e \in Entries, NEW written,
         HandKept(entries, e.change.id.rule, e.before, written)
  PROVE  HandKept(Append(entries, e), e.change.id.rule, e.after, written)
<1> PICK s : s = e.change.id.rule
  OBVIOUS
<1> PICK more : more = Append(entries, e)
  OBVIOUS
<1> PICK n : n = Len(entries)
  OBVIOUS
<1>0. s \in Signatures
  BY DEF Entries, Changes, ChangeIds
<1>1. /\ n \in Nat /\ \A i \in 1..n : more[i] = entries[i]
      /\ more[n + 1] = e /\ Trail(more, s) = Trail(entries, s) \cup {n + 1}
      /\ Trail(entries, s) \subseteq 1..n
  BY <1>0, TrailGrows
<1>2. CASE written = "none"
  BY <1>2 DEF HandKept
<1>3. CASE e.before # NoRule /\ e.before.procedure = written
  BY <1>1, <1>3 DEF HandKept
<1>4. CASE \E i \in Trail(entries, s) :
             entries[i].before # NoRule /\ entries[i].before.procedure = written
  <2>1. PICK i \in Trail(entries, s) :
             entries[i].before # NoRule /\ entries[i].before.procedure = written
    BY <1>4
  <2>2. i \in Trail(more, s) /\ more[i] = entries[i]
    BY <1>1, <2>1
  <2> QED
    BY <2>1, <2>2 DEF HandKept
<1> QED
  BY <1>2, <1>3, <1>4 DEF HandKept

\* A journal that accounts for the rules as they were before a change accounts
\* for them afterwards, with one entry more.
LEMMA LedgerGrows ==
  ASSUME RuleEvolutionAssumption, NEW entries \in Seq(Entries), NEW e \in Entries,
         NEW contents \in [Signatures -> Rules \cup {NoRule}], NEW written,
         contents[e.change.id.rule] = e.after, e.after # NoRule,
         Ledger(entries, [contents EXCEPT ![e.change.id.rule] = e.before], written)
  PROVE  Ledger(Append(entries, e), contents, written)
<1> PICK s : s = e.change.id.rule
  OBVIOUS
<1> PICK more : more = Append(entries, e)
  OBVIOUS
<1> PICK n : n = Len(entries)
  OBVIOUS
<1>0. s \in Signatures
  BY DEF Entries, Changes, ChangeIds
<1>1. ASSUME NEW r \in Signatures, r # s
      PROVE  /\ Audited(more, r, contents[r])
             /\ HandKept(more, r, contents[r], written[r])
             /\ contents[r] = NoRule => Trail(more, r) = {}
  <2> PICK old : old = Trail(entries, r)
    OBVIOUS
  <2>1. /\ \A i \in 1..n : more[i] = entries[i]
        /\ Trail(more, r) = old /\ old \subseteq 1..n
    BY <1>1, TrailGrows
  <2>2. /\ Audited(entries, r, contents[r])
        /\ HandKept(entries, r, contents[r], written[r])
        /\ contents[r] = NoRule => old = {}
    BY <1>0, <1>1 DEF Ledger
  <2>3. \A i \in old : more[i] = entries[i]
    BY <2>1
  <2>4. Audited(more, r, contents[r])
    BY <2>1, <2>2, <2>3 DEF Audited
  <2>5. HandKept(more, r, contents[r], written[r])
    BY <2>1, <2>2, <2>3 DEF HandKept
  <2> QED
    BY <2>1, <2>2, <2>4, <2>5
<1>2. /\ Audited(entries, s, e.before)
      /\ HandKept(entries, s, e.before, written[s])
      /\ e.before = NoRule => Trail(entries, s) = {}
  BY <1>0 DEF Ledger
<1>3. Audited(more, s, contents[s])
  BY <1>2, AuditedGrows
<1>4. HandKept(more, s, contents[s], written[s])
  BY <1>2, HandKeptGrows
<1> QED
  BY <1>1, <1>3, <1>4 DEF Ledger

\* What an operator writes is on no account, but in the rule.
LEMMA LedgerEdited ==
  ASSUME RuleEvolutionAssumption, NEW entries, NEW contents \in [Signatures -> Rules \cup {NoRule}],
         NEW written \in [Signatures -> {"none"} \cup Edits],
         NEW s \in Signatures, NEW rule \in Rules, rule.procedure \in Edits,
         Ledger(entries, contents, written)
  PROVE  Ledger(entries, [contents EXCEPT ![s] = rule], [written EXCEPT ![s] = rule.procedure])
<1> PICK c : c = [contents EXCEPT ![s] = rule]
  OBVIOUS
<1> PICK w : w = [written EXCEPT ![s] = rule.procedure]
  OBVIOUS
<1>1. /\ c[s] = rule /\ w[s] = rule.procedure
      /\ \A r \in Signatures \ {s} : c[r] = contents[r] /\ w[r] = written[r]
  OBVIOUS
<1>2. rule # NoRule /\ rule.procedure \notin {"none", "repair"}
  BY DEF RuleEvolutionAssumption
<1>3. Audited(entries, s, rule)
  BY <1>2 DEF Ledger, Audited
<1>4. HandKept(entries, s, rule, rule.procedure)
  BY <1>2 DEF HandKept
<1>5. \A r \in Signatures \ {s} : /\ Audited(entries, r, c[r])
                                  /\ HandKept(entries, r, c[r], w[r])
                                  /\ c[r] = NoRule => Trail(entries, r) = {}
  BY <1>1 DEF Ledger
<1> QED
  BY <1>1, <1>2, <1>3, <1>4, <1>5 DEF Ledger

Former(content) == IF content = NoRule THEN "none" ELSE content.procedure

\* A change that a turn made tells the procedure it found.
Firsthand(entries) ==
  \A i \in DOMAIN entries :
    entries[i].change.id.undo = 0 => entries[i].change.old = Former(entries[i].before)

\* A change that takes back one a turn made gives back what that one found.
Undoes(entries, c) ==
  c.id.undo = 1 =>
    \A i \in Places(entries, [c.id EXCEPT !.undo = 0]) :
      (\A j \in Places(entries, [c.id EXCEPT !.undo = 0]) : i <= j)
        => entries[i].change.old = c.new /\ c.new # "none"

Wrote == {"fill", "reread", "load", "cut", "append"}

\* The journal, or what will be in it again.
Book(p) == IF at[p] = "append" THEN copy[p] ELSE journal

\* The rules, without what p is writing.
Owed(p) == [rules EXCEPT ![Target(p)] = before[p]]

\* How far a process is with a change, if nothing disturbed it.
HasDone(p) ==
  /\ at[p] \in Wrote => Ledger(Book(p), Owed(p), byHand)
  /\ at[p] = "append" => journal = <<>> /\ Firsthand(copy[p])
  /\ at[p] = "cut" => copy[p] = journal
  /\ change[p].id.undo = 0
       => change[p].old = Former(IF at[p] = "before" THEN rules[Target(p)] ELSE before[p])
  /\ at[p] \in {"version", "truncate"} => before[p] = rules[Target(p)]
  /\ at[p] \in {"reread", "load", "cut", "append"}
       => rules[Target(p)] = [procedure |-> change[p].new, version |-> version[p]]
  /\ at[p] \in {"load", "cut", "append"} => after[p] = rules[Target(p)]
  /\ Undoes(Book(p), change[p])

\* One process changes at a time; while none has written, the journal accounts for
\* the rules.
Exclusive == \A p, q \in Procs : Changing(p) /\ Changing(q) => p = q
Balanced == (\A p \in Procs : at[p] \notin Wrote) => Ledger(journal, rules, byHand)
Recorded == (\A p \in Procs : at[p] # "append") => Firsthand(journal)
InOrder == Exclusive /\ Balanced /\ Recorded /\ \A p \in Procs : Changing(p) => HasDone(p)
OrderKept == "changes" \notin disturbed => InOrder

\* A step in which those that stay at a change do not get further, and those that
\* leave one have written nothing.
Idle ==
  /\ UNCHANGED <<rules, journal, byHand>>
  /\ "changes" \in disturbed => "changes" \in disturbed'
  /\ \A p \in Procs :
       /\ Changing(p)' => /\ at'[p] = at[p] /\ change'[p] = change[p] /\ before'[p] = before[p]
                          /\ version'[p] = version[p] /\ after'[p] = after[p]
                          /\ copy'[p] = copy[p]
       /\ at[p] \in Wrote => at'[p] = at[p]

\* A step in which nobody gets further with a change keeps the order.
LEMMA IdleSerial ==
  ASSUME OrderKept, Idle
  PROVE  OrderKept'
<1>1. SUFFICES ASSUME "changes" \notin disturbed' PROVE InOrder'
  BY DEF OrderKept
<1>2. InOrder
  BY <1>1 DEF OrderKept, Idle
<1>3. rules' = rules /\ journal' = journal /\ byHand' = byHand
  BY DEF Idle
<1>4. \A p \in Procs : Changing(p)' => Changing(p)
  BY DEF Idle, Changing
<1>5. Exclusive'
  BY <1>2, <1>4 DEF InOrder, Exclusive
<1>6. Balanced'
  <2>1. SUFFICES ASSUME \A p \in Procs : at'[p] \notin Wrote
                 PROVE  Ledger(journal', rules', byHand')
    BY DEF Balanced, Wrote, Ledger, Audited, HandKept, Trail
  <2>2. \A p \in Procs : at[p] \notin Wrote
    BY <2>1 DEF Idle
  <2> QED
    BY <1>2, <1>3, <2>2 DEF InOrder, Balanced
<1>7. Recorded'
  <2>1. SUFFICES ASSUME \A p \in Procs : at'[p] # "append"
                 PROVE  Firsthand(journal')
    BY DEF Recorded, Firsthand, Former
  <2>2. \A p \in Procs : at[p] # "append"
    BY <2>1 DEF Idle, Wrote
  <2> QED
    BY <1>2, <1>3, <2>2 DEF InOrder, Recorded
<1>8. ASSUME NEW p \in Procs, Changing(p)' PROVE HasDone(p)'
  <2>1. HasDone(p)
    BY <1>2, <1>4, <1>8 DEF InOrder
  <2>2. /\ at'[p] = at[p] /\ change'[p] = change[p] /\ before'[p] = before[p]
        /\ version'[p] = version[p] /\ after'[p] = after[p] /\ copy'[p] = copy[p]
    BY <1>8 DEF Idle
  <2>3. Target(p)' = Target(p)
    BY <2>2 DEF Target
  <2>4. Book(p)' = Book(p)
    BY <1>3, <2>2 DEF Book
  <2>5. Owed(p)' = Owed(p)
    BY <1>3, <2>2, <2>3 DEF Owed
  <2> QED
    BY <1>3, <2>1, <2>2, <2>3, <2>4, <2>5
    DEF HasDone, Wrote, Ledger, Audited, HandKept, Trail, Firsthand, Former, Undoes, Places
<1> QED
  BY <1>5, <1>6, <1>7, <1>8 DEF InOrder

\* In order, the process that changes a rule is the only one that does.
LEMMA OneAtATime ==
  ASSUME InOrder, NEW p \in Procs, Changing(p)
  PROVE  HasDone(p) /\ \A q \in Procs \ {p} : ~Changing(q)
BY DEF InOrder, Exclusive

\* From one step of a change to the next.
LEMMA OnwardOrderly ==
  ASSUME RulesTyped, InOrder, NEW p \in Procs, Changing(p),
         at' = [at EXCEPT ![p] = at'[p]], byHand' = byHand,
         at'[p] \notin Wrote => at[p] \notin Wrote /\ rules' = rules /\ journal' = journal,
         at'[p] # "append" => at[p] # "append" /\ journal' = journal,
         HasDone(p)'
  PROVE  InOrder'
<1>1. \A q \in Procs \ {p} : at'[q] = at[q]
  BY DEF RulesTyped
<1>2. \A q \in Procs \ {p} : ~Changing(q)
  BY OneAtATime
<1>3. \A q \in Procs \ {p} : ~Changing(q)' /\ at[q] \notin Wrote
  BY <1>1, <1>2 DEF Changing, Wrote
<1>4. Exclusive'
  BY <1>3 DEF Exclusive
<1>5. Balanced'
  <2>1. SUFFICES ASSUME at'[p] \notin Wrote PROVE Ledger(journal, rules, byHand)'
    BY DEF Balanced
  <2>2. Ledger(journal, rules, byHand)
    BY <1>3, <2>1 DEF InOrder, Balanced
  <2> QED
    BY <2>1, <2>2
<1>6. Recorded'
  <2>1. SUFFICES ASSUME at'[p] # "append" PROVE Firsthand(journal)'
    BY DEF Recorded
  <2>2. Firsthand(journal)
    BY <1>3, <2>1 DEF InOrder, Recorded, Wrote
  <2> QED
    BY <2>1, <2>2
<1> QED
  BY <1>3, <1>4, <1>5, <1>6 DEF InOrder

\* The process that reads the rule to be changed goes on in order.
LEMMA ReadBeforeWork ==
  ASSUME RulesTyped, Staged, NEW p \in Procs, HasDone(p), ReadBefore(p)
  PROVE  HasDone(p)'
<1>1. /\ at[p] = "before" /\ at'[p] = "version" /\ before'[p] = rules[Target(p)]
      /\ UNCHANGED <<change, rules, journal>>
  BY DEF RulesTyped, ReadBefore, Proceed
<1>2. Target(p)' = Target(p) /\ Book(p)' = journal /\ Book(p) = journal
  BY <1>1 DEF Target, Book
<1> QED
  BY <1>1, <1>2 DEF HasDone, Wrote

\* So does the one that reads its version.
LEMMA ReadVersionWork ==
  ASSUME RulesTyped, Staged, NEW p \in Procs, HasDone(p), ReadVersion(p)
  PROVE  HasDone(p)'
<1>1. /\ at[p] = "version" /\ at'[p] = "truncate"
      /\ UNCHANGED <<change, rules, journal, before>>
  BY DEF RulesTyped, ReadVersion, Proceed
<1>2. Target(p)' = Target(p) /\ Book(p)' = journal /\ Book(p) = journal
  BY <1>1 DEF Target, Book
<1> QED
  BY <1>1, <1>2 DEF HasDone, Wrote

\* So does the one that empties the rule's file.
LEMMA TruncateRuleWork ==
  ASSUME RulesTyped, Staged, InOrder, NEW p \in Procs, HasDone(p), TruncateRule(p)
  PROVE  HasDone(p)'
<1> PICK s : s = Target(p)
  OBVIOUS
<1> PICK cut : cut = [procedure |-> "none", version |-> 1]
  OBVIOUS
<1>1. /\ at[p] = "truncate" /\ at'[p] = "fill" /\ rules' = [rules EXCEPT ![s] = cut]
      /\ UNCHANGED <<change, journal, before, byHand>>
  BY DEF RulesTyped, TruncateRule, Proceed, private
<1>2. Target(p)' = s /\ Book(p)' = journal /\ Book(p) = journal
  BY <1>1 DEF Target, Book
<1>3. s \in Signatures /\ rules \in [Signatures -> Rules \cup {NoRule}]
  BY <1>1, WorkingOn DEF Changing, RulesTyped
<1>4. [[rules EXCEPT ![s] = cut] EXCEPT ![s] = before[p]] = rules
  BY <1>1, <1>3 DEF HasDone
<1>5. Owed(p)' = rules
  BY <1>1, <1>2, <1>4 DEF Owed
<1>6. Ledger(journal, rules, byHand)
  <2>1. \A q \in Procs \ {p} : ~Changing(q)
    BY <1>1, OneAtATime DEF Changing
  <2>2. \A q \in Procs : at[q] \notin Wrote
    BY <1>1, <2>1 DEF Changing, Wrote
  <2> QED
    BY <2>2 DEF InOrder, Balanced
<1>7. Ledger(Book(p), Owed(p), byHand)'
  BY <1>1, <1>2, <1>5, <1>6
<1> QED
  BY <1>1, <1>2, <1>7 DEF HasDone, Wrote

\* So does the one that writes the rule; now the journal owes an entry.
LEMMA FillRuleWork ==
  ASSUME RulesTyped, Staged, NEW p \in Procs, HasDone(p), FillRule(p)
  PROVE  HasDone(p)'
<1> PICK s : s = Target(p)
  OBVIOUS
<1> PICK rule : rule = [procedure |-> change[p].new, version |-> version[p]]
  OBVIOUS
<1>1. /\ at[p] = "fill" /\ at'[p] = "reread" /\ rules' = [rules EXCEPT ![s] = rule]
      /\ UNCHANGED <<change, journal, before, version, byHand>>
  BY DEF RulesTyped, FillRule, Proceed, private
<1>2. Target(p)' = s /\ Book(p)' = journal /\ Book(p) = journal
  BY <1>1 DEF Target, Book
<1>3. s \in Signatures /\ rules \in [Signatures -> Rules \cup {NoRule}]
  BY <1>1, WorkingOn DEF Changing, RulesTyped
<1>4. [[rules EXCEPT ![s] = rule] EXCEPT ![s] = before[p]] = [rules EXCEPT ![s] = before[p]]
  BY <1>3
<1>5. Owed(p)' = Owed(p)
  BY <1>1, <1>2, <1>4 DEF Owed
<1>6. Ledger(Book(p), Owed(p), byHand)'
  BY <1>1, <1>2, <1>5 DEF HasDone, Wrote
<1>7. rules'[s] = rule
  BY <1>1, <1>3
<1> QED
  BY <1>1, <1>2, <1>6, <1>7 DEF HasDone, Wrote

\* So does the one that reads the rule again.
LEMMA ReadAfterWork ==
  ASSUME RulesTyped, Staged, NEW p \in Procs, HasDone(p), ReadAfter(p)
  PROVE  HasDone(p)'
<1>1. /\ at[p] = "reread" /\ at'[p] = "load" /\ after'[p] = rules[Target(p)]
      /\ UNCHANGED <<change, rules, journal, before, version, byHand>>
  BY DEF RulesTyped, ReadAfter, Proceed
<1>2. Target(p)' = Target(p) /\ Book(p)' = journal /\ Book(p) = journal /\ Owed(p)' = Owed(p)
  BY <1>1 DEF Target, Book, Owed
<1>3. Ledger(Book(p), Owed(p), byHand)'
  BY <1>1, <1>2 DEF HasDone, Wrote
<1> QED
  BY <1>1, <1>2, <1>3 DEF HasDone, Wrote

\* So does the one that reads the journal.
LEMMA ReadJournalWork ==
  ASSUME RulesTyped, Staged, NEW p \in Procs, HasDone(p), ReadJournal(p)
  PROVE  HasDone(p)'
<1>1. /\ at[p] = "load" /\ at'[p] = "cut" /\ copy'[p] = journal
      /\ UNCHANGED <<change, rules, journal, before, version, after, byHand>>
  BY DEF RulesTyped, ReadJournal, Proceed
<1>2. Target(p)' = Target(p) /\ Book(p)' = journal /\ Book(p) = journal /\ Owed(p)' = Owed(p)
  BY <1>1 DEF Target, Book, Owed
<1>3. Ledger(Book(p), Owed(p), byHand)'
  BY <1>1, <1>2 DEF HasDone, Wrote
<1> QED
  BY <1>1, <1>2, <1>3 DEF HasDone, Wrote

\* So does the one that empties the journal, holding a copy of it.
LEMMA TruncateJournalWork ==
  ASSUME RulesTyped, Staged, InOrder, NEW p \in Procs, HasDone(p), TruncateJournal(p)
  PROVE  HasDone(p)'
<1>1. /\ at[p] = "cut" /\ at'[p] = "append" /\ journal' = <<>>
      /\ UNCHANGED <<change, rules, before, version, after, copy, byHand>>
  BY DEF RulesTyped, TruncateJournal, Proceed, private
<1>2. copy[p] = journal
  BY <1>1 DEF HasDone
<1>3. Target(p)' = Target(p) /\ Book(p)' = journal /\ Book(p) = journal /\ Owed(p)' = Owed(p)
  BY <1>1, <1>2 DEF Target, Book, Owed
<1>4. Ledger(Book(p), Owed(p), byHand)'
  BY <1>1, <1>3 DEF HasDone, Wrote
<1>5. Firsthand(copy[p])'
  <2>1. \A q \in Procs \ {p} : ~Changing(q)
    BY <1>1, OneAtATime DEF Changing
  <2>2. \A q \in Procs : at[q] # "append"
    BY <1>1, <2>1 DEF Changing
  <2>3. Firsthand(journal)
    BY <2>2 DEF InOrder, Recorded
  <2> QED
    BY <1>1, <1>2, <2>3
<1> QED
  BY <1>1, <1>3, <1>4, <1>5 DEF HasDone, Wrote

\* A change that goes on, up to the last write, keeps the order.
LEMMA OnwardSerial ==
  ASSUME RuleEvolutionAssumption, RulesTyped, Staged, OrderKept, NEW p \in Procs,
         ReadBefore(p) \/ ReadVersion(p) \/ TruncateRule(p) \/ FillRule(p) \/ ReadAfter(p)
           \/ ReadJournal(p) \/ TruncateJournal(p)
  PROVE  OrderKept'
<1>1. Changing(p)
  BY DEF ReadBefore, ReadVersion, TruncateRule, FillRule, ReadAfter, ReadJournal,
         TruncateJournal, Changing
<1>2. disturbed' = disturbed /\ byHand' = byHand
  BY DEF ReadBefore, ReadVersion, TruncateRule, FillRule, ReadAfter, ReadJournal,
         TruncateJournal
<1>3. SUFFICES ASSUME "changes" \notin disturbed PROVE InOrder'
  BY <1>2 DEF OrderKept
<1>4. InOrder /\ HasDone(p)
  BY <1>1, <1>3, OneAtATime DEF OrderKept
<1>5. HasDone(p)'
  BY <1>4, ReadBeforeWork, ReadVersionWork, TruncateRuleWork, FillRuleWork, ReadAfterWork,
     ReadJournalWork, TruncateJournalWork
<1>6. /\ at' = [at EXCEPT ![p] = at'[p]]
      /\ at'[p] \notin Wrote => at[p] \notin Wrote /\ rules' = rules /\ journal' = journal
      /\ at'[p] # "append" => at[p] # "append" /\ journal' = journal
  BY DEF RulesTyped, ReadBefore, ReadVersion, TruncateRule, FillRule, ReadAfter, ReadJournal,
         TruncateJournal, Proceed, Wrote
<1> QED
  BY <1>1, <1>2, <1>4, <1>5, <1>6, OnwardOrderly

\* A change that is prepared is the only one.
LEMMA PrepareSerial ==
  ASSUME RulesTyped, Staged, OrderKept, NEW p \in Procs, NEW c, Prepare(p, c), ~Changing(p),
         UNCHANGED <<rules, journal, byHand>>,
         c.id.undo = 0 => c.old = Former(rules[c.id.rule]),
         "changes" \notin disturbed => Undoes(journal, c)
  PROVE  OrderKept'
<1>1. SUFFICES ASSUME "changes" \notin disturbed' PROVE InOrder'
  BY DEF OrderKept
<1>2. "changes" \notin disturbed /\ \A q \in Procs : ~Changing(q)
  BY <1>1 DEF Prepare, Disturb
<1>3. /\ change'[p] = c /\ at'[p] = "before"
      /\ \A q \in Procs \ {p} : at'[q] = at[q]
  BY DEF Prepare, Proceed, Staged, RulesTyped
<1>4. \A q \in Procs \ {p} : ~Changing(q)'
  BY <1>2, <1>3 DEF Changing
<1>5. Exclusive'
  BY <1>4 DEF Exclusive
<1>6. /\ \A q \in Procs : at[q] \notin Wrote /\ at[q] # "append"
      /\ \A q \in Procs : at'[q] \notin Wrote
  BY <1>2, <1>3 DEF Changing, Wrote
<1>7. Ledger(journal, rules, byHand) /\ Firsthand(journal)
  BY <1>2, <1>6 DEF OrderKept, InOrder, Balanced, Recorded
<1>8. Balanced' /\ Recorded'
  BY <1>7 DEF Balanced, Recorded
<1>9. Target(p)' = c.id.rule /\ Book(p)' = journal
  BY <1>3 DEF Target, Book
<1>10. HasDone(p)'
  BY <1>2, <1>3, <1>9 DEF HasDone, Wrote
<1> QED
  BY <1>4, <1>5, <1>8, <1>10 DEF InOrder

\* What the last write of a change leaves in the journal: what was there and an
\* entry for the change.
LEMMA FillJournalIs ==
  ASSUME RuleEvolutionAssumption, RulesTyped, Staged, NEW p \in Procs, FillJournal(p), HasDone(p)
  PROVE  /\ journal' = Append(copy[p], Entry(p))
         /\ copy[p] \in Seq(Entries) /\ Entry(p) \in Entries
         /\ Entry(p).change = change[p] /\ Entry(p).before = before[p]
         /\ Entry(p).after = rules[Target(p)]
<1>1. at[p] = "append" /\ Changing(p)
  BY DEF FillJournal, Changing
<1>2. journal = <<>> /\ after[p] = rules[Target(p)]
  BY <1>1 DEF HasDone
<1>3. copy[p] \in Seq(Entries) /\ before[p] \in Rules \cup {NoRule} /\ after[p] \in Rules \cup {NoRule}
  BY DEF RulesTyped
<1>4. change[p] \in Changes
  BY <1>1 DEF Staged
<1>5. /\ Entry(p) \in Entries /\ Entry(p).change = change[p] /\ Entry(p).before = before[p]
      /\ Entry(p).after = after[p]
  BY <1>3, <1>4 DEF Entry, Entries
<1>6. Journaled(p) = Append(copy[p], Entry(p)) /\ Journaled(p) \in Seq(Entries)
  BY <1>3, <1>5 DEF Journaled
<1>7. journal \in Seq(Entries)
  BY DEF RulesTyped
<1>8. Overlay(Journaled(p), journal) = Journaled(p)
  BY <1>2, <1>6, <1>7, OverlayIs
<1> QED
  BY <1>2, <1>3, <1>5, <1>6, <1>8 DEF FillJournal

\* An entry that tells what its turn found leaves the journal firsthand.
LEMMA FirsthandGrows ==
  ASSUME NEW entries \in Seq(Entries), NEW e \in Entries, Firsthand(entries),
         e.change.id.undo = 0 => e.change.old = Former(e.before)
  PROVE  Firsthand(Append(entries, e))
<1>1. ASSUME NEW i \in DOMAIN Append(entries, e)
      PROVE  \/ i \in DOMAIN entries /\ Append(entries, e)[i] = entries[i]
             \/ Append(entries, e)[i] = e
  OBVIOUS
<1> PICK more : more = Append(entries, e)
  OBVIOUS
<1>2. \A i \in DOMAIN more : (i \in DOMAIN entries /\ more[i] = entries[i]) \/ more[i] = e
  BY <1>1
<1>3. Firsthand(more)
  BY <1>2 DEF Firsthand
<1> QED
  BY <1>3

\* The last write of a change keeps the order: the journal accounts for the
\* rules again.
LEMMA FillJournalSerial ==
  ASSUME RuleEvolutionAssumption, RulesTyped, Staged, OrderKept, NEW p \in Procs, FillJournal(p)
  PROVE  OrderKept'
<1>1. at[p] = "append" /\ Changing(p) /\ Leave(p, "done")
      /\ UNCHANGED <<rules, disturbed, byHand>>
  BY DEF FillJournal, Changing
<1>2. SUFFICES ASSUME "changes" \notin disturbed PROVE InOrder'
  BY <1>1 DEF OrderKept
<1>3. HasDone(p) /\ \A q \in Procs \ {p} : ~Changing(q)
  BY <1>1, <1>2, OneAtATime DEF OrderKept
<1>4. /\ at' = [at EXCEPT ![p] = at'[p]] /\ at'[p] \in Final \cup {"propose"}
      /\ \A q \in Procs \ {p} : at'[q] = at[q]
  <2>1. PrivateTyped /\ at \in [Procs -> Steps]
    BY RulesTypedParts
  <2>2. "done" \in Final
    BY DEF Final
  <2> QED
    BY <1>1, <2>1, <2>2, LeaveTyped
<1>5. \A q \in Procs : ~Changing(q)'
  BY <1>3, <1>4 DEF Changing, Final
<1>6. /\ journal' = Append(copy[p], Entry(p))
      /\ copy[p] \in Seq(Entries) /\ Entry(p) \in Entries
      /\ Entry(p).change = change[p] /\ Entry(p).before = before[p]
      /\ Entry(p).after = rules[Target(p)]
  BY <1>3, FillJournalIs
<1>7. Ledger(journal', rules, byHand)
  <2>1. Entry(p).change.id.rule = Target(p)
    BY <1>6 DEF Target
  <2>2. Ledger(copy[p], [rules EXCEPT ![Target(p)] = before[p]], byHand)
    BY <1>1, <1>3 DEF HasDone, Wrote, Book, Owed
  <2>3. rules \in [Signatures -> Rules \cup {NoRule}]
    BY DEF RulesTyped
  <2>4. rules[Target(p)] # NoRule
    <3>1. rules[Target(p)] = [procedure |-> change[p].new, version |-> version[p]]
      BY <1>1, <1>3 DEF HasDone
    <3>2. change[p].new \in Procedures /\ version[p] \in Nat
      BY <1>1, WorkingOn DEF RulesTyped
    <3>3. rules[Target(p)] \in Rules
      BY <3>1, <3>2 DEF Rules
    <3> QED
      BY <3>3 DEF RuleEvolutionAssumption
  <2> PICK e : e = Entry(p)
    OBVIOUS
  <2>5. Ledger(Append(copy[p], e), rules, byHand)
    BY <1>6, <2>1, <2>2, <2>3, <2>4, LedgerGrows
  <2> QED
    BY <1>6, <2>5
<1>8. Firsthand(journal')
  BY <1>1, <1>3, <1>6, FirsthandGrows DEF HasDone
<1>9. Exclusive' /\ Balanced' /\ Recorded'
  BY <1>1, <1>5, <1>7, <1>8 DEF Exclusive, Balanced, Recorded
<1> QED
  BY <1>5, <1>9 DEF InOrder

\* The proposal of a change keeps the order.
LEMMA ProposeSerial ==
  ASSUME RuleEvolutionAssumption, RulesTyped, Staged, OrderKept, NEW t \in Turns, Propose(t)
  PROVE  OrderKept'
<1> t \in Procs
  BY DEF Procs
<1> PICK c : c = [id |-> [rule |-> Head(patterns[t]),
                          last |-> mem[t][Max(Failures(mem[t], Head(patterns[t])))], undo |-> 0],
                  old |-> Procedure(Head(patterns[t])), new |-> "repair",
                  evidence |-> {mem[t][i] : i \in Failures(mem[t], Head(patterns[t]))}]
  OBVIOUS
<1>1. /\ Prepare(t, c) /\ ~Changing(t) /\ UNCHANGED <<rules, journal, byHand>>
  BY DEF Propose, Changing
<1>2. c.id.undo = 0 /\ c.old = Former(rules[c.id.rule])
  BY DEF Former, Procedure
<1>3. Undoes(journal, c)
  BY <1>2 DEF Undoes
<1> QED
  BY <1>1, <1>2, <1>3, PrepareSerial

\* The choice of the entry to roll back keeps the order.
LEMMA FindEntrySerial ==
  ASSUME RuleEvolutionAssumption, RulesTyped, Staged, OrderKept, NEW b \in Rollbacks,
         NEW i \in DOMAIN journal,
         \A j \in Places(journal, journal[i].change.id) : i <= j,
         journal[i].change.old # "none",
         Prepare(b, Back(journal[i].change)), ~Changing(b),
         UNCHANGED <<rules, journal, byHand>>
  PROVE  OrderKept'
<1> b \in Procs
  BY DEF Procs
<1>1. journal \in Seq(Entries)
  BY DEF RulesTyped
<1> PICK c : c = journal[i].change
  OBVIOUS
<1>2. c \in Changes
  <2>1. journal[i] \in Entries
    BY <1>1
  <2> QED
    BY <2>1 DEF Entries
<1>3. c.id \in ChangeIds /\ c.id.undo \in Nat
  BY <1>2 DEF Changes, ChangeIds
<1>4. Back(c).id = [c.id EXCEPT !.undo = c.id.undo + 1] /\ Back(c).new = c.old
  BY DEF Back
<1>5. Back(c).id.undo = c.id.undo + 1
  BY <1>2, BackTyped
<1>6. Undoes(journal, Back(c))
  <2>1. SUFFICES ASSUME Back(c).id.undo = 1
                 PROVE  \A k \in Places(journal, [Back(c).id EXCEPT !.undo = 0]) :
                          (\A j \in Places(journal, [Back(c).id EXCEPT !.undo = 0]) : k <= j)
                            => journal[k].change.old = c.old /\ c.old # "none"
    BY <1>4 DEF Undoes
  <2>2. c.id.undo = 0
    BY <1>3, <1>5, <2>1
  <2>3. [Back(c).id EXCEPT !.undo = 0] = c.id
    BY <1>3, <1>4, <2>2 DEF ChangeIds
  <2>4. i \in Places(journal, c.id) /\ \A k \in Places(journal, c.id) : k \in Nat
    BY <1>1 DEF Places
  <2>5. ASSUME NEW k \in Places(journal, c.id), \A j \in Places(journal, c.id) : k <= j
        PROVE  k = i
    <3>1. k <= i /\ i <= k
      BY <2>4, <2>5
    <3> QED
      BY <2>4, <3>1
  <2> QED
    BY <2>3, <2>5
<1>7. Back(c).id.undo # 0
  BY <1>3, <1>5
<1> QED
  BY <1>6, <1>7, PrepareSerial

\* What the others have at work.
OthersWork(p) ==
  \A q \in Procs \ {p} : /\ change'[q] = change[q] /\ before'[q] = before[q]
                         /\ version'[q] = version[q] /\ after'[q] = after[q]
                         /\ copy'[q] = copy[q]

\* Who forgets leaves the work of others alone.
LEMMA ForgetOthers ==
  ASSUME RulesTyped, Staged, NEW p \in Procs, Forget(p)
  PROVE  OthersWork(p)
BY DEF RulesTyped, Staged, Forget, OthersWork

\* Who ends leaves the work of others alone.
LEMMA LeaveOthers ==
  ASSUME RulesTyped, Staged, NEW p \in Procs, NEW result, Leave(p, result)
  PROVE  OthersWork(p)
<1>1. CASE Len(patterns[p]) > 1
  BY <1>1 DEF RulesTyped, Staged, Leave, OthersWork
<1>2. CASE ~(Len(patterns[p]) > 1)
  BY <1>2, ForgetOthers DEF Leave
<1> QED
  BY <1>1, <1>2

\* A process that is not changing anything, or has changed nothing and stops.
LEMMA StepIdle ==
  ASSUME RulesTyped, NEW p \in Procs, UNCHANGED <<rules, journal, byHand>>,
         "changes" \in disturbed => "changes" \in disturbed',
         at' = [at EXCEPT ![p] = at'[p]], at[p] \notin Wrote, ~Changing(p)', OthersWork(p)
  PROVE  Idle
<1>1. \A q \in Procs \ {p} : at'[q] = at[q]
  BY DEF RulesTyped
<1>2. ASSUME NEW q \in Procs, Changing(q)'
      PROVE  /\ at'[q] = at[q] /\ change'[q] = change[q] /\ before'[q] = before[q]
             /\ version'[q] = version[q] /\ after'[q] = after[q] /\ copy'[q] = copy[q]
  BY <1>1, <1>2 DEF OthersWork
<1>3. \A q \in Procs : at[q] \in Wrote => at'[q] = at[q]
  BY <1>1
<1> QED
  BY <1>2, <1>3 DEF Idle

\* What an operator writes by hand keeps the order.
LEMMA EditSerial ==
  ASSUME RuleEvolutionAssumption, RulesTyped, Staged, OrderKept,
         NEW s \in Signatures, NEW e \in Edits, Edit(s, e)
  PROVE  OrderKept'
<1>1. SUFFICES ASSUME "changes" \notin disturbed' PROVE InOrder'
  BY DEF OrderKept
<1>2. "changes" \notin disturbed /\ \A q \in Procs : ~Changing(q)
  BY <1>1 DEF Edit, Disturb
<1>3. \A q \in Procs : at[q] \notin Wrote /\ at[q] # "append"
  BY <1>2 DEF Changing, Wrote
<1>4. Ledger(journal, rules, byHand) /\ Firsthand(journal)
  BY <1>2, <1>3 DEF OrderKept, InOrder, Balanced, Recorded
<1>5. UNCHANGED <<at, journal>>
  BY DEF Edit
<1> PICK rule : rule = [procedure |-> e, version |-> rules[s].version]
  OBVIOUS
<1>6. /\ rules \in [Signatures -> Rules \cup {NoRule}]
      /\ byHand \in [Signatures -> {"none"} \cup Edits]
  BY DEF RulesTyped
<1>7. rule \in Rules /\ rule.procedure = e
  <2>1. rules[s] \in Rules
    BY <1>6 DEF Edit
  <2>2. rules[s].version \in Nat
    BY <2>1 DEF Rules
  <2> QED
    BY <2>2 DEF Rules, Procedures
<1>8. rules' = [rules EXCEPT ![s] = rule] /\ byHand' = [byHand EXCEPT ![s] = e]
  BY <1>6 DEF Edit
<1>9. Ledger(journal', rules', byHand')
  <2>1. Ledger(journal, [rules EXCEPT ![s] = rule], [byHand EXCEPT ![s] = rule.procedure])
    BY <1>4, <1>6, <1>7, LedgerEdited
  <2> QED
    BY <1>5, <1>7, <1>8, <2>1
<1>10. \A q \in Procs : ~Changing(q)'
  BY <1>2, <1>5 DEF Changing
<1>11. Exclusive' /\ Balanced' /\ Recorded'
  BY <1>4, <1>5, <1>9, <1>10 DEF Exclusive, Balanced, Recorded
<1> QED
  BY <1>10, <1>11 DEF InOrder

\* Whatever happens to the rules, undisturbed changes are made in order.
LEMMA StepSerial ==
  ASSUME RuleEvolutionAssumption, RulesTyped, Staged, OrderKept, [RulesNext]_ruleVars
  PROVE  OrderKept'
<1>0. at \in [Procs -> Steps] /\ PrivateTyped
  BY RulesTypedParts
<1>1. ASSUME NEW p \in Procs, Start(p) PROVE OrderKept'
  <2>1. /\ UNCHANGED <<rules, journal, byHand, disturbed, change, before, version, after, copy>>
        /\ at[p] = "idle" /\ at' = [at EXCEPT ![p] = IF p \in Turns THEN "observe" ELSE "find"]
    BY <1>1 DEF Start, Proceed
  <2>2. at' = [at EXCEPT ![p] = at'[p]] /\ at'[p] \in {"observe", "find"}
    BY <1>0, <2>1
  <2>3. Idle
    BY <2>1, <2>2, StepIdle DEF Changing, Wrote, OthersWork
  <2> QED
    BY <2>3, IdleSerial
<1>2. ASSUME NEW t \in Turns, Observe(t) \/ Refill(t) PROVE OrderKept'
  <2> t \in Procs
    BY DEF Procs
  <2>1. /\ UNCHANGED <<rules, journal, byHand, change, before, version, after, copy>>
        /\ at[t] \in {"observe", "refill"}
        /\ "changes" \in disturbed => "changes" \in disturbed'
    BY <1>2 DEF Observe, Refill, Disturb, private
  <2>2. at' = at \/ \E step \in {"observe", "refill"} : at' = [at EXCEPT ![t] = step]
    BY <1>2 DEF Observe, Refill, Proceed
  <2>3. at' = [at EXCEPT ![t] = at'[t]] /\ at'[t] \in {"observe", "refill"}
    BY <1>0, <2>1, <2>2
  <2>4. Idle
    BY <2>1, <2>3, StepIdle DEF Changing, Wrote, OthersWork
  <2> QED
    BY <2>4, IdleSerial
<1>3. ASSUME NEW t \in Turns, Detect(t) PROVE OrderKept'
  <2> t \in Procs
    BY DEF Procs
  <2>1. UNCHANGED <<rules, journal, byHand, disturbed>> /\ at[t] = "observe"
    BY <1>3 DEF Detect
  <2>2. \E step \in {"done", "propose"} : at' = [at EXCEPT ![t] = step]
    BY <1>3 DEF Detect, Proceed
  <2>3. at' = [at EXCEPT ![t] = at'[t]] /\ at'[t] \in {"done", "propose"}
    BY <1>0, <2>2
  <2>4. OthersWork(t)
    <3>1. Forget(t) \/ UNCHANGED <<change, before, version, after, copy>>
      BY <1>3 DEF Detect
    <3> QED
      BY <3>1, ForgetOthers DEF OthersWork
  <2>5. Idle
    BY <2>1, <2>3, <2>4, StepIdle DEF Changing, Wrote
  <2> QED
    BY <2>5, IdleSerial
<1>4. ASSUME NEW b \in Rollbacks, FindEntry(b) PROVE OrderKept'
  <2> b \in Procs
    BY DEF Procs
  <2>1. UNCHANGED <<rules, journal, byHand>> /\ at[b] = "find"
    BY <1>4 DEF FindEntry
  <2>2. CASE Proceed(b, "refused") /\ Forget(b) /\ UNCHANGED disturbed
    <3>1. at' = [at EXCEPT ![b] = at'[b]] /\ at'[b] = "refused"
      BY <1>0, <2>2 DEF Proceed
    <3>2. Idle
      BY <2>1, <2>2, <3>1, ForgetOthers, StepIdle DEF Changing, Wrote
    <3> QED
      BY <3>2, IdleSerial
  <2>3. ASSUME NEW i \in DOMAIN journal,
               \A j \in Places(journal, journal[i].change.id) : i <= j,
               journal[i].change.old # "none", Prepare(b, Back(journal[i].change))
        PROVE  OrderKept'
    BY <2>1, <2>3, FindEntrySerial DEF Changing
  <2> QED
    BY <1>4, <2>2, <2>3, FoundEntry
<1>5. ASSUME NEW p \in Procs, ScoresTooLow(p) \/ SaveFails(p) PROVE OrderKept'
  <2>1. CASE at[p] \in Wrote
    BY <1>5, <2>1 DEF ScoresTooLow, SaveFails, Disturb, OrderKept, Wrote
  <2>2. CASE at[p] \notin Wrote
    <3>1. /\ UNCHANGED <<rules, journal, byHand>>
          /\ "changes" \in disturbed => "changes" \in disturbed'
      BY <1>5 DEF ScoresTooLow, SaveFails, Disturb
    <3>2. PICK result \in Final : Leave(p, result)
      BY <1>5 DEF ScoresTooLow, SaveFails, Final
    <3>3. at' = [at EXCEPT ![p] = at'[p]] /\ at'[p] \in Final \cup {"propose"}
      BY <1>0, <3>2, LeaveTyped
    <3>4. Idle
      BY <2>2, <3>1, <3>2, <3>3, LeaveOthers, StepIdle DEF Changing, Final
    <3> QED
      BY <3>4, IdleSerial
  <2> QED
    BY <2>1, <2>2
<1>6. ASSUME NEW p \in Procs, Apply(p) PROVE OrderKept'
  BY <1>5, <1>6, OnwardSerial, FillJournalSerial DEF Apply
<1>7. ASSUME NEW p \in Procs, Dies(p) PROVE OrderKept'
  <2>1. CASE at[p] \in Wrote
    BY <1>7, <2>1 DEF Dies, OrderKept, Wrote
  <2>2. CASE at[p] \notin Wrote
    <3>1. /\ UNCHANGED <<rules, journal, byHand>> /\ Forget(p) /\ Proceed(p, "dead")
          /\ "changes" \in disturbed => "changes" \in disturbed'
      BY <1>7 DEF Dies
    <3>2. at' = [at EXCEPT ![p] = at'[p]] /\ at'[p] = "dead"
      BY <1>0, <3>1 DEF Proceed
    <3>3. Idle
      BY <2>2, <3>1, <3>2, ForgetOthers, StepIdle DEF Changing
    <3> QED
      BY <3>3, IdleSerial
  <2> QED
    BY <2>1, <2>2
<1>8. CASE UNCHANGED ruleVars
  <2>1. Idle
    BY <1>8 DEF ruleVars, Idle
  <2> QED
    BY <2>1, IdleSerial
<1> QED
  BY <1>1, <1>2, <1>3, <1>4, <1>6, <1>7, <1>8, ProposeSerial, EditSerial DEF RulesNext

RulesInv == RulesTyped /\ Staged /\ Evident /\ Trailing /\ OrderKept

\* The invariant of the rules holds at first.
LEMMA RulesStart ==
  ASSUME RuleEvolutionAssumption, RulesInit
  PROVE  RulesInv
<1>1. RulesTyped
  <2>1. /\ mem = [p \in Procs |-> <<>>] /\ left = [p \in Procs |-> <<>>]
        /\ patterns = [p \in Procs |-> <<>>] /\ copy = [p \in Procs |-> <<>>]
    BY DEF RulesInit
  <2>2. /\ <<>> \in Seq(Events) /\ <<>> \in Seq(Signatures) /\ <<>> \in Seq(Entries)
    OBVIOUS
  <2>3. /\ mem \in [Procs -> Seq(Events)] /\ left \in [Procs -> Seq(Events)]
        /\ patterns \in [Procs -> Seq(Signatures)] /\ copy \in [Procs -> Seq(Entries)]
    BY <2>1, <2>2
  <2>4. mishaps \in 0..MaxMishaps
    BY DEF RulesInit, RuleEvolutionAssumption
  <2>5. /\ before \in [Procs -> Rules \cup {NoRule}] /\ after \in [Procs -> Rules \cup {NoRule}]
        /\ version \in [Procs -> Nat] /\ rules \in [Signatures -> Rules \cup {NoRule}]
        /\ byHand \in [Signatures -> {"none"} \cup Edits]
        /\ disturbed \in SUBSET {"observed", "changes"}
        /\ \A p \in Procs : change[p] = NoChange
    BY DEF RulesInit
  <2>6. observed \in Seq(Events) /\ journal \in Seq(Entries) /\ happened \in Seq(Events)
    BY <2>2 DEF RulesInit
  <2>7. batch \in [Turns -> Batches] /\ at = [p \in Procs |-> "idle"]
    BY DEF RulesInit
  <2> QED
    BY <2>3, <2>4, <2>5, <2>6, <2>7 DEF RulesTyped
<1>2. /\ \A p \in Procs : /\ at[p] = "idle" /\ change[p] = NoChange
                         /\ mem[p] = <<>> /\ left[p] = <<>> /\ copy[p] = <<>>
                         /\ patterns[p] = <<>>
      /\ change = [p \in Procs |-> NoChange]
      /\ observed = <<>> /\ happened = <<>> /\ journal = <<>>
      /\ rules = [s \in Signatures |-> NoRule] /\ byHand = [s \in Signatures |-> "none"]
  BY DEF RulesInit
<1>3. Staged
  BY <1>2 DEF Staged, Changing
<1>4. Evident
  BY <1>2, MembersNone DEF Evident
<1>5. Trailing
  <2>1. Rewriting = {}
    BY <1>2 DEF Rewriting, Procs
  <2>2. EndOf(observed, happened)
    <3>1. Len(<<>>) = 0
      OBVIOUS
    <3> QED
      BY <1>2, <3>1 DEF EndOf
  <2> QED
    BY <1>2, <2>1, <2>2 DEF Trailing, AtRest
<1>6. Ledger(journal, rules, byHand)
  <2>1. \A s \in Signatures : Trail(journal, s) = {}
    BY <1>2 DEF Trail
  <2>2. \A s \in Signatures : rules[s] = NoRule /\ byHand[s] = "none"
    BY <1>2
  <2> QED
    BY <2>1, <2>2 DEF Ledger, Audited, HandKept
<1>7. OrderKept
  <2>1. \A p \in Procs : ~Changing(p)
    BY <1>2 DEF Changing
  <2>2. Firsthand(journal)
    BY <1>2 DEF Firsthand
  <2> QED
    BY <1>6, <2>1, <2>2 DEF OrderKept, InOrder, Exclusive, Balanced, Recorded
<1> QED
  BY <1>1, <1>3, <1>4, <1>5, <1>7 DEF RulesInv

\* Whatever happens to the rules, their invariant stays.
LEMMA RulesStep ==
  ASSUME RuleEvolutionAssumption
  PROVE  RulesInv /\ [RulesNext]_ruleVars => RulesInv'
BY RulesStepTyped, StepEvident, StepTrailing, StepSerial DEF RulesInv

\* The invariant behind the theorems on rules.
LEMMA RulesInvariant ==
  ASSUME RuleEvolutionAssumption
  PROVE  RulesSpec => []RulesInv
<1>1. RulesInit => RulesInv
  BY RulesStart
<1> QED
  BY <1>1, RulesStep, PTL DEF RulesSpec

\* The stream on disk is what was observed last, however many turns, of whatever
\* tools, append to it, as long as none rewrites it without what another wrote.
THEOREM TheStreamIsTail == RulesSpec => []RulesWellFormed
<1>1. RulesInv => RulesWellFormed
  BY TrailingMeans DEF RulesInv, RulesWellFormed
<1> QED
  BY <1>1, RuleEvolutionAssumption, RulesInvariant, PTL

\* No rule is changed without failures of its kind that some turn met, whatever
\* overlaps, dies, or is rolled back.
THEOREM EvidenceIsCited == RulesSpec => []ChangesHaveEvidence
<1>1. RulesInv => ChangesHaveEvidence
  BY EvidentMeans DEF RulesInv
<1> QED
  BY <1>1, RuleEvolutionAssumption, RulesInvariant, PTL

\* The journal accounts for every rule, and for what operators wrote in between, if
\* changes did not overlap and none died half-way.
THEOREM TheJournalAccounts == RulesSpec => []JournalAccounts
<1>1. RulesInv => JournalAccounts
  <2>1. SUFFICES ASSUME RulesInv, Still
                 PROVE  \A s \in Signatures : /\ Audited(journal, s, rules[s])
                                              /\ HandKept(journal, s, rules[s], byHand[s])
    BY DEF JournalAccounts
  <2>2. \A p \in Procs : at[p] \notin Wrote
    BY <2>1 DEF Still, Changing, Wrote
  <2>3. Ledger(journal, rules, byHand)
    BY <2>1, <2>2 DEF RulesInv, Still, OrderKept, InOrder, Balanced
  <2> QED
    BY <2>3 DEF Ledger
<1> QED
  BY <1>1, RuleEvolutionAssumption, RulesInvariant, PTL

\* Only writing the journal takes a process from there to the end.
LEMMA OnlyFilling ==
  ASSUME RuleEvolutionAssumption, RulesTyped, Staged, [RulesNext]_ruleVars,
         NEW b \in Rollbacks, at[b] = "append", at'[b] = "done"
  PROVE  FillJournal(b)
<1> b \in Procs
  BY DEF Procs
<1>0. at \in [Procs -> Steps] /\ PrivateTyped
  BY RulesTypedParts
<1>1. ASSUME NEW p \in Procs, at' = [at EXCEPT ![p] = at'[p]] PROVE p = b
  BY <1>0, <1>1
<1>2. ASSUME NEW p \in Procs, NEW step, Proceed(p, step) PROVE p = b
  <2>1. at'[p] = step
    BY <1>0, <1>2 DEF Proceed
  <2>2. at' = [at EXCEPT ![p] = at'[p]]
    BY <1>2, <2>1 DEF Proceed
  <2> QED
    BY <1>1, <2>2
<1>3. ASSUME NEW p \in Procs, Start(p) PROVE FALSE
  BY <1>2, <1>3 DEF Start
<1>4. ASSUME NEW p \in Procs, Dies(p) PROVE FALSE
  <2>1. p = b /\ Proceed(p, "dead")
    BY <1>2, <1>4 DEF Dies
  <2>2. at'[b] = "dead"
    BY <1>0, <2>1 DEF Proceed
  <2> QED
    BY <2>2
<1>5. ASSUME NEW t \in Turns, Observe(t) \/ Refill(t) \/ Detect(t) \/ Propose(t) PROVE FALSE
  <2>1. t \in Procs /\ at[t] # "append"
    BY <1>5 DEF Procs, Observe, Refill, Detect, Propose
  <2>2. at' = at \/ \E step : Proceed(t, step)
    BY <1>5 DEF Observe, Refill, Detect, Propose, Prepare
  <2> QED
    BY <1>2, <2>1, <2>2
<1>6. ASSUME NEW r \in Rollbacks, FindEntry(r) PROVE FALSE
  <2>1. r \in Procs /\ at[r] # "append"
    BY <1>6 DEF Procs, FindEntry
  <2>2. \E step : Proceed(r, step)
    BY <1>6 DEF FindEntry, Prepare
  <2> QED
    BY <1>2, <2>1, <2>2
<1>7. ASSUME NEW s \in Signatures, NEW e \in Edits, Edit(s, e) PROVE FALSE
  BY <1>7 DEF Edit
<1>8. ASSUME NEW p \in Procs, Apply(p) PROVE FillJournal(b)
  <2>1. CASE \/ ReadBefore(p) \/ ReadVersion(p) \/ TruncateRule(p) \/ FillRule(p)
             \/ ReadAfter(p) \/ ReadJournal(p) \/ TruncateJournal(p)
    <3>1. at[p] # "append" /\ \E step : Proceed(p, step)
      BY <2>1 DEF ReadBefore, ReadVersion, TruncateRule, FillRule, ReadAfter, ReadJournal,
                  TruncateJournal
    <3> QED
      BY <1>2, <3>1
  <2>2. CASE ScoresTooLow(p) \/ FillJournal(p) \/ SaveFails(p)
    <3>1. PICK result \in Final : Leave(p, result)
      BY <2>2 DEF ScoresTooLow, FillJournal, SaveFails, Final
    <3>2. p = b
      BY <1>0, <1>1, <3>1, LeaveTyped
    <3>3. ~ScoresTooLow(b)
      BY DEF ScoresTooLow
    <3>4. ~SaveFails(b)
      <4>1. SUFFICES ASSUME Leave(b, "failed") PROVE FALSE
        BY DEF SaveFails
      <4>2. Proceed(b, "propose") \/ Proceed(b, "failed")
        BY <4>1 DEF Leave
      <4> QED
        BY <1>0, <4>2 DEF Proceed
    <3> QED
      BY <2>2, <3>2, <3>3, <3>4
  <2> QED
    BY <1>8, <2>1, <2>2 DEF Apply
<1>9. ~UNCHANGED ruleVars
  BY DEF ruleVars
<1> QED
  BY <1>3, <1>4, <1>5, <1>6, <1>7, <1>8, <1>9 DEF RulesNext

\* A rollback that is undisturbed leaves in the rule the procedure that the
\* change it takes back had found there.
LEMMA RestoreStep ==
  ASSUME RuleEvolutionAssumption, RulesInv, [RulesNext]_ruleVars,
         NEW b \in Rollbacks, at[b] = "append", at'[b] = "done",
         "changes" \notin disturbed, change[b].id.undo = 1,
         NEW i \in Places(journal', [change[b].id EXCEPT !.undo = 0]),
         \A j \in Places(journal', [change[b].id EXCEPT !.undo = 0]) : i <= j
  PROVE  /\ journal'[i].before # NoRule
         /\ rules[Target(b)].procedure = journal'[i].before.procedure
<1> b \in Procs
  BY DEF Procs
<1> PICK c : c = change[b]
  OBVIOUS
<1> PICK id : id = [c.id EXCEPT !.undo = 0]
  OBVIOUS
<1>1. FillJournal(b)
  BY OnlyFilling DEF RulesInv
<1>2. HasDone(b) /\ c \in Changes
  BY OneAtATime DEF RulesInv, OrderKept, Changing, Staged
<1>3. /\ journal' = Append(copy[b], Entry(b))
      /\ copy[b] \in Seq(Entries) /\ Entry(b) \in Entries /\ Entry(b).change = c
  BY <1>1, <1>2, FillJournalIs DEF RulesInv
<1> PICK old : old = copy[b]
  OBVIOUS
<1>4. /\ DOMAIN journal' = 1..Len(old) + 1 /\ DOMAIN old = 1..Len(old) /\ Len(old) \in Nat
      /\ \A k \in 1..Len(old) : journal'[k] = old[k]
      /\ journal'[Len(old) + 1] = Entry(b)
  BY <1>3
<1>5. c.id # id /\ id.undo = 0
  BY <1>2 DEF Changes, ChangeIds
<1>6. Places(journal', id) = Places(old, id)
  BY <1>3, <1>4, <1>5 DEF Places
<1>7. i \in Places(old, id) /\ \A j \in Places(old, id) : i <= j
  BY <1>6
<1>8. Undoes(old, c)
  BY <1>2 DEF HasDone, Book
<1>9. old[i].change.old = c.new /\ c.new # "none"
  BY <1>7, <1>8 DEF Undoes
<1>10. i \in DOMAIN old /\ old[i].change.id = id
  BY <1>7 DEF Places
<1>11. old[i].change.old = Former(old[i].before)
  BY <1>2, <1>5, <1>10 DEF HasDone, Firsthand
<1>12. old[i].before # NoRule /\ old[i].before.procedure = c.new
  BY <1>9, <1>11 DEF Former
<1>13. rules[Target(b)].procedure = c.new
  BY <1>2 DEF HasDone
<1> QED
  BY <1>4, <1>10, <1>12, <1>13

\* A rollback gives back the procedure that the turn's change found, although
\* others have changed the rule since.
THEOREM RollbacksRestore == RulesSpec => RollbackRestores
<1> DEFINE Restores ==
       \A b \in Rollbacks :
         /\ at[b] = "append" /\ at'[b] = "done"
         /\ "changes" \notin disturbed
         /\ change[b].id.undo = 1
         => LET same == Places(journal', [change[b].id EXCEPT !.undo = 0])
            IN \A i \in same :
                 (\A j \in same : i <= j)
                 => /\ journal'[i].before # NoRule
                    /\ rules[Target(b)].procedure = journal'[i].before.procedure
<1>1. RulesInv /\ [RulesNext]_ruleVars => [Restores]_ruleVars
  BY RuleEvolutionAssumption, RestoreStep
<1>2. RollbackRestores <=> [][Restores]_ruleVars
  BY DEF RollbackRestores
<1> QED
  BY <1>1, <1>2, RuleEvolutionAssumption, RulesInvariant, PTL DEF RulesSpec

================================================================================
