--------------------------- MODULE StorageV2_proofs ---------------------------
(***************************************************************************)
(* Trigger and backfill agree, and sums and counts keep their types, for   *)
(* any findings, packages, batch size and number of runs, reviews, kills.  *)
(***************************************************************************)
EXTENDS StorageV2, FiniteSetTheorems, WellFoundedInduction, TLAPS

-----------------------------------------------------------------------------
(* Counting                                                                *)

LEMMA WithIsFinite ==
  ASSUME NEW run, NEW d
  PROVE  /\ IsFiniteSet(With(run, d))
         /\ Cardinality(With(run, d)) \in Nat
<1>1. IsFiniteSet(With(run, d))
  BY FindingsAssumption, FS_Subset DEF With
<1> QED BY <1>1, FS_CardinalityType

\* A finding that moves from old to new leaves one group for the other.
LEMMA MovedCounts ==
  ASSUME NEW run \in Run, NEW f \in Findings,
         NEW new \in Dispositions, new # run[f], NEW d \in Dispositions
  PROVE  Cardinality(With([run EXCEPT ![f] = new], d)) =
           (Cardinality(With(run, d)) + One(new = d)) - One(run[f] = d)
<1> DEFINE after == [run EXCEPT ![f] = new]
<1>1. \A g \in Findings : after[g] = IF g = f THEN new ELSE run[g]
  BY DEF Run
<1>2. CASE new = d
  <2>1. With(after, d) = With(run, d) \cup {f}
    BY <1>1, <1>2 DEF With
  <2>2. f \notin With(run, d)
    BY <1>2 DEF With
  <2>3. Cardinality(With(after, d)) = Cardinality(With(run, d)) + 1
    BY <2>1, <2>2, WithIsFinite, FS_AddElement
  <2> QED BY <1>2, <2>3, WithIsFinite DEF One
<1>3. CASE run[f] = d
  <2>1. With(after, d) = With(run, d) \ {f}
    BY <1>1, <1>3 DEF With
  <2>2. f \in With(run, d)
    BY <1>3 DEF With
  <2>3. Cardinality(With(after, d)) = Cardinality(With(run, d)) - 1
    BY <2>1, <2>2, WithIsFinite, FS_RemoveElement
  <2> QED BY <1>3, <2>3, WithIsFinite DEF One
<1>4. CASE new # d /\ run[f] # d
  <2>1. With(after, d) = With(run, d)
    BY <1>1, <1>4 DEF With
  <2> QED BY <1>4, <2>1, WithIsFinite DEF One
<1> QED BY <1>2, <1>3, <1>4

\* The trigger on dispositions keeps an exact row exact.
LEMMA MovedIsRecount ==
  ASSUME NEW run \in Run, NEW f \in Findings,
         NEW new \in Dispositions, new # run[f]
  PROVE  Moved(Recount(run), run[f], new) = Recount([run EXCEPT ![f] = new])
<1> DEFINE after == [run EXCEPT ![f] = new]
<1>1. Cardinality(With(after, "unreviewed")) =
        (Cardinality(With(run, "unreviewed")) + One(new = "unreviewed"))
          - One(run[f] = "unreviewed")
  BY MovedCounts DEF Dispositions
<1>2. Cardinality(With(after, "suspicious")) =
        (Cardinality(With(run, "suspicious")) + One(new = "suspicious"))
          - One(run[f] = "suspicious")
  BY MovedCounts DEF Dispositions
<1>3. Moved(Recount(run), run[f], new) =
        [findings |-> Cardinality(Findings),
         unreviewed |-> (Cardinality(With(run, "unreviewed"))
                          + One(new = "unreviewed")) - One(run[f] = "unreviewed"),
         suspicious |-> (Cardinality(With(run, "suspicious"))
                          + One(new = "suspicious")) - One(run[f] = "suspicious")]
  BY Zenon DEF Moved, Recount
<1>4. Recount(after) =
        [findings |-> Cardinality(Findings),
         unreviewed |-> Cardinality(With(after, "unreviewed")),
         suspicious |-> Cardinality(With(after, "suspicious"))]
  BY DEF Recount
<1> QED BY <1>1, <1>2, <1>3, <1>4

-----------------------------------------------------------------------------
(* The invariant                                                           *)

IInv ==
  /\ findings \in Seq(Run)
  /\ DOMAIN summary \subseteq DOMAIN findings
  /\ SummariesAreExact

LEMMA InitIsExact == Init => IInv
<1> SUFFICES ASSUME Init PROVE IInv
  OBVIOUS
<1>1. Unreviewed \in Run
  BY DEF Unreviewed, Run, Dispositions
<1>2. findings \in Seq(Run)
  BY <1>1, BoundsAssumption DEF Init
<1>3. DOMAIN summary = {}
  BY DEF Init
<1> QED BY <1>2, <1>3 DEF IInv, SummariesAreExact

LEMMA AnalyseKeepsExact ==
  ASSUME IInv, Analyse PROVE IInv'
<1> DEFINE n == Len(findings) + 1
           counted == "findings" \in triggers
<1>1. Unreviewed \in Run
  BY DEF Unreviewed, Run, Dispositions
<1>2. /\ findings' \in Seq(Run)
      /\ DOMAIN findings' = DOMAIN findings \cup {n}
      /\ findings'[n] = Unreviewed
      /\ \A m \in DOMAIN findings : findings'[m] = findings[m]
  BY <1>1 DEF IInv, Analyse
<1>3. CASE "runs" \notin triggers
  <2>1. summary' = summary /\ missed \subseteq missed'
    BY <1>3 DEF Analyse
  <2> QED BY <1>2, <2>1 DEF IInv, SummariesAreExact
<1>4. CASE "runs" \in triggers
  <2>1. summary' = Put(summary, n, IF counted THEN Recount(Unreviewed) ELSE Zero)
    BY <1>4 DEF Analyse
  <2>2. DOMAIN summary' = DOMAIN summary \cup {n}
    BY <2>1 DEF Put
  <2>3. \A m \in DOMAIN summary \ {n} : summary'[m] = summary[m]
    BY <2>1 DEF Put
  <2>4. missed \subseteq missed' /\ (~counted => n \in missed')
    BY <1>4 DEF Analyse
  <2>5. counted => summary'[n] = Recount(findings'[n])
    BY <1>2, <2>1 DEF Put
  <2>6. ASSUME NEW m \in DOMAIN summary' \ missed'
        PROVE  summary'[m] = Recount(findings'[m])
    <3>1. CASE m = n
      BY <2>4, <2>5, <3>1
    <3>2. CASE m # n
      BY <1>2, <2>2, <2>3, <2>4, <3>2 DEF IInv, SummariesAreExact
    <3> QED BY <3>1, <3>2
  <2> QED BY <1>2, <2>2, <2>6 DEF IInv, SummariesAreExact
<1> QED BY <1>3, <1>4

LEMMA ReviewKeepsExact ==
  ASSUME IInv, NEW n \in DOMAIN findings, NEW f \in Findings,
         NEW d \in Dispositions, Review(n, f, d)
  PROVE  IInv'
<1> DEFINE run == findings[n]
           counted == "dispositions" \in triggers /\ n \in DOMAIN summary
<1>1. run \in Run
  BY DEF IInv
<1>2. d # run[f]
  BY DEF Review
<1>3. findings' = [findings EXCEPT ![n] = [run EXCEPT ![f] = d]]
  BY DEF Review
<1>4. [run EXCEPT ![f] = d] \in Run
  BY <1>1 DEF Run
<1>5. /\ findings' \in Seq(Run)
      /\ DOMAIN findings' = DOMAIN findings
      /\ findings'[n] = [run EXCEPT ![f] = d]
      /\ \A m \in DOMAIN findings \ {n} : findings'[m] = findings[m]
  BY <1>3, <1>4 DEF IInv
<1>6. missed \subseteq missed'
  BY DEF Review
<1>7. CASE counted
  <2>1. summary' = Put(summary, n, Moved(summary[n], run[f], d))
    BY <1>7 DEF Review
  <2>2. DOMAIN summary' = DOMAIN summary
    BY <1>7, <2>1 DEF Put
  <2>3. \A m \in DOMAIN summary \ {n} : summary'[m] = summary[m]
    BY <2>1 DEF Put
  <2>4. n \notin missed => summary'[n] = Recount(findings'[n])
    <3>1. SUFFICES ASSUME n \notin missed
                   PROVE  summary'[n] = Recount(findings'[n])
      OBVIOUS
    <3>2. summary[n] = Recount(run)
      BY <1>7, <3>1 DEF IInv, SummariesAreExact
    <3>3. summary'[n] = Moved(Recount(run), run[f], d)
      BY <1>7, <2>1, <3>2 DEF Put
    <3>4. Moved(Recount(run), run[f], d) = Recount([run EXCEPT ![f] = d])
      BY <1>1, <1>2, MovedIsRecount
    <3>5. findings'[n] = [run EXCEPT ![f] = d]
      BY <1>5
    <3> QED BY <3>3, <3>4, <3>5
  <2> QED BY <1>5, <1>6, <2>2, <2>3, <2>4 DEF IInv, SummariesAreExact
<1>8. CASE ~counted
  <2>1. summary' = summary
    BY <1>8 DEF Review
  <2>2. n \in DOMAIN summary => n \in missed'
    BY <1>8 DEF Review
  <2> QED BY <1>5, <1>6, <2>1, <2>2 DEF IInv, SummariesAreExact
<1> QED BY <1>7, <1>8

LEMMA MaterializeKeepsExact ==
  ASSUME IInv, Materialize PROVE IInv'
<1>1. findings' = findings /\ missed' = missed
  BY DEF Materialize
<1>2. CASE batch.late
  <2>1. summary' = Backfilled
    BY <1>2 DEF Materialize
  <2>2. DOMAIN summary' \subseteq DOMAIN findings
    BY <2>1 DEF Backfilled, Selected, Unsummarized, IInv
  <2>3. \A m \in DOMAIN summary' :
          summary'[m] = IF m \in DOMAIN summary THEN summary[m]
                        ELSE Recount(findings[m])
    BY <2>1 DEF Backfilled
  <2> QED BY <1>1, <2>2, <2>3 DEF IInv, SummariesAreExact
<1>3. CASE ~batch.late
  <2>1. summary' = summary
    BY <1>3 DEF Materialize
  <2> QED BY <1>1, <2>1 DEF IInv, SummariesAreExact
<1> QED BY <1>2, <1>3

LEMMA StepKeepsExact == IInv /\ [Next]_vars => IInv'
<1> SUFFICES ASSUME IInv, [Next]_vars PROVE IInv'
  OBVIOUS
<1>1. CASE UNCHANGED <<findings, summary, missed>>
  BY <1>1 DEF IInv, SummariesAreExact
<1>2. CASE Analyse
  BY <1>2, AnalyseKeepsExact
<1>3. ASSUME NEW n \in DOMAIN findings, NEW f \in Findings,
             NEW d \in Dispositions, Review(n, f, d)
      PROVE  IInv'
  BY <1>3, ReviewKeepsExact
<1>4. CASE Materialize
  BY <1>4, MaterializeKeepsExact
<1>5. ASSUME NEW p \in Packages, NEW n \in DOMAIN findings, Complete(p, n)
      PROVE  IInv'
  BY <1>1, <1>5 DEF Complete
<1>6. CASE BeginInstall \/ Drop \/ Create \/ MaterializeFails \/ Reconcile
  BY <1>1, <1>6 DEF BeginInstall, Drop, Create, MaterializeFails, Reconcile,
                    history
<1>7. ASSUME NEW s, BeginPublish(s)
      PROVE  IInv'
  BY <1>1, <1>7 DEF BeginPublish, history
<1>8. CASE CopyStep
  BY <1>1, <1>8 DEF CopyStep, ReadCoverage, CommitPublish, history
<1>9. ASSUME NEW s \in Services, Kill(s)
      PROVE  IInv'
  BY <1>1, <1>9 DEF Kill, history
<1>10. CASE UNCHANGED vars
  BY <1>1, <1>10 DEF vars, history
<1> QED BY <1>2, <1>3, <1>4, <1>5, <1>6, <1>7, <1>8, <1>9, <1>10
        DEF Next, BatchStep

\* Whatever order installations, backfills, runs, reviews and kills come in,
\* the summary of a run that no gap between the triggers missed is the recount
\* of its findings (backfill and TRIGGERS in storage_v2_foundation.py).
THEOREM SummariesStayExact == Spec => []SummariesAreExact
<1>1. IInv => SummariesAreExact
  BY DEF IInv
<1> QED BY <1>1, InitIsExact, StepKeepsExact, PTL DEF Spec

-----------------------------------------------------------------------------
(* Sums. The library sums over a set with a function on its subsets. It is *)
(* shown to exist, and to be a number, for subsets of k elements after     *)
(* those of fewer.                                                         *)

\* Induction, for the set of the numbers of which something holds.
LEMMA Induction ==
  ASSUME NEW S, 0 \in S, \A n \in Nat : n \in S => n + 1 \in S
  PROVE  Nat \subseteq S
<1> DEFINE T == Nat \ S
<1> SUFFICES ASSUME T # {} PROVE FALSE
  OBVIOUS
<1>1. PICK x \in T : \A y \in T : ~ (<< y, x >> \in OpToRel(<, Nat))
  BY NatLessThanWellFounded, WFMin
<1>2. \A y \in T : ~ (y < x)
  BY <1>1 DEF OpToRel
<1>3. x # 0 /\ x \in Nat
  OBVIOUS
<1>4. x - 1 \in Nat /\ x - 1 < x /\ x - 1 \notin T
  BY <1>2, <1>3
<1> QED BY <1>4

\* The element that the sum takes from a set.
Taken(s) == CHOOSE x \in s : TRUE

\* it sums a column over each of these sets.
Sums(it, column, D) ==
  it = [s \in D |-> IF s = {} THEN 0 ELSE column[Taken(s)] + it[s \ {Taken(s)}]]

\* The subsets of S with no more than k elements.
Small(S, k) == {s \in SUBSET S : Cardinality(s) <= k}

LEMMA TakenIs ==
  ASSUME NEW S, IsFiniteSet(S), NEW k \in Nat, NEW s \in Small(S, k + 1), s # {}
  PROVE  Taken(s) \in s /\ s \ {Taken(s)} \in Small(S, k)
<1>1. Taken(s) \in s
  BY DEF Taken
<1>2. s \in SUBSET S /\ IsFiniteSet(s) /\ Cardinality(s) \in Nat /\ Cardinality(s) <= k + 1
  <2>1. s \in SUBSET S /\ Cardinality(s) <= k + 1
    BY DEF Small
  <2> QED BY <2>1, FS_Subset, FS_CardinalityType
<1>3. Cardinality(s \ {Taken(s)}) = Cardinality(s) - 1
  BY <1>1, <1>2, FS_RemoveElement
<1> QED BY <1>1, <1>2, <1>3 DEF Small

LEMMA SmallestIs ==
  ASSUME NEW S, IsFiniteSet(S)
  PROVE  Small(S, 0) = {{}} /\ Small(S, Cardinality(S)) = SUBSET S
<1>1. ASSUME NEW s \in SUBSET S
      PROVE  /\ Cardinality(s) \in Nat /\ Cardinality(s) <= Cardinality(S)
             /\ Cardinality(s) <= 0 <=> s = {}
  <2>1. IsFiniteSet(s) /\ Cardinality(s) <= Cardinality(S)
    BY FS_Subset
  <2>2. Cardinality(s) \in Nat
    BY <2>1, FS_CardinalityType
  <2>3. Cardinality(s) = 0 <=> s = {}
    BY <2>1, FS_EmptySet
  <2> QED BY <2>1, <2>2, <2>3
<1> QED BY <1>1 DEF Small

\* A sum exists, is that of the definition, and is a number.
LEMMA SumExists ==
  ASSUME NEW S, IsFiniteSet(S), NEW column
  PROVE  \E it : Sums(it, column, SUBSET S)
<1> DEFINE K == {k \in Nat : \E it : Sums(it, column, Small(S, k))}
<1>1. 0 \in K
  <2> DEFINE it == [s \in Small(S, 0) |-> 0]
  <2>1. \A s \in Small(S, 0) : s = {}
    BY SmallestIs
  <2>2. Sums(it, column, Small(S, 0))
    BY <2>1 DEF Sums
  <2>3. \E z : Sums(z, column, Small(S, 0))
    <3> HIDE DEF it
    <3> QED BY <2>2
  <2> QED BY <2>3
<1>2. ASSUME NEW k \in Nat, k \in K PROVE k + 1 \in K
  <2>1. PICK it : Sums(it, column, Small(S, k))
    BY <1>2
  <2> DEFINE D == Small(S, k + 1)
             C == Small(S, k)
             Value(s) == IF s = {} THEN 0 ELSE column[Taken(s)] + it[s \ {Taken(s)}]
             next == [s \in D |-> Value(s)]
  <2>2. C \subseteq D
    <3>1. \A s \in SUBSET S : Cardinality(s) \in Nat
      BY FS_Subset, FS_CardinalityType
    <3> QED BY <3>1 DEF Small
  <2>3. ASSUME NEW s \in C PROVE next[s] = it[s]
    BY <2>1, <2>2 DEF Sums
  <2>4. ASSUME NEW s \in D, s # {} PROVE next[s \ {Taken(s)}] = it[s \ {Taken(s)}]
    <3>1. s \ {Taken(s)} \in C
      BY <2>4, TakenIs
    <3> QED BY <2>3, <3>1
  <2>5. Sums(next, column, D)
    <3>1. ASSUME NEW s \in D
          PROVE  Value(s) = IF s = {} THEN 0
                            ELSE column[Taken(s)] + next[s \ {Taken(s)}]
      <4> HIDE DEF next
      <4> QED BY <2>4
    <3>2. next = [s \in D |-> IF s = {} THEN 0
                              ELSE column[Taken(s)] + next[s \ {Taken(s)}]]
      <4> DEFINE g(s) == IF s = {} THEN 0 ELSE column[Taken(s)] + next[s \ {Taken(s)}]
      <4>1. \A s \in D : Value(s) = g(s)
        BY <3>1
      <4>2. next = [s \in D |-> Value(s)]
        OBVIOUS
      <4> HIDE DEF g, Value, next, D
      <4>3. next = [s \in D |-> g(s)]
        BY <4>1, <4>2
      <4> QED BY <4>3 DEF g
    <3> QED BY <3>2, Zenon DEF Sums
  <2>6. \E z : Sums(z, column, Small(S, k + 1))
    <3> HIDE DEF next
    <3> QED BY <2>5
  <2> QED BY <2>6
<1>3. Cardinality(S) \in K
  <2>1. Nat \subseteq K
    <3> HIDE DEF K
    <3> QED BY <1>1, <1>2, Induction
  <2> QED BY <2>1, FS_CardinalityType
<1> QED BY <1>3, SmallestIs, ZenonT(60)

LEMMA SumType ==
  ASSUME NEW S, IsFiniteSet(S), NEW column, \A x \in S : column[x] \in Nat
  PROVE  SumOf(column, S) \in Nat
<1> DEFINE it == CHOOSE z : Sums(z, column, SUBSET S)
           K == {k \in Nat : \A s \in Small(S, k) : it[s] \in Nat}
<1>1. SumOf(column, S) = it[S]
  BY Zenon DEF SumOf, MapThenSumSet, MapThenFoldSet, Sums, Taken
<1>2. Sums(it, column, SUBSET S)
  BY SumExists, Zenon
<1> HIDE DEF it
<1>3. 0 \in K
  BY <1>2, SmallestIs DEF Sums
<1>4. ASSUME NEW k \in Nat, k \in K PROVE k + 1 \in K
  <2>1. ASSUME NEW s \in Small(S, k + 1) PROVE it[s] \in Nat
    <3>1. s \in SUBSET S
      BY DEF Small
    <3>2. it[s] = IF s = {} THEN 0 ELSE column[Taken(s)] + it[s \ {Taken(s)}]
      BY <1>2, <3>1 DEF Sums
    <3>3. CASE s # {}
      <4>1. Taken(s) \in s /\ s \ {Taken(s)} \in Small(S, k)
        BY <3>3, TakenIs
      <4>2. column[Taken(s)] \in Nat /\ it[s \ {Taken(s)}] \in Nat
        BY <1>4, <3>1, <4>1
      <4> QED BY <3>2, <3>3, <4>2
    <3> QED BY <3>2, <3>3
  <2> QED BY <2>1
<1>5. Nat \subseteq K
  <2> HIDE DEF K
  <2> QED BY <1>3, <1>4, Induction
<1>6. Cardinality(S) \in K
  BY <1>5, FS_CardinalityType
<1> QED BY <1>1, <1>6, SmallestIs

-----------------------------------------------------------------------------
(* Types                                                                   *)

LEMMA TotalType ==
  ASSUME NEW rows, NEW runs, IsFiniteSet(runs), \A n \in runs : rows[n] \in Summary
  PROVE  Total(rows, runs) \in Summary
<1>1. ASSUME NEW n \in runs
      PROVE  /\ rows[n].findings \in Nat /\ rows[n].unreviewed \in Nat
             /\ rows[n].suspicious \in Nat
  <2> DEFINE r == rows[n]
  <2>1. r \in Summary
    OBVIOUS
  <2> HIDE DEF r
  <2>2. r.findings \in Nat /\ r.unreviewed \in Nat /\ r.suspicious \in Nat
    BY <2>1 DEF Summary
  <2> QED BY <2>2 DEF r
<1> DEFINE a == [n \in runs |-> rows[n].findings]
           b == [n \in runs |-> rows[n].unreviewed]
           c == [n \in runs |-> rows[n].suspicious]
<1>2. /\ \A n \in runs : a[n] \in Nat
      /\ \A n \in runs : b[n] \in Nat
      /\ \A n \in runs : c[n] \in Nat
  BY <1>1
<1>3. Total(rows, runs) = [findings |-> SumOf(a, runs), unreviewed |-> SumOf(b, runs),
                           suspicious |-> SumOf(c, runs)]
  BY DEF Total
<1> HIDE DEF a, b, c
<1>4. SumOf(a, runs) \in Nat /\ SumOf(b, runs) \in Nat /\ SumOf(c, runs) \in Nat
  BY <1>2, SumType
<1> QED BY <1>3, <1>4 DEF Summary

LEMMA RecountType ==
  /\ \A run : Recount(run) \in Summary
  /\ Zero \in Summary
<1>1. Cardinality(Findings) \in Nat
  BY FindingsAssumption, FS_CardinalityType
<1>2. ASSUME NEW run PROVE Recount(run) \in Summary
  <2>1. /\ Cardinality(With(run, "unreviewed")) \in Nat
        /\ Cardinality(With(run, "suspicious")) \in Nat
    BY WithIsFinite
  <2> QED BY <1>1, <2>1 DEF Recount, Summary
<1>3. Zero \in Summary
  BY DEF Zero, Summary
<1> QED BY <1>2, <1>3

LEMMA MovedType ==
  ASSUME NEW row \in Summary, NEW old \in Dispositions, NEW new \in Dispositions,
         Countable(row, old)
  PROVE  Moved(row, old, new) \in Summary
<1>1. row.findings \in Nat /\ row.unreviewed \in Nat /\ row.suspicious \in Nat
  BY DEF Summary
<1> DEFINE u == (row.unreviewed + One(new = "unreviewed")) - One(old = "unreviewed")
           s == (row.suspicious + One(new = "suspicious")) - One(old = "suspicious")
<1>2. u \in Nat
  BY <1>1 DEF Countable, One
<1>3. s \in Nat
  BY <1>1 DEF Countable, One
<1>4. Moved(row, old, new) = [findings |-> row.findings, unreviewed |-> u, suspicious |-> s]
  BY Zenon DEF Moved
<1> HIDE DEF u, s
<1> QED BY <1>1, <1>2, <1>3, <1>4 DEF Summary

Stages == Locking \cup {"idle", "schedule", "reconcile", "publish", "copying"}

\* The history catalog.
TablesTyped ==
  /\ findings \in Seq(Run)
  /\ DOMAIN summary \subseteq DOMAIN findings
  /\ \A n \in DOMAIN summary : summary[n] \in Summary
  /\ occurrences \subseteq DOMAIN findings
  /\ schedule \in [Packages -> {0} \cup DOMAIN findings]
  /\ coverage \in Summary
  /\ triggers \subseteq Triggers
  /\ missed \subseteq DOMAIN findings

\* The batch, the publication in progress and what is published.
ServicesTyped ==
  /\ batch \in [pc : Stages, step : DOMAIN Order, late : BOOLEAN]
  /\ copy = [by |-> copy.by, pc |-> copy.pc, summary |-> copy.summary,
             coverage |-> copy.coverage]
  /\ copy.by \in Services \cup {Nobody} /\ copy.pc \in {"coverage", "commit"}
  /\ copy.coverage \in Summary
  /\ hot.coverage \in Summary

TypeInv ==
  /\ TablesTyped /\ ServicesTyped
  /\ reviews \in 0 .. MaxReviews /\ kills \in 0 .. MaxKills

LEMMA TypeFollows == TypeInv => TypeOK
<1> SUFFICES ASSUME TypeInv PROVE TypeOK
  OBVIOUS
<1>1. batch.pc \in Stages /\ batch.step \in DOMAIN Order /\ batch.late \in BOOLEAN
  BY DEF TypeInv, ServicesTyped
<1> QED BY <1>1 DEF TypeInv, TablesTyped, ServicesTyped, TypeOK, Stages

LEMMA InitTyped == Init => TypeInv
<1> SUFFICES ASSUME Init PROVE TypeInv
  OBVIOUS
<1>1. Unreviewed \in Run
  BY DEF Unreviewed, Run, Dispositions
<1>2. findings \in Seq(Run) /\ DOMAIN findings = 1 .. Legacy
  BY <1>1, BoundsAssumption DEF Init
<1>3. DOMAIN summary = {}
  BY DEF Init
<1>4. TablesTyped
  BY <1>2, <1>3, RecountType DEF Init, TablesTyped
<1>5. ServicesTyped
  <2>1. Idle \in [pc : Stages, step : DOMAIN Order, late : BOOLEAN]
    BY DEF Idle, Stages, Order
  <2>2. /\ NoCopy = [by |-> NoCopy.by, pc |-> NoCopy.pc, summary |-> NoCopy.summary,
                     coverage |-> NoCopy.coverage]
        /\ NoCopy.by = Nobody /\ NoCopy.pc = "coverage" /\ NoCopy.coverage = Zero
    BY DEF NoCopy
  <2>3. hot.coverage = Zero
    BY DEF Init
  <2> QED BY <2>1, <2>2, <2>3, RecountType DEF Init, ServicesTyped
<1> QED BY <1>4, <1>5, BoundsAssumption DEF Init, TypeInv

LEMMA AnalyseTyped ==
  ASSUME TypeInv, Analyse PROVE TypeInv'
<1> DEFINE n == Len(findings) + 1
           counted == "findings" \in triggers
           row == IF counted THEN Recount(Unreviewed) ELSE Zero
<1>1. Unreviewed \in Run
  BY DEF Unreviewed, Run, Dispositions
<1>2. /\ findings' \in Seq(Run)
      /\ DOMAIN findings' = DOMAIN findings \cup {n}
  BY <1>1 DEF TypeInv, TablesTyped, Analyse
<1>3. row \in Summary
  BY RecountType
<1> HIDE DEF row
<1>4. /\ DOMAIN summary' \subseteq DOMAIN findings'
      /\ \A m \in DOMAIN summary' : summary'[m] \in Summary
  <2>1. summary' = Put(summary, n, row) \/ summary' = summary
    BY Zenon DEF Analyse, row
  <2>2. CASE summary' = Put(summary, n, row)
    <3>1. /\ DOMAIN summary' = DOMAIN summary \cup {n}
          /\ \A m \in DOMAIN summary' : summary'[m] = IF m = n THEN row ELSE summary[m]
      BY <2>2 DEF Put
    <3> QED BY <1>2, <1>3, <3>1 DEF TypeInv, TablesTyped
  <2>3. CASE summary' = summary
    BY <1>2, <2>3 DEF TypeInv, TablesTyped
  <2> QED BY <2>1, <2>2, <2>3
<1>5. occurrences' \subseteq DOMAIN findings' /\ missed' \subseteq DOMAIN findings'
  BY <1>2 DEF TypeInv, TablesTyped, Analyse
<1>6. UNCHANGED <<schedule, coverage, triggers, batch, copy, hot, reviews, kills>>
  BY DEF Analyse
<1>7. schedule' \in [Packages -> {0} \cup DOMAIN findings']
  BY <1>2, <1>6 DEF TypeInv, TablesTyped
<1>8. TablesTyped'
  BY <1>2, <1>4, <1>5, <1>6, <1>7 DEF TypeInv, TablesTyped
<1> QED BY <1>6, <1>8 DEF TypeInv, ServicesTyped

LEMMA ReviewTyped ==
  ASSUME TypeInv, NEW n \in DOMAIN findings, NEW f \in Findings,
         NEW d \in Dispositions, Review(n, f, d)
  PROVE  TypeInv'
<1> DEFINE run == findings[n]
           old == run[f]
           counted == "dispositions" \in triggers /\ n \in DOMAIN summary
           row == Moved(summary[n], old, d)
<1>1. run \in Run /\ old \in Dispositions
  BY DEF TypeInv, TablesTyped, Run
<1>2. findings' = [findings EXCEPT ![n] = [run EXCEPT ![f] = d]]
  BY DEF Review
<1>3. [run EXCEPT ![f] = d] \in Run
  BY <1>1 DEF Run
<1>4. findings' \in Seq(Run) /\ DOMAIN findings' = DOMAIN findings
  BY <1>2, <1>3 DEF TypeInv, TablesTyped
<1>5. /\ DOMAIN summary' \subseteq DOMAIN findings
      /\ \A m \in DOMAIN summary' : summary'[m] \in Summary
  <2>1. CASE counted
    <3>1. summary[n] \in Summary /\ Countable(summary[n], old)
      BY <2>1 DEF TypeInv, TablesTyped, Review
    <3>2. row \in Summary
      BY <1>1, <3>1, MovedType
    <3>3. summary' = Put(summary, n, row)
      BY <2>1 DEF Review
    <3> HIDE DEF row
    <3>4. /\ DOMAIN summary' = DOMAIN summary \cup {n}
          /\ \A m \in DOMAIN summary' : summary'[m] = IF m = n THEN row ELSE summary[m]
      BY <3>3 DEF Put
    <3> QED BY <3>2, <3>4 DEF TypeInv, TablesTyped
  <2>2. CASE ~counted
    <3>1. summary' = summary
      BY <2>2 DEF Review
    <3> QED BY <3>1 DEF TypeInv, TablesTyped
  <2> QED BY <2>1, <2>2
<1>6. missed' \subseteq DOMAIN findings
  BY DEF TypeInv, TablesTyped, Review
<1>7. UNCHANGED <<occurrences, schedule, coverage, triggers, batch, copy, hot, kills>>
  BY DEF Review
<1>8. TablesTyped'
  BY <1>4, <1>5, <1>6, <1>7 DEF TypeInv, TablesTyped
<1>9. reviews' \in 0 .. MaxReviews
  BY BoundsAssumption DEF TypeInv, Review
<1> QED BY <1>7, <1>8, <1>9 DEF TypeInv, ServicesTyped

LEMMA CompleteTyped ==
  ASSUME TypeInv, NEW p \in Packages, NEW n \in DOMAIN findings, Complete(p, n)
  PROVE  TypeInv'
<1>1. schedule' \in [Packages -> {0} \cup DOMAIN findings]
  BY DEF TypeInv, TablesTyped, Complete
<1>2. UNCHANGED <<findings, summary, occurrences, coverage, triggers,
                  batch, copy, hot, missed, reviews, kills>>
  BY DEF Complete
<1>3. TablesTyped'
  BY <1>1, <1>2 DEF TypeInv, TablesTyped
<1> QED BY <1>2, <1>3 DEF TypeInv, ServicesTyped

\* A step that leaves the tables of runs alone.
LEMMA BatchTyped ==
  ASSUME TypeInv, UNCHANGED <<findings, summary, occurrences, schedule, missed,
                              copy, hot, reviews, kills>>,
         coverage' \in Summary, triggers' \subseteq Triggers,
         batch' \in [pc : Stages, step : DOMAIN Order, late : BOOLEAN]
  PROVE  TypeInv'
<1>1. TablesTyped'
  BY DEF TypeInv, TablesTyped
<1>2. ServicesTyped'
  BY DEF TypeInv, ServicesTyped
<1> QED BY <1>1, <1>2 DEF TypeInv

LEMMA FollowingType ==
  ASSUME NEW next \in Stages,
         batch \in [pc : Stages, step : DOMAIN Order, late : BOOLEAN]
  PROVE  Following(next) \in [pc : Stages, step : DOMAIN Order, late : BOOLEAN]
<1>1. DOMAIN Order = 1 .. 3 /\ Len(Order) = 3
  BY DEF Order
<1>2. batch.step \in 1 .. 3
  BY <1>1
<1>3. CASE batch.step < 3
  <2>1. batch.step + 1 \in DOMAIN Order
    BY <1>1, <1>2, <1>3
  <2> QED BY <1>1, <1>3, <2>1 DEF Following
<1>4. CASE ~(batch.step < 3)
  <2>1. Following(next) = [batch EXCEPT !.pc = next, !.step = 1]
    BY <1>1, <1>4 DEF Following
  <2>2. 1 \in DOMAIN Order
    BY <1>1
  <2> QED BY <2>1, <2>2
<1> QED BY <1>3, <1>4

LEMMA InstallTyped ==
  ASSUME TypeInv, BeginInstall \/ Drop \/ Create \/ MaterializeFails PROVE TypeInv'
<1>1. /\ batch \in [pc : Stages, step : DOMAIN Order, late : BOOLEAN]
      /\ coverage \in Summary /\ triggers \subseteq Triggers
  BY DEF TypeInv, ServicesTyped, TablesTyped
<1>2. /\ UNCHANGED <<findings, summary, occurrences, schedule, missed,
                     copy, hot, reviews, kills>>
      /\ coverage' \in Summary
  BY <1>1 DEF BeginInstall, Drop, Create, MaterializeFails, history
<1>3. DOMAIN Order = 1 .. 3
  BY DEF Order
<1>4. CASE BeginInstall
  <2>1. batch' = [pc |-> "drop", step |-> 1, late |-> batch.pc = "schedule"]
        /\ triggers' = triggers
    BY <1>4 DEF BeginInstall, history
  <2>2. (batch.pc = "schedule") \in BOOLEAN /\ "drop" \in Stages
    BY DEF Stages, Locking
  <2>3. batch' \in [pc : Stages, step : DOMAIN Order, late : BOOLEAN]
    BY <1>3, <2>1, <2>2
  <2> QED BY <1>1, <1>2, <2>1, <2>3, BatchTyped
<1>5. CASE Drop
  <2>1. triggers' \subseteq Triggers /\ batch' = Following("create")
    BY <1>1, <1>5 DEF Drop
  <2>2. "create" \in Stages
    BY DEF Stages, Locking
  <2> QED BY <1>1, <1>2, <2>1, <2>2, FollowingType, BatchTyped
<1>6. CASE Create
  <2>1. Order[batch.step] \in Triggers
    BY <1>1 DEF Triggers
  <2>2. triggers' \subseteq Triggers /\ batch' = Following("materialize")
    BY <1>1, <1>6, <2>1 DEF Create
  <2>3. "materialize" \in Stages
    BY DEF Stages, Locking
  <2> QED BY <1>1, <1>2, <2>2, <2>3, FollowingType, BatchTyped
<1>7. CASE MaterializeFails
  <2>1. batch' = Idle /\ triggers' = triggers
    BY <1>7 DEF MaterializeFails, history
  <2>2. Idle \in [pc : Stages, step : DOMAIN Order, late : BOOLEAN]
    BY <1>3 DEF Idle, Stages
  <2> QED BY <1>1, <1>2, <2>1, <2>2, BatchTyped
<1> QED BY <1>4, <1>5, <1>6, <1>7

LEMMA CoverageType ==
  ASSUME NEW rows, \A n \in DOMAIN rows : rows[n] \in Summary
  PROVE  refresh_coverage(rows) \in Summary
<1> DEFINE R == [p \in Scheduled(rows) |-> rows[schedule[p]]]
<1>1. IsFiniteSet(Scheduled(rows))
  <2>1. Scheduled(rows) \subseteq Packages
    BY DEF Scheduled
  <2> QED BY <2>1, PackagesAssumption, FS_Subset
<1>2. \A p \in Scheduled(rows) : R[p] \in Summary
  BY DEF Scheduled
<1>3. refresh_coverage(rows) = Total(R, Scheduled(rows))
  BY DEF refresh_coverage
<1> HIDE DEF R
<1> QED BY <1>1, <1>2, <1>3, TotalType

LEMMA MaterializeTyped ==
  ASSUME TypeInv, Materialize PROVE TypeInv'
<1> DEFINE rows == IF batch.late THEN Backfilled ELSE summary
           pc == IF batch.late THEN "reconcile" ELSE "schedule"
<1>1. Selected \subseteq DOMAIN findings
  BY DEF Selected, Unsummarized
<1>2. /\ DOMAIN rows \subseteq DOMAIN findings
      /\ \A n \in DOMAIN rows : rows[n] \in Summary
  <2>1. CASE batch.late
    <3>1. /\ DOMAIN Backfilled = DOMAIN summary \cup Selected
          /\ \A n \in DOMAIN Backfilled :
               Backfilled[n] = IF n \in DOMAIN summary THEN summary[n]
                               ELSE Recount(findings[n])
      BY DEF Backfilled
    <3> HIDE DEF rows
    <3>2. rows = Backfilled
      BY <2>1 DEF rows
    <3> QED BY <1>1, <3>1, <3>2, RecountType DEF TypeInv, TablesTyped
  <2>2. CASE ~batch.late
    BY <2>2 DEF TypeInv, TablesTyped
  <2> QED BY <2>1, <2>2
<1>3. /\ summary' = rows /\ coverage' = refresh_coverage(rows)
      /\ batch' = [Idle EXCEPT !.pc = pc]
      /\ occurrences' = IF batch.late THEN occurrences \cup Selected ELSE occurrences
      /\ UNCHANGED <<findings, schedule, triggers, copy, hot, missed, reviews, kills>>
  BY DEF Materialize
<1> HIDE DEF rows
<1>4. coverage' \in Summary
  BY <1>2, <1>3, CoverageType
<1>5. occurrences' \subseteq DOMAIN findings
  BY <1>1, <1>3 DEF TypeInv, TablesTyped
<1>6. TablesTyped'
  BY <1>2, <1>3, <1>4, <1>5 DEF TypeInv, TablesTyped
<1>7. batch' \in [pc : Stages, step : DOMAIN Order, late : BOOLEAN]
  <2>1. pc \in Stages /\ 1 \in DOMAIN Order
    BY DEF Stages, Order
  <2> HIDE DEF pc
  <2>2. batch' = [pc |-> pc, step |-> 1, late |-> FALSE]
    BY <1>3 DEF Idle
  <2> QED BY <2>1, <2>2
<1>8. ServicesTyped'
  BY <1>3, <1>7 DEF TypeInv, ServicesTyped
<1> QED BY <1>3, <1>6, <1>8 DEF TypeInv

LEMMA ReconcileTyped ==
  ASSUME TypeInv, Reconcile PROVE TypeInv'
<1>1. IsFiniteSet(CanonicalRuns) /\ CanonicalRuns \subseteq DOMAIN summary
  <2> DEFINE I == {schedule[p] : p \in Packages}
  <2>1. IsFiniteSet(I)
    <3> DEFINE g == [p \in Packages |-> schedule[p]]
    <3>1. g \in Surjection(Packages, I)
      BY DEF Surjection
    <3> HIDE DEF g, I
    <3> QED BY <3>1, PackagesAssumption, FS_Surjection
  <2>2. CanonicalRuns = I \cap DOMAIN summary
    BY DEF CanonicalRuns
  <2> HIDE DEF I
  <2> QED BY <2>1, <2>2, FS_Subset
<1>2. coverage' \in Summary
  BY <1>1, TotalType DEF TypeInv, TablesTyped, Reconcile
<1>3. batch' \in [pc : Stages, step : DOMAIN Order, late : BOOLEAN]
  BY DEF TypeInv, ServicesTyped, Reconcile, Stages
<1>4. /\ UNCHANGED <<findings, summary, occurrences, schedule, missed,
                     copy, hot, reviews, kills>>
      /\ triggers' \subseteq Triggers
  BY DEF TypeInv, TablesTyped, Reconcile
<1> QED BY <1>2, <1>3, <1>4, BatchTyped

\* A step of a publication.
LEMMA CopyTyped ==
  ASSUME TypeInv, UNCHANGED <<history, missed, reviews>>,
         kills' \in 0 .. MaxKills,
         ServicesTyped'
  PROVE  TypeInv'
<1>1. TablesTyped'
  BY DEF TypeInv, TablesTyped, history
<1> QED BY <1>1 DEF TypeInv

LEMMA PublishTyped ==
  ASSUME TypeInv, NEW s \in Services, BeginPublish(s) PROVE TypeInv'
<1>1. batch' \in [pc : Stages, step : DOMAIN Order, late : BOOLEAN]
  BY DEF TypeInv, ServicesTyped, BeginPublish, Stages
<1>2. copy' = [by |-> s, pc |-> "coverage", summary |-> summary, coverage |-> Zero]
      /\ UNCHANGED <<history, hot, missed, reviews, kills>>
  BY DEF BeginPublish, NoCopy
<1>3. /\ copy' = [by |-> copy'.by, pc |-> copy'.pc, summary |-> copy'.summary,
                  coverage |-> copy'.coverage]
      /\ copy'.by = s /\ copy'.pc = "coverage" /\ copy'.coverage = Zero
  BY <1>2
<1>4. ServicesTyped'
  BY <1>1, <1>2, <1>3, RecountType DEF TypeInv, ServicesTyped
<1> QED BY <1>2, <1>4, CopyTyped DEF TypeInv

LEMMA CopyStepTyped ==
  ASSUME TypeInv, CopyStep PROVE TypeInv'
<1>1. CASE ReadCoverage
  <2>1. /\ copy' = [by |-> copy.by, pc |-> "commit", summary |-> copy.summary,
                    coverage |-> coverage]
        /\ UNCHANGED <<history, batch, hot, missed, reviews, kills>>
    BY <1>1 DEF ReadCoverage, TypeInv, ServicesTyped
  <2>2. ServicesTyped'
    BY <2>1 DEF TypeInv, TablesTyped, ServicesTyped
  <2> QED BY <2>1, <2>2, CopyTyped DEF TypeInv
<1>2. CASE CommitPublish
  <2>1. /\ hot'.coverage = copy.coverage /\ copy' = NoCopy
        /\ UNCHANGED <<history, missed, reviews, kills>>
    BY <1>2 DEF CommitPublish
  <2>2. batch' \in [pc : Stages, step : DOMAIN Order, late : BOOLEAN]
    BY <1>2 DEF CommitPublish, TypeInv, ServicesTyped, Idle, Stages, Order
  <2>3. ServicesTyped'
    BY <2>1, <2>2, RecountType DEF TypeInv, ServicesTyped, NoCopy
  <2> QED BY <2>1, <2>3, CopyTyped DEF TypeInv
<1> QED BY <1>1, <1>2 DEF CopyStep

LEMMA KillTyped ==
  ASSUME TypeInv, NEW s \in Services, Kill(s) PROVE TypeInv'
<1>1. batch' \in [pc : Stages, step : DOMAIN Order, late : BOOLEAN]
  BY DEF TypeInv, ServicesTyped, Kill, Idle, Stages, Order
<1>2. ServicesTyped'
  BY <1>1, RecountType DEF TypeInv, ServicesTyped, NoCopy, Kill
<1>3. kills' \in 0 .. MaxKills
  BY BoundsAssumption DEF TypeInv, Kill
<1> QED BY <1>2, <1>3, CopyTyped DEF Kill

LEMMA StepTyped == TypeInv /\ [Next]_vars => TypeInv'
<1> SUFFICES ASSUME TypeInv, [Next]_vars PROVE TypeInv'
  OBVIOUS
<1>1. CASE Analyse
  BY <1>1, AnalyseTyped
<1>2. ASSUME NEW p \in Packages, NEW n \in DOMAIN findings, Complete(p, n)
      PROVE  TypeInv'
  BY <1>2, CompleteTyped
<1>3. ASSUME NEW n \in DOMAIN findings, NEW f \in Findings,
             NEW d \in Dispositions, Review(n, f, d)
      PROVE  TypeInv'
  BY <1>3, ReviewTyped
<1>4. CASE BeginInstall \/ Drop \/ Create \/ MaterializeFails
  BY <1>4, InstallTyped
<1>5. CASE Materialize
  BY <1>5, MaterializeTyped
<1>6. CASE Reconcile
  BY <1>6, ReconcileTyped
<1>7. ASSUME NEW s \in Services, BeginPublish(s) PROVE TypeInv'
  BY <1>7, PublishTyped
<1>8. CASE CopyStep
  BY <1>8, CopyStepTyped
<1>9. ASSUME NEW s \in Services, Kill(s) PROVE TypeInv'
  BY <1>9, KillTyped
<1>10. CASE UNCHANGED vars
  BY <1>10 DEF vars, history, TypeInv, TablesTyped, ServicesTyped
<1>11. "static" \in Services /\ "runtime" \in Services
  BY DEF Services
<1> QED BY <1>1, <1>2, <1>3, <1>4, <1>5, <1>6, <1>7, <1>8, <1>9, <1>10, <1>11
        DEF Next, BatchStep

\* Summaries and sums are counts that no review takes below zero, a row of the
\* schedule names a run that is there, and there are only the three triggers.
THEOREM TypeCorrect == Spec => []TypeOK
<1> QED BY TypeFollows, InitTyped, StepTyped, PTL DEF Spec

=============================================================================
