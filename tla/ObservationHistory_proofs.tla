---------------------- MODULE ObservationHistory_proofs ----------------------
(***************************************************************************)
(* Theorems about ObservationHistory, for any documents, lines and limits, *)
(* and any number of commands and failures.                                *)
(***************************************************************************)
EXTENDS ObservationHistory, FiniteSetTheorems, NaturalsInduction,
        SequenceTheorems, WellFoundedInduction, TLAPS

-----------------------------------------------------------------------------
(* Loops.  A loop is a function of how often it has run, and is defined by *)
(* what it was before.                                                     *)

\* Induction, for the set of the numbers of which something holds.
LEMMA Induction ==
  ASSUME NEW S, 0 \in S, \A n \in Nat : n \in S => n + 1 \in S
  PROVE  Nat \subseteq S
<1> DEFINE T == Nat \ S
<1> SUFFICES ASSUME T # {} PROVE FALSE
  OBVIOUS
<1>1. PICK x \in T : \A y \in T : ~ (<< y, x >> \in OpToRel(<, Nat))
  BY NatLessThanWellFounded, WFMin
<1>2. \A y \in T : ~ (y < x)
  BY <1>1 DEF OpToRel
<1>3. x # 0 /\ x \in Nat
  OBVIOUS
<1>4. x - 1 \in Nat /\ x - 1 < x /\ x - 1 \notin T
  BY <1>2, <1>3
<1> QED BY <1>4

\* The same up to a bound.
LEMMA Steps ==
  ASSUME NEW N \in Nat, NEW S, 0 \in S,
         \A n \in 1 .. N : n - 1 \in S => n \in S
  PROVE  0 .. N \subseteq S
<1> DEFINE T == {n \in Nat : n <= N => n \in S}
<1>1. 0 \in T
  OBVIOUS
<1>2. ASSUME NEW n \in Nat, n \in T PROVE n + 1 \in T
  <2> SUFFICES ASSUME n + 1 <= N PROVE n + 1 \in S
    OBVIOUS
  <2>1. n \in S /\ n + 1 \in 1 .. N /\ (n + 1) - 1 = n
    BY <1>2
  <2> QED BY <2>1
<1>3. Nat \subseteq T
  <2> HIDE DEF T
  <2> QED BY <1>1, <1>2, Induction
<1> QED BY <1>3

\* compact_json, character by character.
LEMMA ScanningIs ==
  ASSUME NEW text, NEW inString, Len(text) \in Nat
  PROVE  /\ Scanning(text, inString)[0] = [out |-> <<>>, in |-> inString]
         /\ \A n \in 1 .. Len(text) :
              Scanning(text, inString)[n] = Scan(Scanning(text, inString)[n - 1], text[n])
<1> DEFINE F(f, k) ==
             f = [n \in 0 .. k |-> IF n = 0 THEN [out |-> <<>>, in |-> inString]
                                   ELSE Scan(f[n - 1], text[n])]
           S == {k \in Nat : \E f : F(f, k)}
<1>1. 0 \in S
  <2> DEFINE g == [n \in 0 .. 0 |-> [out |-> <<>>, in |-> inString]]
  <2>1. F(g, 0)
    OBVIOUS
  <2> QED BY <2>1
<1>2. ASSUME NEW k \in Nat, k \in S PROVE k + 1 \in S
  <2>1. PICK f : F(f, k)
    BY <1>2
  <2> DEFINE g == [n \in 0 .. k + 1 |-> IF n <= k THEN f[n]
                                         ELSE Scan(f[k], text[k + 1])]
  <2>2. ASSUME NEW n \in 0 .. k + 1
        PROVE  g[n] = IF n = 0 THEN [out |-> <<>>, in |-> inString]
                      ELSE Scan(g[n - 1], text[n])
    <3>1. CASE n <= k
      BY <2>1, <3>1
    <3>2. CASE n = k + 1
      BY <2>1, <3>2
    <3> QED BY <3>1, <3>2
  <2>3. F(g, k + 1)
    BY <2>2
  <2>4. \E h : F(h, k + 1)
    <3> HIDE DEF F, g
    <3> QED BY <2>3
  <2> QED BY <2>4
<1>3. Nat \subseteq S
  <2> HIDE DEF S
  <2> QED BY <1>1, <1>2, Induction
<1>4. PICK f : F(f, Len(text))
  BY <1>3
<1>5. F(Scanning(text, inString), Len(text))
  BY <1>4, Zenon DEF Scanning
<1> QED BY <1>5

\* compact_json, text by text.
LEMMA CarriedIs ==
  ASSUME NEW i, Len(i.tools) \in Nat
  PROVE  /\ Carried(i)[0] = Lead(i).in
         /\ \A n \in 1 .. Len(i.tools) :
              Carried(i)[n] = Open(i.tools[n].definition, Carried(i)[n - 1])
<1> DEFINE F(f, k) ==
             f = [n \in 0 .. k |-> IF n = 0 THEN Lead(i).in
                                   ELSE Open(i.tools[n].definition, f[n - 1])]
           S == {k \in Nat : \E f : F(f, k)}
<1>1. 0 \in S
  <2> DEFINE g == [n \in 0 .. 0 |-> Lead(i).in]
  <2>1. F(g, 0)
    OBVIOUS
  <2> QED BY <2>1
<1>2. ASSUME NEW k \in Nat, k \in S PROVE k + 1 \in S
  <2>1. PICK f : F(f, k)
    BY <1>2
  <2> DEFINE g == [n \in 0 .. k + 1 |-> IF n <= k THEN f[n]
                                         ELSE Open(i.tools[k + 1].definition, f[k])]
  <2>2. ASSUME NEW n \in 0 .. k + 1
        PROVE  g[n] = IF n = 0 THEN Lead(i).in
                      ELSE Open(i.tools[n].definition, g[n - 1])
    <3>1. CASE n <= k
      BY <2>1, <3>1
    <3>2. CASE n = k + 1
      BY <2>1, <3>2
    <3> QED BY <3>1, <3>2
  <2>3. F(g, k + 1)
    BY <2>2
  <2>4. \E h : F(h, k + 1)
    <3> HIDE DEF F, g
    <3> QED BY <2>3
  <2> QED BY <2>4
<1>3. Nat \subseteq S
  <2> HIDE DEF S
  <2> QED BY <1>1, <1>2, Induction
<1>4. PICK f : F(f, Len(i.tools))
  BY <1>3
<1>5. F(Carried(i), Len(i.tools))
  BY <1>4, Zenon DEF Carried
<1> QED BY <1>5

\* std::getline, piece by piece.
LEMMA SplittingIs ==
  ASSUME NEW file, Len(file) \in Nat
  PROVE  /\ Splitting(file)[0] = [done |-> <<>>, line |-> <<>>]
         /\ \A n \in 1 .. Len(file) :
              Splitting(file)[n] = Split(Splitting(file)[n - 1], file[n])
<1> DEFINE F(f, k) ==
             f = [n \in 0 .. k |-> IF n = 0 THEN [done |-> <<>>, line |-> <<>>]
                                   ELSE Split(f[n - 1], file[n])]
           S == {k \in Nat : \E f : F(f, k)}
<1>1. 0 \in S
  <2> DEFINE g == [n \in 0 .. 0 |-> [done |-> <<>>, line |-> <<>>]]
  <2>1. F(g, 0)
    OBVIOUS
  <2> QED BY <2>1
<1>2. ASSUME NEW k \in Nat, k \in S PROVE k + 1 \in S
  <2>1. PICK f : F(f, k)
    BY <1>2
  <2> DEFINE g == [n \in 0 .. k + 1 |-> IF n <= k THEN f[n]
                                         ELSE Split(f[k], file[k + 1])]
  <2>2. ASSUME NEW n \in 0 .. k + 1
        PROVE  g[n] = IF n = 0 THEN [done |-> <<>>, line |-> <<>>]
                      ELSE Split(g[n - 1], file[n])
    <3>1. CASE n <= k
      BY <2>1, <3>1
    <3>2. CASE n = k + 1
      BY <2>1, <3>2
    <3> QED BY <3>1, <3>2
  <2>3. F(g, k + 1)
    BY <2>2
  <2>4. \E h : F(h, k + 1)
    <3> HIDE DEF F, g
    <3> QED BY <2>3
  <2> QED BY <2>4
<1>3. Nat \subseteq S
  <2> HIDE DEF S
  <2> QED BY <1>1, <1>2, Induction
<1>4. PICK f : F(f, Len(file))
  BY <1>3
<1>5. F(Splitting(file), Len(file))
  BY <1>4, Zenon DEF Splitting
<1> QED BY <1>5

\* analyze_history, line by line.
LEMMA ReadingIs ==
  ASSUME NEW lines, NEW target, Len(lines) \in Nat
  PROVE  /\ Reading(lines, target)[0] = ReadingStart
         /\ \A n \in 1 .. Len(lines) :
              Reading(lines, target)[n] = ReadLine(Reading(lines, target)[n - 1], lines[n], target)
<1> DEFINE F(f, k) ==
             f = [n \in 0 .. k |-> IF n = 0 THEN ReadingStart
                                   ELSE ReadLine(f[n - 1], lines[n], target)]
           S == {k \in Nat : \E f : F(f, k)}
<1>1. 0 \in S
  <2> DEFINE g == [n \in 0 .. 0 |-> ReadingStart]
  <2>1. F(g, 0)
    OBVIOUS
  <2> QED BY <2>1
<1>2. ASSUME NEW k \in Nat, k \in S PROVE k + 1 \in S
  <2>1. PICK f : F(f, k)
    BY <1>2
  <2> DEFINE g == [n \in 0 .. k + 1 |-> IF n <= k THEN f[n]
                                         ELSE ReadLine(f[k], lines[k + 1], target)]
  <2>2. ASSUME NEW n \in 0 .. k + 1
        PROVE  g[n] = IF n = 0 THEN ReadingStart
                      ELSE ReadLine(g[n - 1], lines[n], target)
    <3>1. CASE n <= k
      BY <2>1, <3>1
    <3>2. CASE n = k + 1
      BY <2>1, <3>2
    <3> QED BY <3>1, <3>2
  <2>3. F(g, k + 1)
    BY <2>2
  <2>4. \E h : F(h, k + 1)
    <3> HIDE DEF F, g
    <3> QED BY <2>3
  <2> QED BY <2>4
<1>3. Nat \subseteq S
  <2> HIDE DEF S
  <2> QED BY <1>1, <1>2, Induction
<1>4. PICK f : F(f, Len(lines))
  BY <1>3
<1>5. F(Reading(lines, target), Len(lines))
  BY <1>4, Zenon DEF Reading
<1> QED BY <1>5

\* compare_inventories, round by round.
LEMMA MergingIs ==
  ASSUME NEW before, NEW after, Len(before) \in Nat, Len(after) \in Nat
  PROVE  /\ Merging(before, after)[0] = MergingStart
         /\ \A n \in 1 .. Len(before) + Len(after) :
              Merging(before, after)[n] = Merge(Merging(before, after)[n - 1], before, after)
<1> DEFINE F(f, k) ==
             f = [n \in 0 .. k |-> IF n = 0 THEN MergingStart
                                   ELSE Merge(f[n - 1], before, after)]
           S == {k \in Nat : \E f : F(f, k)}
<1>1. 0 \in S
  <2> DEFINE g == [n \in 0 .. 0 |-> MergingStart]
  <2>1. F(g, 0)
    OBVIOUS
  <2> QED BY <2>1
<1>2. ASSUME NEW k \in Nat, k \in S PROVE k + 1 \in S
  <2>1. PICK f : F(f, k)
    BY <1>2
  <2> DEFINE g == [n \in 0 .. k + 1 |-> IF n <= k THEN f[n]
                                         ELSE Merge(f[k], before, after)]
  <2>2. ASSUME NEW n \in 0 .. k + 1
        PROVE  g[n] = IF n = 0 THEN MergingStart
                      ELSE Merge(g[n - 1], before, after)
    <3>1. CASE n <= k
      BY <2>1, <3>1
    <3>2. CASE n = k + 1
      BY <2>1, <3>2
    <3> QED BY <3>1, <3>2
  <2>3. F(g, k + 1)
    BY <2>2
  <2>4. \E h : F(h, k + 1)
    <3> HIDE DEF F, g
    <3> QED BY <2>3
  <2> QED BY <2>4
<1>3. Nat \subseteq S
  <2> HIDE DEF S
  <2> QED BY <1>1, <1>2, Induction
<1>4. PICK f : F(f, Len(before) + Len(after))
  BY <1>3
<1>5. F(Merging(before, after), Len(before) + Len(after))
  BY <1>4, Zenon DEF Merging
<1> QED BY <1>5

\* read_target_manifest, line by line.
LEMMA ReadingTargetsIs ==
  ASSUME NEW lines, Len(lines) \in Nat
  PROVE  /\ ReadingTargets(lines)[0] = ManifestStart
         /\ \A n \in 1 .. Len(lines) :
              ReadingTargets(lines)[n] = ReadTarget(ReadingTargets(lines)[n - 1], lines[n])
<1> DEFINE F(f, k) ==
             f = [n \in 0 .. k |-> IF n = 0 THEN ManifestStart
                                   ELSE ReadTarget(f[n - 1], lines[n])]
           S == {k \in Nat : \E f : F(f, k)}
<1>1. 0 \in S
  <2> DEFINE g == [n \in 0 .. 0 |-> ManifestStart]
  <2>1. F(g, 0)
    OBVIOUS
  <2> QED BY <2>1
<1>2. ASSUME NEW k \in Nat, k \in S PROVE k + 1 \in S
  <2>1. PICK f : F(f, k)
    BY <1>2
  <2> DEFINE g == [n \in 0 .. k + 1 |-> IF n <= k THEN f[n]
                                         ELSE ReadTarget(f[k], lines[k + 1])]
  <2>2. ASSUME NEW n \in 0 .. k + 1
        PROVE  g[n] = IF n = 0 THEN ManifestStart
                      ELSE ReadTarget(g[n - 1], lines[n])
    <3>1. CASE n <= k
      BY <2>1, <3>1
    <3>2. CASE n = k + 1
      BY <2>1, <3>2
    <3> QED BY <3>1, <3>2
  <2>3. F(g, k + 1)
    BY <2>2
  <2>4. \E h : F(h, k + 1)
    <3> HIDE DEF F, g
    <3> QED BY <2>3
  <2> QED BY <2>4
<1>3. Nat \subseteq S
  <2> HIDE DEF S
  <2> QED BY <1>1, <1>2, Induction
<1>4. PICK f : F(f, Len(lines))
  BY <1>3
<1>5. F(ReadingTargets(lines), Len(lines))
  BY <1>4, Zenon DEF ReadingTargets
<1> QED BY <1>5

-----------------------------------------------------------------------------
(* The manifest                                                            *)

\* The lines of the first n that are not empty, and those of one kind.
Filled(lines, n) == {i \in 1 .. n : lines[i].members # <<>>}
OfKind(lines, n, kind) == {i \in Filled(lines, n) : lines[i].kind = kind}

\* Line i is empty, or a record within the limit.
Fits(lines, i) ==
  lines[i].members # <<>> =>
    record(lines[i]) /\ Cardinality(Filled(lines, i - 1)) < MaxManifest

IsSummary(r) ==
  /\ r = [line |-> r.line, error |-> r.error, records |-> r.records,
          local |-> r.local, remote |-> r.remote]
  /\ r.line \in Nat /\ r.error \in Nat /\ r.records \in Nat
  /\ r.local \in Nat /\ r.remote \in Nat

\* The loop over the first n lines: it stops at the first that does not fit.
TargetsRead(r, lines, n) ==
  /\ IsSummary(r)
  /\ r.error = 0 =>
       /\ \A i \in 1 .. n : Fits(lines, i)
       /\ r.line = n
       /\ r.records = Cardinality(Filled(lines, n))
       /\ r.local = Cardinality(OfKind(lines, n, "local_package"))
       /\ r.remote = Cardinality(OfKind(lines, n, "remote_endpoint"))
  /\ r.error # 0 =>
       /\ r.error \in 1 .. n /\ ~Fits(lines, r.error)
       /\ \A i \in 1 .. r.error - 1 : Fits(lines, i)

LEMMA FilledStep ==
  ASSUME NEW lines, NEW n \in Nat
  PROVE  /\ IsFiniteSet(Filled(lines, n)) /\ Cardinality(Filled(lines, n)) \in Nat
         /\ \A kind : /\ IsFiniteSet(OfKind(lines, n, kind))
                      /\ Cardinality(OfKind(lines, n, kind)) \in Nat
         /\ lines[n + 1].members = <<>> =>
              /\ Filled(lines, n + 1) = Filled(lines, n)
              /\ \A kind : OfKind(lines, n + 1, kind) = OfKind(lines, n, kind)
         /\ lines[n + 1].members # <<>> =>
              /\ Cardinality(Filled(lines, n + 1)) = Cardinality(Filled(lines, n)) + 1
              /\ \A kind :
                   Cardinality(OfKind(lines, n + 1, kind)) =
                     IF lines[n + 1].kind = kind
                     THEN Cardinality(OfKind(lines, n, kind)) + 1
                     ELSE Cardinality(OfKind(lines, n, kind))
<1>1. IsFiniteSet(1 .. n)
  BY FS_Interval
<1>2. IsFiniteSet(Filled(lines, n)) /\ Cardinality(Filled(lines, n)) \in Nat
  <2>1. Filled(lines, n) \subseteq 1 .. n
    BY DEF Filled
  <2> QED BY <1>1, <2>1, FS_Subset, FS_CardinalityType
<1>3. ASSUME NEW kind
      PROVE  /\ IsFiniteSet(OfKind(lines, n, kind))
             /\ Cardinality(OfKind(lines, n, kind)) \in Nat
  <2>1. OfKind(lines, n, kind) \subseteq Filled(lines, n)
    BY DEF OfKind
  <2> QED BY <1>2, <2>1, FS_Subset, FS_CardinalityType
<1>4. CASE lines[n + 1].members = <<>>
  <2>1. Filled(lines, n + 1) = Filled(lines, n)
    BY <1>4 DEF Filled
  <2> QED BY <1>2, <1>3, <1>4, <2>1 DEF OfKind
<1>5. CASE lines[n + 1].members # <<>>
  <2>1. Filled(lines, n + 1) = Filled(lines, n) \cup {n + 1} /\ n + 1 \notin Filled(lines, n)
    BY <1>5 DEF Filled
  <2>2. Cardinality(Filled(lines, n + 1)) = Cardinality(Filled(lines, n)) + 1
    BY <1>2, <2>1, FS_AddElement
  <2>3. ASSUME NEW kind
        PROVE  Cardinality(OfKind(lines, n + 1, kind)) =
                 IF lines[n + 1].kind = kind
                 THEN Cardinality(OfKind(lines, n, kind)) + 1
                 ELSE Cardinality(OfKind(lines, n, kind))
    <3>1. CASE lines[n + 1].kind = kind
      <4>1. /\ OfKind(lines, n + 1, kind) = OfKind(lines, n, kind) \cup {n + 1}
            /\ n + 1 \notin OfKind(lines, n, kind)
        BY <2>1, <3>1 DEF OfKind
      <4> QED BY <1>3, <3>1, <4>1, FS_AddElement
    <3>2. CASE lines[n + 1].kind # kind
      <4>1. OfKind(lines, n + 1, kind) = OfKind(lines, n, kind)
        BY <2>1, <3>2 DEF OfKind
      <4> QED BY <3>2, <4>1
    <3> QED BY <3>1, <3>2
  <2> QED BY <1>2, <1>3, <1>5, <2>2, <2>3
<1> QED BY <1>2, <1>3, <1>4, <1>5

LEMMA TargetsStep ==
  ASSUME NEW lines, NEW n \in Nat, NEW r, TargetsRead(r, lines, n),
         NEW s, s = ReadTarget(r, lines[n + 1])
  PROVE  TargetsRead(s, lines, n + 1)
<1> DEFINE l == lines[n + 1]
           empty == l.members = <<>>
           room == r.records < MaxManifest
<1>1. MaxManifest \in Nat
  BY LimitAssumption
<1>2. IsSummary(r)
  BY DEF TargetsRead
<1>3. CASE r.error # 0
  <2>1. s = r
    BY <1>3 DEF ReadTarget
  <2> QED BY <1>2, <1>3, <2>1 DEF TargetsRead
<1>4. ASSUME r.error = 0
      PROVE  /\ r.line = n /\ \A i \in 1 .. n : Fits(lines, i)
             /\ r.records = Cardinality(Filled(lines, n))
             /\ r.local = Cardinality(OfKind(lines, n, "local_package"))
             /\ r.remote = Cardinality(OfKind(lines, n, "remote_endpoint"))
  BY <1>4 DEF TargetsRead
<1>5. CASE r.error = 0 /\ empty
  <2>1. s = [line |-> n + 1, error |-> 0, records |-> r.records,
             local |-> r.local, remote |-> r.remote]
    <3>1. s = [r EXCEPT !.line = @ + 1]
      BY <1>5 DEF ReadTarget
    <3> QED BY <1>2, <1>4, <1>5, <3>1 DEF IsSummary
  <2>2. IsSummary(s)
    BY <1>2, <2>1 DEF IsSummary
  <2>3. \A i \in 1 .. n + 1 : Fits(lines, i)
    BY <1>4, <1>5 DEF Fits
  <2>4. /\ Filled(lines, n + 1) = Filled(lines, n)
        /\ \A kind : OfKind(lines, n + 1, kind) = OfKind(lines, n, kind)
    BY <1>5, FilledStep
  <2> QED BY <1>4, <1>5, <2>1, <2>2, <2>3, <2>4 DEF TargetsRead
<1>6. CASE r.error = 0 /\ ~empty /\ (~room \/ ~record(l))
  <2>1. s = [line |-> n + 1, error |-> n + 1, records |-> r.records,
             local |-> r.local, remote |-> r.remote]
    <3>1. s = [r EXCEPT !.line = @ + 1, !.error = r.line + 1]
      BY <1>1, <1>2, <1>6 DEF ReadTarget, IsSummary
    <3> QED BY <1>2, <1>4, <1>6, <3>1 DEF IsSummary
  <2>2. IsSummary(s)
    BY <1>2, <2>1 DEF IsSummary
  <2>3. ~Fits(lines, n + 1)
    <3>1. (n + 1) - 1 = n
      OBVIOUS
    <3> QED BY <1>4, <1>6, <3>1 DEF Fits
  <2> QED BY <1>4, <1>6, <2>1, <2>2, <2>3 DEF TargetsRead
<1>7. CASE r.error = 0 /\ ~empty /\ room /\ record(l)
  <2> DEFINE one(kind) == IF l.kind = kind THEN 1 ELSE 0
  <2>1. l.kind \in {"local_package", "remote_endpoint"}
    BY <1>7 DEF record
  <2>2. s = [line |-> n + 1, error |-> 0, records |-> r.records + 1,
             local |-> r.local + one("local_package"),
             remote |-> r.remote + one("remote_endpoint")]
    <3>1. s = CountRecord(r, l)
      BY <1>1, <1>2, <1>7 DEF ReadTarget, IsSummary
    <3>2. CASE l.kind = "local_package"
      <4>1. s = [r EXCEPT !.line = @ + 1, !.records = @ + 1, !.local = @ + 1,
                          !.remote = @]
        BY <3>1, <3>2 DEF CountRecord
      <4>2. s = [line |-> n + 1, error |-> 0, records |-> r.records + 1,
                 local |-> r.local + 1, remote |-> r.remote]
        BY <1>2, <1>4, <1>7, <4>1 DEF IsSummary
      <4>3. one("local_package") = 1 /\ one("remote_endpoint") = 0
        BY <3>2
      <4> HIDE DEF one
      <4> QED BY <1>2, <4>2, <4>3 DEF IsSummary
    <3>3. CASE l.kind = "remote_endpoint"
      <4>1. s = [r EXCEPT !.line = @ + 1, !.records = @ + 1, !.local = @,
                          !.remote = @ + 1]
        BY <3>1, <3>3 DEF CountRecord
      <4>2. s = [line |-> n + 1, error |-> 0, records |-> r.records + 1,
                 local |-> r.local, remote |-> r.remote + 1]
        BY <1>2, <1>4, <1>7, <4>1 DEF IsSummary
      <4>3. one("local_package") = 0 /\ one("remote_endpoint") = 1
        BY <3>3
      <4> HIDE DEF one
      <4> QED BY <1>2, <4>2, <4>3 DEF IsSummary
    <3> QED BY <2>1, <3>2, <3>3
  <2>3. one("local_package") \in Nat /\ one("remote_endpoint") \in Nat
    OBVIOUS
  <2>4. IsSummary(s)
    <3> HIDE DEF one
    <3> QED BY <1>2, <2>2, <2>3 DEF IsSummary
  <2>5. \A i \in 1 .. n + 1 : Fits(lines, i)
    <3>1. (n + 1) - 1 = n
      OBVIOUS
    <3> QED BY <1>4, <1>7, <3>1 DEF Fits
  <2>6. /\ Cardinality(Filled(lines, n + 1)) = r.records + 1
        /\ Cardinality(OfKind(lines, n + 1, "local_package"))
             = r.local + one("local_package")
        /\ Cardinality(OfKind(lines, n + 1, "remote_endpoint"))
             = r.remote + one("remote_endpoint")
    <3>1. r.local \in Nat /\ r.remote \in Nat
      BY <1>2 DEF IsSummary
    <3> QED BY <1>4, <1>7, <3>1, FilledStep
  <2> HIDE DEF one
  <2> QED BY <1>7, <2>2, <2>4, <2>5, <2>6 DEF TargetsRead
<1>8. r.error = 0 => empty \/ (~room \/ ~record(l)) \/ (room /\ record(l))
  OBVIOUS
<1> QED BY <1>3, <1>5, <1>6, <1>7, <1>8

LEMMA ManifestRead ==
  ASSUME NEW lines, Len(lines) \in Nat
  PROVE  TargetsRead(read_target_manifest(lines), lines, Len(lines))
<1> DEFINE R(n) == ReadingTargets(lines)[n]
           S == {n \in 0 .. Len(lines) : TargetsRead(R(n), lines, n)}
<1>1. 0 \in S
  <2>1. R(0) = ManifestStart
    BY ReadingTargetsIs
  <2>2. Filled(lines, 0) = {} /\ \A kind : OfKind(lines, 0, kind) = {}
    BY DEF Filled, OfKind
  <2>3. Cardinality({}) = 0
    BY FS_EmptySet
  <2>4. IsSummary(ManifestStart) /\ \A i \in 1 .. 0 : Fits(lines, i)
    BY DEF IsSummary, ManifestStart
  <2>5. TargetsRead(ManifestStart, lines, 0)
    BY <2>2, <2>3, <2>4 DEF TargetsRead, ManifestStart
  <2> QED BY <2>1, <2>5
<1>2. ASSUME NEW n \in 1 .. Len(lines), n - 1 \in S PROVE n \in S
  <2>1. R(n) = ReadTarget(R(n - 1), lines[n])
    BY ReadingTargetsIs
  <2>2. n - 1 \in Nat /\ (n - 1) + 1 = n
    OBVIOUS
  <2>3. TargetsRead(R(n), lines, n)
    <3> HIDE DEF R
    <3>1. TargetsRead(R(n), lines, (n - 1) + 1)
      BY <1>2, <2>1, <2>2, TargetsStep
    <3> QED BY <2>2, <3>1
  <2> QED BY <2>3
<1>3. 0 .. Len(lines) \subseteq S
  <2> HIDE DEF S
  <2> QED BY <1>1, <1>2, Steps
<1>4. Len(lines) \in S
  BY <1>3
<1> QED BY <1>4 DEF read_target_manifest

-----------------------------------------------------------------------------
(* The file and its writer                                                 *)

Parts == {EndOfLine} \cup [part : {"text", "begin", "rest", "brace"}, of : Accepted]

\* No line of the file is empty.
NoEmpty(file) ==
  \A i \in 1 .. Len(file) : file[i] = EndOfLine => i # 1 /\ file[i - 1] # EndOfLine

\* What is left of a record of which n pieces are in the file.
Rest(d, n) == SubSeq(Pieces(d), n + 1, Len(Pieces(d)))

\* The running command has sent n pieces to the file, its last ones.
InHand(w, file, n) ==
  \/ w = Idle /\ n = 0
  \/ \E d \in Accepted :
       /\ \/ w = [status |-> "open", document |-> d, buffer |-> Rest(d, n)] /\ n = 0
          \/ /\ w = [status |-> "closing", document |-> d, buffer |-> Rest(d, n)]
             /\ n = 0 \/ n = Len(Pieces(d)) - 2
       /\ n <= Len(file)
       /\ \A k \in 1 .. n : file[Len(file) - n + k] = Pieces(d)[k]

\* The whole record of d follows the first at pieces of the file.
Lies(file, at, d) ==
  /\ at + Len(Pieces(d)) <= Len(file)
  /\ \A k \in 1 .. Len(Pieces(d)) : file[at + k] = Pieces(d)[k]

\* The records of the commands that ended are in the file, in their order and
\* before what the running one has sent.
PlacedAt(place, file, docs, n) ==
  /\ \A i \in 1 .. Len(docs) :
       /\ place[i] \in Nat /\ Lies(file, place[i], docs[i])
       /\ place[i] + Len(Pieces(docs[i])) <= Len(file) - n
  /\ \A i, j \in 1 .. Len(docs) :
       i < j => place[i] + Len(Pieces(docs[i])) <= place[j]

Placed(file, docs, n) ==
  \E place : place \in [1 .. Len(docs) -> Nat] /\ PlacedAt(place, file, docs, n)

\* Without failures there is nothing else, if each is one line.
OneLine(d) == ~HoldsNewline(Written[d].inventory)
Tiled(file, docs, n) ==
  (\A i \in 1 .. Len(docs) : OneLine(docs[i])) =>
     /\ Len(file) = 3 * Len(docs) + n
     /\ \A i \in 1 .. Len(docs) : Lies(file, 3 * (i - 1), docs[i])

StoreOK(file, w, docs, count) ==
  /\ file \in Seq(Parts) /\ NoEmpty(file) /\ docs \in Seq(Accepted)
  /\ \E n \in Nat :
       /\ InHand(w, file, n) /\ Placed(file, docs, n)
       /\ count = 0 => Tiled(file, docs, n)

\* The inductive invariant.
IInv ==
  /\ StoreOK(history, writer, acknowledged, failed)
  /\ failed \in 0 .. MaxFailures
  /\ manifest \in Seq(ManifestLines)

LEMMA PiecesAre ==
  ASSUME NEW d \in Accepted
  PROVE  LET p == Pieces(d) IN
         /\ p \in Seq(Parts) /\ NoEmpty(p)
         /\ OneLine(d) => p = <<Piece("text", d), Piece("brace", d), EndOfLine>>
         /\ OneLine(d) => Len(p) = 3
         /\ ~OneLine(d) => Len(p) = 5 /\ p[3] = Piece("rest", d)
         /\ Len(p) \in {3, 5}
         /\ p[1] # EndOfLine /\ p[Len(p) - 1] # EndOfLine
         /\ p[Len(p)] = EndOfLine
<1> DEFINE p == Pieces(d)
<1>1. EndOfLine \in Parts /\ \A part \in {"text", "begin", "rest", "brace"} :
        Piece(part, d) \in Parts /\ Piece(part, d) # EndOfLine
  BY DEF Parts, Piece, EndOfLine
<1>2. CASE OneLine(d)
  <2>1. p = <<Piece("text", d), Piece("brace", d), EndOfLine>>
    BY <1>2 DEF Pieces, OneLine
  <2> HIDE DEF p
  <2> QED BY <1>1, <1>2, <2>1 DEF NoEmpty, p
<1>3. CASE ~OneLine(d)
  <2>1. p = <<Piece("begin", d), EndOfLine, Piece("rest", d), Piece("brace", d), EndOfLine>>
    BY <1>3 DEF Pieces, OneLine
  <2> HIDE DEF p
  <2> QED BY <1>1, <1>3, <2>1 DEF NoEmpty, p
<1> QED BY <1>2, <1>3

LEMMA RestIs ==
  ASSUME NEW d \in Accepted, NEW n \in 0 .. Len(Pieces(d))
  PROVE  /\ Rest(d, n) \in Seq(Parts) /\ Len(Rest(d, n)) = Len(Pieces(d)) - n
         /\ \A k \in 1 .. Len(Pieces(d)) - n : Rest(d, n)[k] = Pieces(d)[n + k]
<1> DEFINE p == Pieces(d)
<1>1. p \in Seq(Parts) /\ Len(p) \in Nat
  BY PiecesAre
<1>2. \A k \in n + 1 .. Len(p) : p[k] \in Parts
  BY <1>1, ElementOfSeq
<1>3. /\ Rest(d, n) \in Seq(Parts)
      /\ Len(Rest(d, n)) = IF n + 1 <= Len(p) THEN Len(p) - (n + 1) + 1 ELSE 0
      /\ \A k \in 1 .. Len(p) - (n + 1) + 1 : Rest(d, n)[k] = p[(n + 1) + k - 1]
  <2>1. n + 1 \in Int /\ Len(p) \in Int
    BY <1>1
  <2>2. Rest(d, n) = SubSeq(p, n + 1, Len(p))
    BY DEF Rest
  <2> HIDE DEF p
  <2> QED BY <1>2, <2>1, <2>2, SubSeqProperties
<1>4. n <= Len(p) /\ n \in Nat
  BY <1>1
<1> HIDE DEF p
<1>5. Len(Rest(d, n)) = Len(p) - n
  BY <1>1, <1>3, <1>4
<1>6. ASSUME NEW k \in 1 .. Len(p) - n PROVE Rest(d, n)[k] = p[n + k]
  <2>1. (n + 1) + k - 1 = n + k /\ k \in 1 .. Len(p) - (n + 1) + 1
    BY <1>1, <1>4
  <2> QED BY <1>3, <2>1
<1> QED BY <1>3, <1>5, <1>6 DEF p

\* Sending m of the pieces that are left.
Sent(file, d, n, m) == file \o SubSeq(Rest(d, n), 1, m)

Grown(file, new, d, n, m) ==
  /\ new \in Seq(Parts) /\ Len(new) = Len(file) + m
  /\ \A i \in 1 .. Len(file) : new[i] = file[i]
  /\ \A k \in 1 .. m : new[Len(file) + k] = Pieces(d)[n + k]

LEMMA Sending ==
  ASSUME NEW d \in Accepted, NEW n \in Nat, NEW m \in Nat,
         n + m <= Len(Pieces(d)), NEW file \in Seq(Parts),
         NEW new, new = Sent(file, d, n, m)
  PROVE  Grown(file, new, d, n, m)
<1> DEFINE p == Pieces(d)
           rest == Rest(d, n)
           sent == SubSeq(rest, 1, m)
<1>1. p \in Seq(Parts) /\ Len(p) \in Nat /\ n + m <= Len(p)
  BY PiecesAre
<1>2. /\ rest \in Seq(Parts) /\ Len(rest) = Len(p) - n
      /\ \A k \in 1 .. Len(p) - n : rest[k] = p[n + k]
  <2>1. n \in 0 .. Len(p)
    BY <1>1
  <2> QED BY <2>1, RestIs
<1>3. new = file \o sent
  BY DEF Sent
<1> HIDE DEF p, rest
<1>4. \A k \in 1 .. m : rest[k] = p[n + k] /\ rest[k] \in Parts
  <2>1. \A k \in 1 .. Len(rest) : rest[k] \in Parts
    BY <1>2, ElementOfSeq
  <2>2. \A k \in 1 .. m : k \in 1 .. Len(p) - n
    BY <1>1
  <2> QED BY <1>2, <2>1, <2>2
<1> HIDE DEF sent
<1>5. /\ sent \in Seq(Parts) /\ Len(sent) = m
      /\ \A k \in 1 .. m : sent[k] = p[n + k]
  <2>1. /\ sent \in Seq(Parts)
        /\ Len(sent) = IF 1 <= m THEN m - 1 + 1 ELSE 0
        /\ \A k \in 1 .. m - 1 + 1 : sent[k] = rest[1 + k - 1]
    BY <1>4, SubSeqProperties DEF sent
  <2>2. \A k \in 1 .. m : 1 + k - 1 = k /\ k \in 1 .. m - 1 + 1
    OBVIOUS
  <2>3. Len(sent) = m
    BY <2>1
  <2> QED BY <1>4, <2>1, <2>2, <2>3
<1>6. /\ new \in Seq(Parts) /\ Len(new) = Len(file) + Len(sent)
      /\ \A i \in 1 .. Len(file) + Len(sent) :
           new[i] = IF i <= Len(file) THEN file[i] ELSE sent[i - Len(file)]
  BY ONLY <1>3, <1>5, ConcatProperties, file \in Seq(Parts)
<1>7. Len(file) \in Nat
  BY LenProperties
<1>8. \A i \in 1 .. Len(file) : new[i] = file[i]
  BY <1>5, <1>6, <1>7
<1>9. ASSUME NEW k \in 1 .. m PROVE new[Len(file) + k] = p[n + k]
  <2>1. /\ Len(file) + k \in 1 .. Len(file) + Len(sent) /\ ~(Len(file) + k <= Len(file))
        /\ (Len(file) + k) - Len(file) = k
    BY <1>5, <1>7
  <2> QED BY <1>5, <1>6, <2>1
<1> QED BY <1>5, <1>6, <1>8, <1>9 DEF p, Grown

LEMMA LiesStays ==
  ASSUME NEW file \in Seq(Parts), NEW new \in Seq(Parts), Len(file) <= Len(new),
         \A i \in 1 .. Len(file) : new[i] = file[i],
         NEW at \in Nat, NEW d \in Accepted, Lies(file, at, d)
  PROVE  Lies(new, at, d)
<1>1. Len(Pieces(d)) \in Nat /\ Len(file) \in Nat /\ Len(new) \in Nat
  BY PiecesAre
<1> QED BY <1>1 DEF Lies

\* What is in the file stays in it.
LEMMA PlacedStays ==
  ASSUME NEW file \in Seq(Parts), NEW new \in Seq(Parts), NEW m \in Nat,
         Len(new) = Len(file) + m, \A i \in 1 .. Len(file) : new[i] = file[i],
         NEW docs \in Seq(Accepted), NEW n \in Nat, NEW o \in Nat, o <= n + m,
         Placed(file, docs, n)
  PROVE  Placed(new, docs, o)
<1>1. PICK place : place \in [1 .. Len(docs) -> Nat] /\ PlacedAt(place, file, docs, n)
  BY DEF Placed
<1>2. ASSUME NEW i \in 1 .. Len(docs)
      PROVE  /\ place[i] \in Nat /\ Lies(new, place[i], docs[i])
             /\ place[i] + Len(Pieces(docs[i])) <= Len(new) - o
  <2>1. /\ place[i] \in Nat /\ Lies(file, place[i], docs[i])
        /\ place[i] + Len(Pieces(docs[i])) <= Len(file) - n
    BY <1>1 DEF PlacedAt
  <2>2. docs[i] \in Accepted
    BY ElementOfSeq
  <2>3. Len(file) \in Nat /\ Len(new) \in Nat /\ Len(Pieces(docs[i])) \in Nat
    BY <2>2, PiecesAre, SMTT(30)
  <2>4. Len(file) <= Len(new)
    BY <2>3
  <2>5. Lies(new, place[i], docs[i])
    BY <2>1, <2>2, <2>4, LiesStays
  <2> QED BY <2>1, <2>3, <2>5
<1>3. PlacedAt(place, new, docs, o)
  BY <1>1, <1>2 DEF PlacedAt
<1> QED BY <1>1, <1>3 DEF Placed

LEMMA NoEmptyStays ==
  ASSUME NEW d \in Accepted, NEW n \in Nat, NEW m \in Nat, n + m <= Len(Pieces(d)),
         NEW file \in Seq(Parts), NoEmpty(file), n <= Len(file),
         \A k \in 1 .. n : file[Len(file) - n + k] = Pieces(d)[k],
         NEW new \in Seq(Parts), Len(new) = Len(file) + m,
         \A i \in 1 .. Len(file) : new[i] = file[i],
         \A k \in 1 .. m : new[Len(file) + k] = Pieces(d)[n + k]
  PROVE  NoEmpty(new)
<1> DEFINE p == Pieces(d)
<1>1. NoEmpty(p) /\ Len(p) \in Nat /\ n + m <= Len(p) /\ Len(file) \in Nat /\ p[1] # EndOfLine
  BY PiecesAre
<1>2. \A k \in 1 .. n : file[Len(file) - n + k] = p[k]
  OBVIOUS
<1>3. \A k \in 1 .. m : new[Len(file) + k] = p[n + k]
  OBVIOUS
<1> HIDE DEF p
<1>4. ASSUME NEW i \in 1 .. Len(new), new[i] = EndOfLine
      PROVE  i # 1 /\ new[i - 1] # EndOfLine
  <2>1. CASE i <= Len(file)
    <3>1. i \in 1 .. Len(file) /\ file[i] = EndOfLine
      BY <1>1, <1>4, <2>1
    <3>2. i # 1 /\ file[i - 1] # EndOfLine
      BY <3>1 DEF NoEmpty
    <3>3. i - 1 \in 1 .. Len(file)
      BY <1>1, <3>1, <3>2
    <3> QED BY <3>2, <3>3
  <2>2. CASE i > Len(file)
    <3> DEFINE k == i - Len(file)
    <3>1. k \in 1 .. m /\ i = Len(file) + k /\ n + k \in 1 .. Len(p) /\ k >= 1 /\ k \in Nat
      BY <1>1, <2>2
    <3> HIDE DEF k
    <3>a. new[i] = p[n + k]
      BY <1>3, <3>1
    <3>2. n + k # 1 /\ p[n + k - 1] # EndOfLine
      BY <1>1, <1>4, <3>1, <3>a DEF NoEmpty
    <3>3. CASE k > 1
      <4>1. k - 1 \in 1 .. m /\ Len(file) + (k - 1) = i - 1 /\ n + (k - 1) = n + k - 1 /\ i # 1
        BY <1>1, <3>1, <3>3
      <4>2. new[i - 1] = p[n + k - 1]
        BY <1>3, <4>1
      <4> QED BY <3>2, <4>1, <4>2
    <3>4. CASE k = 1
      <4>1. n >= 1 /\ n \in 1 .. n /\ Len(file) - n + n = i - 1 /\ i - 1 \in 1 .. Len(file)
            /\ i # 1
        BY <1>1, <3>1, <3>2, <3>4
      <4>2. new[i - 1] = file[i - 1] /\ file[i - 1] = p[n]
        BY <1>2, <4>1
      <4>3. n + k - 1 = n
        BY <3>4
      <4> QED BY <3>2, <4>1, <4>2, <4>3
    <3> QED BY <3>1, <3>3, <3>4
  <2> QED BY <1>1, <2>1, <2>2
<1> QED BY <1>4 DEF NoEmpty

\* Without failures, after sending m more.
LEMMA TiledStays ==
  ASSUME NEW file \in Seq(Parts), NEW new \in Seq(Parts), NEW m \in Nat,
         Len(new) = Len(file) + m, \A i \in 1 .. Len(file) : new[i] = file[i],
         NEW docs \in Seq(Accepted), NEW n \in Nat, Tiled(file, docs, n)
  PROVE  Tiled(new, docs, n + m)
<1> SUFFICES ASSUME \A i \in 1 .. Len(docs) : OneLine(docs[i])
             PROVE  /\ Len(new) = 3 * Len(docs) + (n + m)
                    /\ \A i \in 1 .. Len(docs) : Lies(new, 3 * (i - 1), docs[i])
  BY DEF Tiled
<1>1. /\ Len(file) = 3 * Len(docs) + n
      /\ \A i \in 1 .. Len(docs) : Lies(file, 3 * (i - 1), docs[i])
  BY DEF Tiled
<1>2. Len(file) \in Nat /\ Len(docs) \in Nat
  OBVIOUS
<1>3. ASSUME NEW i \in 1 .. Len(docs) PROVE Lies(new, 3 * (i - 1), docs[i])
  <2>1. docs[i] \in Accepted /\ 3 * (i - 1) \in Nat /\ Lies(file, 3 * (i - 1), docs[i])
    BY <1>1, ElementOfSeq
  <2>2. Len(file) <= Len(new)
    BY <1>2
  <2> QED BY <2>1, <2>2, LiesStays
<1> QED BY <1>1, <1>2, <1>3

\* The last n pieces of the file are the first of the record of d.
Holds(file, docs, count, d, n) ==
  /\ file \in Seq(Parts) /\ NoEmpty(file) /\ docs \in Seq(Accepted)
  /\ n <= Len(file)
  /\ \A k \in 1 .. n : file[Len(file) - n + k] = Pieces(d)[k]
  /\ Placed(file, docs, n)
  /\ count = 0 => Tiled(file, docs, n)

\* A command sends m more pieces of its record and goes on.
LEMMA SendingStays ==
  ASSUME NEW file, NEW docs, NEW count, NEW d \in Accepted, NEW n \in Nat, NEW m \in Nat,
         Holds(file, docs, count, d, n), n + m <= Len(Pieces(d)),
         NEW new, new = Sent(file, d, n, m)
  PROVE  /\ Holds(new, docs, count, d, n + m)
         /\ Placed(new, docs, 0)
<1>0. /\ file \in Seq(Parts) /\ NoEmpty(file) /\ docs \in Seq(Accepted)
      /\ n <= Len(file)
      /\ \A k \in 1 .. n : file[Len(file) - n + k] = Pieces(d)[k]
      /\ Placed(file, docs, n)
      /\ count = 0 => Tiled(file, docs, n)
  BY DEF Holds
<1>1. /\ new \in Seq(Parts) /\ Len(new) = Len(file) + m
      /\ \A i \in 1 .. Len(file) : new[i] = file[i]
      /\ \A k \in 1 .. m : new[Len(file) + k] = Pieces(d)[n + k]
  <2>1. Grown(file, new, d, n, m)
    BY <1>0, Sending
  <2> QED BY <2>1 DEF Grown
<1>2. NoEmpty(new)
  BY <1>0, <1>1, NoEmptyStays
<1>3. Len(file) \in Nat
  BY <1>0
<1>4. ASSUME NEW k \in 1 .. n + m PROVE new[Len(new) - (n + m) + k] = Pieces(d)[k]
  <2>1. CASE k <= n
    <3>1. k \in 1 .. n /\ Len(file) - n + k \in 1 .. Len(file)
          /\ Len(new) - (n + m) + k = Len(file) - n + k
      BY <1>0, <1>1, <1>3, <2>1
    <3> QED BY <1>0, <1>1, <3>1
  <2>2. CASE k > n
    <3>1. k - n \in 1 .. m /\ Len(new) - (n + m) + k = Len(file) + (k - n)
          /\ n + (k - n) = k
      BY <1>1, <1>3, <2>2
    <3> QED BY <1>1, <3>1
  <2>3. k <= n \/ k > n
    OBVIOUS
  <2> QED BY <2>1, <2>2, <2>3, Zenon
<1>5. ASSUME NEW o \in Nat, o <= n + m PROVE Placed(new, docs, o)
  BY <1>0, <1>1, <1>5, PlacedStays
<1>6. ASSUME count = 0 PROVE Tiled(new, docs, n + m)
  BY <1>0, <1>1, <1>6, TiledStays
<1>7. n + m \in Nat /\ n + m <= Len(new) /\ 0 <= n + m /\ n + m <= n + m
  BY <1>0, <1>1, <1>3
<1>8. Placed(new, docs, n + m) /\ Placed(new, docs, 0)
  BY <1>5, <1>7
<1> QED BY <1>0, <1>1, <1>2, <1>4, <1>6, <1>7, <1>8 DEF Holds

\* A record the command sent to its end is one more.
LEMMA PlacedAdds ==
  ASSUME NEW file \in Seq(Parts), NEW docs \in Seq(Accepted), NEW d \in Accepted,
         Len(Pieces(d)) <= Len(file),
         \A k \in 1 .. Len(Pieces(d)) :
            file[Len(file) - Len(Pieces(d)) + k] = Pieces(d)[k]
  PROVE  /\ Placed(file, docs, Len(Pieces(d))) => Placed(file, Append(docs, d), 0)
         /\ Tiled(file, docs, Len(Pieces(d))) => Tiled(file, Append(docs, d), 0)
<1> DEFINE l == Len(Pieces(d))
           N == Len(docs)
           more == Append(docs, d)
           at == Len(file) - l
<1>1. /\ more \in Seq(Accepted) /\ Len(more) = N + 1 /\ N \in Nat
      /\ more[N + 1] = d /\ \A i \in 1 .. N : more[i] = docs[i]
  OBVIOUS
<1>2. l \in Nat /\ Len(file) \in Nat /\ at \in Nat /\ (OneLine(d) => l = 3) /\ l > 0
  BY PiecesAre
<1>3. Lies(file, at, d)
  BY <1>2 DEF Lies
<1>4. ASSUME Placed(file, docs, l) PROVE Placed(file, more, 0)
  <2>1. PICK place : place \in [1 .. N -> Nat] /\ PlacedAt(place, file, docs, l)
    BY <1>4 DEF Placed
  <2> DEFINE new == [i \in 1 .. N + 1 |-> IF i = N + 1 THEN at ELSE place[i]]
  <2>2. new \in [1 .. N + 1 -> Nat]
    BY <1>1, <1>2, <2>1
  <2>3. new[N + 1] = at /\ \A i \in 1 .. N : new[i] = place[i]
    BY <1>1
  <2> HIDE DEF new, more, at, N
  <2>4. ASSUME NEW i \in 1 .. N
        PROVE  /\ place[i] \in Nat /\ Lies(file, place[i], docs[i])
               /\ Len(Pieces(docs[i])) \in Nat
               /\ place[i] + Len(Pieces(docs[i])) <= at
    <3>1. docs[i] \in Accepted
      BY ElementOfSeq DEF N
    <3>2. Len(Pieces(docs[i])) \in Nat
      BY <3>1, PiecesAre
    <3> QED BY <2>1, <3>2 DEF PlacedAt, N, at
  <2>5. ASSUME NEW i \in 1 .. N + 1
        PROVE  /\ new[i] \in Nat /\ Lies(file, new[i], more[i])
               /\ new[i] + Len(Pieces(more[i])) <= Len(file) - 0
    <3>1. CASE i = N + 1
      <4>1. at + l <= Len(file) - 0
        BY <1>2 DEF at
      <4> QED BY <1>1, <1>2, <1>3, <2>3, <3>1, <4>1
    <3>2. CASE i # N + 1
      <4>1. i \in 1 .. N
        BY <1>1, <3>2
      <4>2. at <= Len(file) /\ at \in Nat
        BY <1>2 DEF at
      <4>3. new[i] = place[i] /\ more[i] = docs[i]
        BY <1>1, <2>3, <4>1
      <4>4. /\ place[i] \in Nat /\ Lies(file, place[i], docs[i])
            /\ Len(Pieces(docs[i])) \in Nat
            /\ place[i] + Len(Pieces(docs[i])) <= at
        BY <2>4, <4>1
      <4>5. place[i] + Len(Pieces(docs[i])) <= Len(file) - 0
        BY <1>2, <4>2, <4>4
      <4> QED BY <4>3, <4>4, <4>5, Zenon
    <3> QED BY <3>1, <3>2
  <2>6. ASSUME NEW i \in 1 .. N + 1, NEW j \in 1 .. N + 1, i < j
        PROVE  new[i] + Len(Pieces(more[i])) <= new[j]
    <3>1. i \in 1 .. N
      BY <1>1, <2>6
    <3>2. CASE j = N + 1
      BY <1>1, <2>3, <2>4, <3>1, <3>2
    <3>3. CASE j # N + 1
      <4>1. j \in 1 .. N
        BY <1>1, <3>3
      <4>2. place[i] + Len(Pieces(docs[i])) <= place[j]
        BY <2>1, <2>6, <3>1, <4>1 DEF PlacedAt, N
      <4> QED BY <1>1, <2>3, <3>1, <4>1, <4>2
    <3> QED BY <3>2, <3>3
  <2>7. PlacedAt(new, file, more, 0)
    BY <1>1, <2>5, <2>6 DEF PlacedAt
  <2> QED BY <1>1, <2>2, <2>7 DEF Placed
<1>5. ASSUME Tiled(file, docs, l) PROVE Tiled(file, more, 0)
  <2> HIDE DEF more, at, N, l
  <2> SUFFICES ASSUME \A i \in 1 .. N + 1 : OneLine(more[i])
               PROVE  /\ Len(file) = 3 * (N + 1) + 0
                      /\ \A i \in 1 .. N + 1 : Lies(file, 3 * (i - 1), more[i])
    BY <1>1 DEF Tiled
  <2>1. OneLine(d) /\ \A i \in 1 .. N : OneLine(docs[i])
    <3>1. N + 1 \in 1 .. N + 1 /\ \A i \in 1 .. N : i \in 1 .. N + 1
      BY <1>1
    <3> QED BY <1>1, <3>1
  <2>2. /\ Len(file) = 3 * N + l
        /\ \A i \in 1 .. N : Lies(file, 3 * (i - 1), docs[i])
    BY <1>5, <2>1 DEF Tiled, N
  <2>3. at = 3 * N
    BY <1>1, <1>2, <2>1, <2>2 DEF at
  <2>4. ASSUME NEW i \in 1 .. N + 1 PROVE Lies(file, 3 * (i - 1), more[i])
    <3>1. CASE i = N + 1
      <4>1. 3 * (i - 1) = at
        BY <1>1, <2>3, <3>1
      <4> QED BY <1>1, <1>3, <3>1, <4>1
    <3>2. CASE i # N + 1
      <4>1. i \in 1 .. N
        BY <1>1, <3>2
      <4> QED BY <1>1, <2>2, <4>1
    <3> QED BY <3>1, <3>2
  <2> QED BY <1>1, <1>2, <2>1, <2>2, <2>4
<1> QED BY <1>4, <1>5

-----------------------------------------------------------------------------
(* The steps of the commands                                               *)

LEMMA Running ==
  ASSUME NEW w, NEW file, NEW n \in Nat, InHand(w, file, n), w # Idle
  PROVE  \E d \in Accepted :
           /\ w = [status |-> w.status, document |-> d, buffer |-> Rest(d, n)]
           /\ w.status \in {"open", "closing"}
           /\ w.status = "open" => n = 0
           /\ n \in 0 .. Len(Pieces(d)) /\ n <= Len(file)
           /\ \A k \in 1 .. n : file[Len(file) - n + k] = Pieces(d)[k]
<1>1. PICK d \in Accepted :
        /\ \/ w = [status |-> "open", document |-> d, buffer |-> Rest(d, n)] /\ n = 0
           \/ /\ w = [status |-> "closing", document |-> d, buffer |-> Rest(d, n)]
              /\ n = 0 \/ n = Len(Pieces(d)) - 2
        /\ n <= Len(file)
        /\ \A k \in 1 .. n : file[Len(file) - n + k] = Pieces(d)[k]
  BY DEF InHand
<1>2. Len(Pieces(d)) \in Nat
  BY PiecesAre
<1>3. n \in 0 .. Len(Pieces(d))
  BY <1>1, <1>2
<1>4. CASE w = [status |-> "open", document |-> d, buffer |-> Rest(d, n)] /\ n = 0
  BY <1>1, <1>3, <1>4
<1>5. CASE w = [status |-> "closing", document |-> d, buffer |-> Rest(d, n)]
  BY <1>1, <1>3, <1>5
<1> QED BY <1>1, <1>4, <1>5

LEMMA StoreStart == StoreOK(<<>>, Idle, <<>>, 0)
<1>1. <<>> \in Seq(Parts) /\ <<>> \in Seq(Accepted) /\ Len(<<>>) = 0 /\ NoEmpty(<<>>)
  BY DEF NoEmpty
<1>2. Placed(<<>>, <<>>, 0)
  <2> DEFINE place == [i \in 1 .. 0 |-> 0]
  <2>1. place \in [1 .. 0 -> Nat] /\ PlacedAt(place, <<>>, <<>>, 0)
    BY <1>1 DEF PlacedAt
  <2> QED BY <1>1, <2>1 DEF Placed
<1>3. Tiled(<<>>, <<>>, 0)
  BY <1>1 DEF Tiled
<1>4. InHand(Idle, <<>>, 0)
  BY DEF InHand
<1> QED BY <1>1, <1>2, <1>3, <1>4 DEF StoreOK

\* The command takes a document.
LEMMA StoreIngest ==
  ASSUME NEW file, NEW docs, NEW count, NEW d \in Accepted,
         StoreOK(file, Idle, docs, count)
  PROVE  StoreOK(file, [status |-> "open", document |-> d, buffer |-> Pieces(d)], docs, count)
<1> DEFINE w == [status |-> "open", document |-> d, buffer |-> Pieces(d)]
<1>1. /\ file \in Seq(Parts) /\ NoEmpty(file) /\ docs \in Seq(Accepted)
  BY DEF StoreOK
<1>2. PICK n \in Nat : /\ InHand(Idle, file, n) /\ Placed(file, docs, n)
                       /\ count = 0 => Tiled(file, docs, n)
  BY DEF StoreOK
<1>3. n = 0
  BY <1>2 DEF InHand, Idle
<1>4. Rest(d, 0) = Pieces(d)
  <2>1. Pieces(d) \in Seq(Parts)
    BY PiecesAre
  <2>2. Rest(d, 0) = SubSeq(Pieces(d), 1, Len(Pieces(d)))
    BY DEF Rest
  <2> QED BY <2>1, <2>2, SubSeqFull
<1>5. Len(file) \in Nat
  BY <1>1
<1>6. InHand(w, file, 0)
  BY <1>4, <1>5 DEF InHand
<1> HIDE DEF w
<1>7. 0 \in Nat
  OBVIOUS
<1>8. StoreOK(file, w, docs, count)
  BY <1>1, <1>2, <1>3, <1>6, <1>7 DEF StoreOK
<1> QED BY <1>8 DEF w

\* append_observation_jsonl: some of the record, and the rest stays.
LEMMA StoreAppend ==
  ASSUME NEW file, NEW docs, NEW count, NEW w, StoreOK(file, w, docs, count),
         w.status = "open", NEW m \in {0, Len(w.buffer) - 2}
  PROVE  StoreOK(file \o SubSeq(w.buffer, 1, m),
                 [w EXCEPT !.status = "closing",
                           !.buffer = SubSeq(@, m + 1, Len(@))], docs, count)
<1>1. /\ file \in Seq(Parts) /\ NoEmpty(file) /\ docs \in Seq(Accepted)
  BY DEF StoreOK
<1>2. PICK n \in Nat : /\ InHand(w, file, n) /\ Placed(file, docs, n)
                       /\ count = 0 => Tiled(file, docs, n)
  BY DEF StoreOK
<1>3. w # Idle
  BY DEF Idle
<1>4. PICK d \in Accepted :
        /\ w = [status |-> w.status, document |-> d, buffer |-> Rest(d, n)]
        /\ n = 0
  BY <1>2, <1>3, Running
<1>5. /\ Pieces(d) \in Seq(Parts) /\ Len(Pieces(d)) \in {3, 5}
  BY PiecesAre
<1>6. /\ Rest(d, 0) = Pieces(d)
  <2>1. Rest(d, 0) = SubSeq(Pieces(d), 1, Len(Pieces(d)))
    BY DEF Rest
  <2> QED BY <1>5, <2>1, SubSeqFull
<1>7. w.buffer = Pieces(d) /\ n = 0
  BY <1>4, <1>6
<1>8. m \in Nat /\ 0 + m <= Len(Pieces(d)) /\ (m = 0 \/ m = Len(Pieces(d)) - 2)
  <2>1. m = 0 \/ m = Len(Pieces(d)) - 2
    BY <1>7
  <2> DEFINE l == Len(Pieces(d))
  <2>2. l = 3 \/ l = 5
    BY <1>5
  <2>3. m = 0 \/ m = l - 2
    BY <2>1
  <2> HIDE DEF l
  <2>4. m \in Nat /\ 0 + m <= l
    BY <2>2, <2>3
  <2> QED BY <2>3, <2>4 DEF l
<1> DEFINE new == file \o SubSeq(w.buffer, 1, m)
           v == [w EXCEPT !.status = "closing", !.buffer = SubSeq(@, m + 1, Len(@))]
<1>9. new = Sent(file, d, 0, m)
  BY <1>6, <1>7 DEF Sent
<1>10. v = [status |-> "closing", document |-> d, buffer |-> Rest(d, m)]
  <2>1. v = [w EXCEPT !.status = "closing", !.buffer = Rest(d, m)]
    BY <1>7 DEF Rest
  <2>2. w = [status |-> "open", document |-> d, buffer |-> Rest(d, n)]
    BY <1>4
  <2> HIDE DEF v, new
  <2> QED BY <2>1, <2>2
<1> HIDE DEF new, v
<1>11. Len(file) \in Nat
  BY <1>1
<1>12. Holds(file, docs, count, d, 0)
  <2>1. 0 <= Len(file) /\ \A k \in 1 .. 0 : file[Len(file) - 0 + k] = Pieces(d)[k]
    BY <1>11
  <2> QED BY <1>1, <1>2, <1>7, <2>1 DEF Holds
<1>13. Holds(new, docs, count, d, m)
  <2>1. Holds(new, docs, count, d, 0 + m)
    BY <1>8, <1>9, <1>12, SendingStays
  <2>2. 0 + m = m
    BY <1>8
  <2> QED BY <2>1, <2>2
<1>15. InHand(v, new, m)
  BY <1>8, <1>10, <1>13 DEF InHand, Holds
<1>17. StoreOK(new, v, docs, count)
  BY <1>8, <1>13, <1>15 DEF StoreOK, Holds
<1> QED BY <1>17 DEF new, v

\* The command fails or is killed, with m more of its pieces in the file.
LEMMA StoreFails ==
  ASSUME NEW file, NEW docs, NEW count, NEW w, StoreOK(file, w, docs, count),
         w # Idle, NEW m \in 0 .. Len(w.buffer), NEW more \in Nat, more # 0
  PROVE  StoreOK(file \o SubSeq(w.buffer, 1, m), Idle, docs, more)
<1>1. /\ file \in Seq(Parts) /\ NoEmpty(file) /\ docs \in Seq(Accepted)
  BY DEF StoreOK
<1>2. PICK n \in Nat : /\ InHand(w, file, n) /\ Placed(file, docs, n)
                       /\ count = 0 => Tiled(file, docs, n)
  BY DEF StoreOK
<1>3. PICK d \in Accepted :
        /\ w = [status |-> w.status, document |-> d, buffer |-> Rest(d, n)]
        /\ n \in 0 .. Len(Pieces(d)) /\ n <= Len(file)
        /\ \A k \in 1 .. n : file[Len(file) - n + k] = Pieces(d)[k]
  BY <1>2, Running
<1>4. w.buffer = Rest(d, n)
  BY <1>3
<1>5. Len(w.buffer) = Len(Pieces(d)) - n /\ Len(Pieces(d)) \in Nat
  BY <1>3, <1>4, RestIs, PiecesAre
<1>6. m \in Nat /\ n + m <= Len(Pieces(d))
  BY <1>5
<1> DEFINE new == file \o SubSeq(w.buffer, 1, m)
<1>7. new = Sent(file, d, n, m)
  BY <1>4 DEF Sent
<1> HIDE DEF new
<1>8. Holds(new, docs, count, d, n + m) /\ Placed(new, docs, 0)
  <2>1. Holds(file, docs, count, d, n)
    BY <1>1, <1>2, <1>3 DEF Holds
  <2> QED BY <1>6, <1>7, <2>1, SendingStays
<1>9. InHand(Idle, new, 0) /\ 0 \in Nat
  BY DEF InHand
<1>10. StoreOK(new, Idle, docs, more)
  BY <1>8, <1>9 DEF StoreOK, Holds
<1> QED BY <1>10 DEF new

\* The command ends.
LEMMA StoreClose ==
  ASSUME NEW file, NEW docs, NEW count, NEW w, StoreOK(file, w, docs, count),
         w.status = "closing"
  PROVE  /\ StoreOK(file \o SubSeq(w.buffer, 1, Len(w.buffer)), Idle,
                    Append(docs, w.document), count)
         /\ w.document \in Accepted
<1>1. /\ file \in Seq(Parts) /\ NoEmpty(file) /\ docs \in Seq(Accepted)
  BY DEF StoreOK
<1>2. PICK n \in Nat : /\ InHand(w, file, n) /\ Placed(file, docs, n)
                       /\ count = 0 => Tiled(file, docs, n)
  BY DEF StoreOK
<1>3. w # Idle
  BY DEF Idle
<1>4. PICK d \in Accepted :
        /\ w = [status |-> w.status, document |-> d, buffer |-> Rest(d, n)]
        /\ n \in 0 .. Len(Pieces(d)) /\ n <= Len(file)
        /\ \A k \in 1 .. n : file[Len(file) - n + k] = Pieces(d)[k]
  BY <1>2, <1>3, Running
<1>5. w.buffer = Rest(d, n) /\ w.document = d
  BY <1>4
<1> DEFINE m == Len(w.buffer)
           l == Len(Pieces(d))
           new == file \o SubSeq(w.buffer, 1, m)
           more == Append(docs, d)
<1>6. m = l - n /\ l \in Nat
  BY <1>4, <1>5, RestIs, PiecesAre
<1>7. new = Sent(file, d, n, m)
  BY <1>5 DEF Sent
<1> HIDE DEF new, m
<1>8. m \in Nat /\ n + m = l
  BY <1>4, <1>6
<1>9. Holds(new, docs, count, d, l)
  <2>1. n + m <= Len(Pieces(d))
    BY <1>6, <1>8
  <2>2. Holds(file, docs, count, d, n)
    BY <1>1, <1>2, <1>4 DEF Holds
  <2>3. Holds(new, docs, count, d, n + m)
    BY <1>7, <1>8, <2>1, <2>2, SendingStays
  <2> QED BY <1>8, <2>3
<1>11. /\ new \in Seq(Parts) /\ NoEmpty(new)
       /\ l <= Len(new) /\ \A k \in 1 .. l : new[Len(new) - l + k] = Pieces(d)[k]
       /\ Placed(new, docs, l) /\ (count = 0 => Tiled(new, docs, l))
  BY <1>9 DEF Holds
<1>13. Placed(new, more, 0) /\ (count = 0 => Tiled(new, more, 0))
  BY <1>1, <1>11, PlacedAdds
<1>14. more \in Seq(Accepted) /\ InHand(Idle, new, 0) /\ 0 \in Nat
  BY <1>1 DEF InHand
<1> HIDE DEF more
<1>15. StoreOK(new, Idle, more, count)
  BY <1>11, <1>13, <1>14 DEF StoreOK
<1> QED BY <1>5, <1>15 DEF new, more, m

LEMMA InductiveStart == Init => IInv
<1> SUFFICES ASSUME Init PROVE IInv
  OBVIOUS
<1>1. failed \in 0 .. MaxFailures /\ manifest \in Seq(ManifestLines)
  BY LimitAssumption DEF Init
<1>2. StoreOK(history, writer, acknowledged, failed)
  BY StoreStart DEF Init
<1> QED BY <1>1, <1>2 DEF IInv

LEMMA Inductive == IInv /\ [Next]_vars => IInv'
<1> SUFFICES ASSUME IInv, [Next]_vars PROVE IInv'
  OBVIOUS
<1>1. /\ StoreOK(history, writer, acknowledged, failed)
      /\ failed \in 0 .. MaxFailures /\ manifest \in Seq(ManifestLines)
      /\ failed \in Nat
  BY LimitAssumption DEF IInv
<1>2. ASSUME NEW d \in Documents, Ingest(d) PROVE IInv'
  <2>1. StoreOK(history, Idle, acknowledged, failed) /\ d \in Accepted
    BY <1>1, <1>2 DEF Ingest
  <2>2. StoreOK(history, [status |-> "open", document |-> d, buffer |-> Pieces(d)],
                acknowledged, failed)
    BY <2>1, StoreIngest
  <2>3. StoreOK(history, writer, acknowledged, failed)'
    BY <1>2, <2>2 DEF Ingest
  <2> QED BY <1>1, <1>2, <2>3 DEF IInv, Ingest
<1>3. ASSUME AppendRecord PROVE IInv'
  <2>1. PICK m \in {0, Len(writer.buffer) - 2} :
          /\ Flush(m)
          /\ writer' = [writer EXCEPT !.status = "closing",
                                      !.buffer = SubSeq(@, m + 1, Len(@))]
    BY <1>3 DEF AppendRecord
  <2>2. StoreOK(history \o SubSeq(writer.buffer, 1, m),
                [writer EXCEPT !.status = "closing",
                               !.buffer = SubSeq(@, m + 1, Len(@))], acknowledged, failed)
    BY <1>1, <1>3, StoreAppend DEF AppendRecord
  <2>3. StoreOK(history, writer, acknowledged, failed)'
    BY <1>3, <2>1, <2>2, Zenon DEF AppendRecord, Flush
  <2> QED BY <1>1, <1>3, <2>3 DEF IInv, AppendRecord
<1>4. ASSUME NEW m \in 0 .. Len(writer.buffer), writer # Idle, Flush(m), writer' = Idle,
             failed < MaxFailures, failed' = failed + 1,
             acknowledged' = acknowledged, manifest' = manifest
      PROVE  IInv'
  <2>1. failed + 1 \in Nat /\ failed + 1 # 0 /\ failed + 1 \in 0 .. MaxFailures
    BY <1>1, <1>4, LimitAssumption
  <2>2. StoreOK(history \o SubSeq(writer.buffer, 1, m), Idle, acknowledged, failed + 1)
    BY <1>1, <1>4, <2>1, StoreFails
  <2>3. StoreOK(history, writer, acknowledged, failed)'
    BY <1>4, <2>2, Zenon DEF Flush
  <2> QED BY <1>1, <1>4, <2>1, <2>3 DEF IInv
<1>5. ASSUME writer # Idle PROVE Len(writer.buffer) \in Nat
  <2>1. PICK n \in Nat : InHand(writer, history, n)
    BY <1>1 DEF StoreOK
  <2>2. PICK d \in Accepted :
          /\ writer = [status |-> writer.status, document |-> d, buffer |-> Rest(d, n)]
          /\ n \in 0 .. Len(Pieces(d))
    BY <1>5, <2>1, Running
  <2>3. writer.buffer = Rest(d, n) /\ Rest(d, n) \in Seq(Parts)
    BY <2>2, RestIs
  <2> QED BY <2>3
<1>6. ASSUME AppendFails PROVE IInv'
  <2>1. writer # Idle
    BY <1>6 DEF AppendFails, Idle
  <2>2. PICK m \in 0 .. (Len(writer.buffer) - 2) : Flush(m)
    BY <1>6 DEF AppendFails
  <2>3. m \in 0 .. Len(writer.buffer)
    BY <1>5, <2>1
  <2> QED BY <1>4, <1>6, <2>1, <2>2, <2>3 DEF AppendFails
<1>7. ASSUME Close PROVE IInv'
  <2>1. /\ StoreOK(history \o SubSeq(writer.buffer, 1, Len(writer.buffer)), Idle,
                   Append(acknowledged, writer.document), failed)
    BY <1>1, <1>7, StoreClose DEF Close
  <2>2. StoreOK(history, writer, acknowledged, failed)'
    BY <1>7, <2>1, Zenon DEF Close, Flush
  <2> QED BY <1>1, <1>7, <2>2 DEF IInv, Close
<1>8. ASSUME CloseFails PROVE IInv'
  <2>1. writer # Idle
    BY <1>8 DEF CloseFails, Idle
  <2>2. PICK m \in 0 .. (Len(writer.buffer) - 1) : Flush(m)
    BY <1>8 DEF CloseFails
  <2>3. m \in 0 .. Len(writer.buffer)
    BY <1>5, <2>1
  <2> QED BY <1>4, <1>8, <2>1, <2>2, <2>3 DEF CloseFails
<1>9. ASSUME Kill PROVE IInv'
  <2>1. writer # Idle /\ history' = history
    BY <1>9 DEF Kill
  <2>2. Flush(0) /\ 0 \in 0 .. Len(writer.buffer)
    <3>1. SubSeq(writer.buffer, 1, 0) = <<>> /\ 0 \in 0 .. Len(writer.buffer)
      BY <1>5, <2>1, SubSeqEmpty
    <3>2. history \o <<>> = history
      <4>1. history \in Seq(Parts)
        BY <1>1 DEF StoreOK
      <4> QED BY <4>1, ConcatEmptySeq
    <3> QED BY <2>1, <3>1, <3>2 DEF Flush
  <2> QED BY <1>4, <1>9, <2>1, <2>2 DEF Kill
<1>10. ASSUME NEW l \in ManifestLines, AddTarget(l) PROVE IInv'
  <2>1. manifest' = Append(manifest, l) /\ manifest' \in Seq(ManifestLines)
    BY <1>1, <1>10 DEF AddTarget
  <2>2. StoreOK(history, writer, acknowledged, failed)'
    BY <1>1, <1>10 DEF AddTarget
  <2> QED BY <1>1, <1>10, <2>1, <2>2 DEF IInv, AddTarget
<1>11. ASSUME UNCHANGED vars PROVE IInv'
  BY <1>1, <1>11 DEF IInv, vars
<1> QED BY <1>2, <1>3, <1>6, <1>7, <1>8, <1>9, <1>10, <1>11 DEF Next

LEMMA InvariantHolds == Spec => []IInv
<1> QED BY InductiveStart, Inductive, PTL DEF Spec

LEMMA TypeFollows == IInv => TypeOK
<1> SUFFICES ASSUME IInv PROVE TypeOK
  OBVIOUS
<1>1. /\ history \in Seq(Parts) /\ acknowledged \in Seq(Accepted)
      /\ failed \in 0 .. MaxFailures /\ manifest \in Seq(ManifestLines)
  BY DEF IInv, StoreOK
<1>2. ASSUME NEW i \in DOMAIN history
      PROVE  history[i] = EndOfLine \/ history[i].of \in Accepted
  <2>1. history[i] \in Parts
    BY <1>1
  <2> QED BY <2>1 DEF Parts
<1>3. ASSUME writer # Idle
      PROVE  /\ writer.status \in {"open", "closing"}
             /\ writer.document \in Accepted
             /\ \E n \in 0 .. Len(Pieces(writer.document)) :
                   writer.buffer = SubSeq(Pieces(writer.document), n + 1,
                                          Len(Pieces(writer.document)))
  <2>1. PICK n \in Nat : InHand(writer, history, n)
    BY DEF IInv, StoreOK
  <2>2. PICK d \in Accepted :
          /\ writer = [status |-> writer.status, document |-> d, buffer |-> Rest(d, n)]
          /\ writer.status \in {"open", "closing"}
          /\ n \in 0 .. Len(Pieces(d))
    BY <1>3, <2>1, Running
  <2>3. writer.document = d /\ writer.buffer = Rest(d, n)
    BY <2>2
  <2> QED BY <2>2, <2>3 DEF Rest
<1> QED BY <1>1, <1>2, <1>3 DEF TypeOK

LEMMA ManifestFollows == IInv => ManifestIsExact
<1> SUFFICES ASSUME IInv PROVE ManifestIsExact
  OBVIOUS
<1> DEFINE N == Len(manifest)
           r == read_target_manifest(manifest)
           filled == {i \in DOMAIN manifest : manifest[i].members # <<>>}
           bad == {i \in filled : \/ ~record(manifest[i])
                                  \/ Cardinality({j \in filled : j < i}) >= MaxManifest}
           of(k) == Cardinality({i \in filled : manifest[i].kind = k})
<1>1. manifest \in Seq(ManifestLines) /\ N \in Nat /\ DOMAIN manifest = 1 .. N
  BY DEF IInv
<1>2. TargetsRead(r, manifest, N)
  BY <1>1, ManifestRead
<1>3. filled = Filled(manifest, N)
  BY <1>1 DEF Filled
<1>4. ASSUME NEW kind PROVE of(kind) = Cardinality(OfKind(manifest, N, kind))
  BY <1>3 DEF OfKind
<1>5. ASSUME NEW i \in 1 .. N PROVE i \in bad <=> ~Fits(manifest, i)
  <2>1. {j \in filled : j < i} = Filled(manifest, i - 1)
    BY <1>1 DEF Filled
  <2>2. i - 1 \in Nat
    OBVIOUS
  <2>3. Cardinality(Filled(manifest, i - 1)) \in Nat /\ MaxManifest \in Nat
    BY <2>2, FilledStep, LimitAssumption
  <2>4. i \in filled <=> manifest[i].members # <<>>
    BY <1>1
  <2>5. i \in bad <=> /\ i \in filled
                      /\ \/ ~record(manifest[i])
                         \/ Cardinality({j \in filled : j < i}) >= MaxManifest
    BY Zenon
  <2> HIDE DEF filled, bad
  <2>6. (~record(manifest[i]) \/ Cardinality({j \in filled : j < i}) >= MaxManifest)
          <=> ~(record(manifest[i]) /\ Cardinality(Filled(manifest, i - 1)) < MaxManifest)
    <3>1. Cardinality(Filled(manifest, i - 1)) >= MaxManifest
            <=> ~(Cardinality(Filled(manifest, i - 1)) < MaxManifest)
      BY <2>3
    <3>2. Cardinality({j \in filled : j < i}) = Cardinality(Filled(manifest, i - 1))
      BY <2>1
    <3> QED BY <3>1, <3>2, Zenon
  <2> QED BY <2>4, <2>5, <2>6 DEF Fits
<1>6. bad \subseteq 1 .. N
  BY <1>1
<1> HIDE DEF bad, r, N, filled, of
<1>7. r.error \in Nat
  BY <1>2 DEF TargetsRead, IsSummary
<1>8. CASE r.error = 0
  <2>1. /\ \A i \in 1 .. N : Fits(manifest, i)
        /\ r.records = Cardinality(filled)
        /\ r.local = of("local_package") /\ r.remote = of("remote_endpoint")
    BY <1>2, <1>3, <1>4, <1>8 DEF TargetsRead
  <2>2. bad = {}
    BY <1>5, <1>6, <2>1
  <2> QED BY <1>8, <2>1, <2>2 DEF ManifestIsExact, bad, filled, of, r
<1>9. CASE r.error # 0
  <2>1. /\ r.error \in 1 .. N /\ ~Fits(manifest, r.error)
        /\ \A i \in 1 .. r.error - 1 : Fits(manifest, i)
    BY <1>2, <1>9 DEF TargetsRead
  <2>2. r.error \in bad
    BY <1>5, <2>1
  <2>3. ASSUME NEW i \in bad PROVE r.error <= i
    <3>1. i \in 1 .. N /\ ~Fits(manifest, i)
      BY <1>5, <1>6
    <3>2. i \notin 1 .. r.error - 1
      BY <2>1, <3>1
    <3> QED BY <1>7, <3>1, <3>2
  <2> QED BY <2>2, <2>3 DEF ManifestIsExact, bad, filled, r
<1> QED BY <1>8, <1>9

-----------------------------------------------------------------------------
(* The theorems                                                            *)

\* Every variable has its type: a command is between two of its steps, the file
\* holds pieces of the records of valid documents.
THEOREM TypeCorrect == Spec => []TypeOK
<1> QED BY InvariantHolds, TypeFollows, PTL

\* A manifest is refused at its first line that is no record or one too many,
\* and otherwise its counts are those of its lines, however long it is.
THEOREM ManifestExact == Spec => []ManifestIsExact
<1> QED BY InvariantHolds, ManifestFollows, PTL

-----------------------------------------------------------------------------
(* Records                                                                 *)

\* What a document and its record have in common.
LEMMA WrittenIs ==
  ASSUME NEW d \in Accepted
  PROVE  /\ d \in Document /\ read_observation(d)
         /\ Written[d] = [members |-> WrittenMembers, nested |-> 0,
                          version |-> d.version, at |-> d.at, target |-> d.target,
                          identity |-> d.identity, sensor |-> WrittenSensor,
                          inventory |-> compact_json(d.inventory)]
         /\ d.at \in Nat /\ d.at > 0 /\ d.target \in Targets
         /\ Written[d] # Missing
<1>1. d \in Document /\ read_observation(d)
  BY InputAssumption DEF Accepted
<1>2. d = [members |-> d.members, nested |-> d.nested, version |-> d.version,
           at |-> d.at, target |-> d.target, identity |-> d.identity,
           sensor |-> d.sensor, inventory |-> d.inventory]
      /\ d.at \in Nat /\ d.target \in Targets
  BY <1>1 DEF Document
<1>3. Written[d] = Normalized(d)
  BY DEF Written
<1>4. Written[d] = [members |-> WrittenMembers, nested |-> 0,
                    version |-> d.version, at |-> d.at, target |-> d.target,
                    identity |-> d.identity, sensor |-> WrittenSensor,
                    inventory |-> compact_json(d.inventory)]
  <2>1. Normalized(d) = [d EXCEPT !.members = WrittenMembers, !.nested = 0,
                                  !.sensor = WrittenSensor,
                                  !.inventory = compact_json(d.inventory)]
    BY DEF Normalized
  <2> QED BY <1>2, <1>3, <2>1
<1>5. d.at > 0
  BY <1>1 DEF read_observation, valid_utc_timestamp
<1>6. Written[d] # Missing
  <2>1. Written[d].at = d.at /\ Missing.at = 0
    BY <1>4 DEF Missing
  <2> QED BY <1>2, <1>5, <2>1
<1> QED BY <1>1, <1>2, <1>4, <1>5, <1>6

-----------------------------------------------------------------------------
(* Reading lines                                                           *)

\* How many lines end within the first n pieces.
EndsTo(file, n) == {i \in 1 .. n : file[i] = EndOfLine}
Ends(file, n) == Cardinality(EndsTo(file, n))

\* The line is what lies before piece p of the file.
EndsAt(line, file, p) ==
  /\ Len(line) < p
  /\ \A k \in 0 .. Len(line) - 1 : line[Len(line) - k] = file[p - 1 - k]

SplitOK(s, file, n) ==
  /\ s = [done |-> s.done, line |-> s.line]
  /\ s.done \in Seq(Seq(Parts)) /\ s.line \in Seq(Parts)
  /\ Len(s.done) = Ends(file, n)
  /\ EndsAt(s.line, file, n + 1)
  /\ s.line = <<>> => n = 0 \/ file[n] = EndOfLine
  /\ \A p \in 1 .. n : file[p] = EndOfLine =>
       /\ Ends(file, p) \in 1 .. Len(s.done)
       /\ EndsAt(s.done[Ends(file, p)], file, p)
  /\ \A i \in 1 .. Len(s.done) : s.done[i] # <<>>

LEMMA EndsIs ==
  ASSUME NEW file, NEW n \in Nat
  PROVE  /\ Ends(file, n) \in Nat
         /\ Ends(file, n + 1) = IF file[n + 1] = EndOfLine
                                THEN Ends(file, n) + 1 ELSE Ends(file, n)
<1>1. IsFiniteSet(EndsTo(file, n)) /\ Cardinality(EndsTo(file, n)) \in Nat
  <2>1. EndsTo(file, n) \subseteq 1 .. n /\ IsFiniteSet(1 .. n)
    BY FS_Interval DEF EndsTo
  <2> QED BY <2>1, FS_Subset, FS_CardinalityType
<1>2. CASE file[n + 1] = EndOfLine
  <2>1. EndsTo(file, n + 1) = EndsTo(file, n) \cup {n + 1} /\ n + 1 \notin EndsTo(file, n)
    BY <1>2 DEF EndsTo
  <2> QED BY <1>1, <1>2, <2>1, FS_AddElement DEF Ends
<1>3. CASE file[n + 1] # EndOfLine
  <2>1. EndsTo(file, n + 1) = EndsTo(file, n)
    BY <1>3 DEF EndsTo
  <2> QED BY <1>1, <1>3, <2>1 DEF Ends
<1> QED BY <1>1, <1>2, <1>3 DEF Ends

\* A later end has a greater number.
LEMMA EndsGrow ==
  ASSUME NEW file, NEW p \in Nat, NEW q \in Nat, p < q, file[q] = EndOfLine
  PROVE  Ends(file, p) < Ends(file, q)
<1>1. IsFiniteSet(EndsTo(file, q)) /\ IsFiniteSet(EndsTo(file, p))
  <2>1. /\ EndsTo(file, q) \subseteq 1 .. q /\ IsFiniteSet(1 .. q)
        /\ EndsTo(file, p) \subseteq 1 .. p /\ IsFiniteSet(1 .. p)
    BY FS_Interval DEF EndsTo
  <2> QED BY <2>1, FS_Subset
<1>2. EndsTo(file, p) \subseteq EndsTo(file, q) /\ EndsTo(file, p) # EndsTo(file, q)
  BY DEF EndsTo
<1> QED BY <1>1, <1>2, FS_Subset, FS_CardinalityType DEF Ends

LEMMA SplitStep ==
  ASSUME NEW file, NoEmpty(file), NEW n \in Nat, n + 1 \in 1 .. Len(file),
         file[n + 1] \in Parts,
         NEW s, SplitOK(s, file, n), NEW r, r = Split(s, file[n + 1])
  PROVE  SplitOK(r, file, n + 1)
<1>1. /\ s = [done |-> s.done, line |-> s.line]
      /\ s.done \in Seq(Seq(Parts)) /\ s.line \in Seq(Parts)
      /\ Len(s.done) = Ends(file, n)
      /\ EndsAt(s.line, file, n + 1)
      /\ s.line = <<>> => n = 0 \/ file[n] = EndOfLine
      /\ \A p \in 1 .. n : file[p] = EndOfLine =>
           /\ Ends(file, p) \in 1 .. Len(s.done)
           /\ EndsAt(s.done[Ends(file, p)], file, p)
      /\ \A i \in 1 .. Len(s.done) : s.done[i] # <<>>
  BY DEF SplitOK
<1>2. Len(s.done) \in Nat /\ Len(s.line) \in Nat /\ Ends(file, n) \in Nat
  BY <1>1, EndsIs
<1>3. CASE file[n + 1] = EndOfLine
  <2> DEFINE done == Append(s.done, s.line)
  <2>1. r = [done |-> done, line |-> <<>>]
    BY <1>3 DEF Split
  <2>2. /\ done \in Seq(Seq(Parts)) /\ Len(done) = Len(s.done) + 1
        /\ done[Len(s.done) + 1] = s.line
        /\ \A i \in 1 .. Len(s.done) : done[i] = s.done[i]
    BY <1>1
  <2>3. Ends(file, n + 1) = Ends(file, n) + 1
    BY <1>3, EndsIs
  <2>4. s.line # <<>>
    <3>1. n + 1 # 1 /\ file[(n + 1) - 1] # EndOfLine
      BY <1>3 DEF NoEmpty
    <3>2. n # 0 /\ (n + 1) - 1 = n
      BY <3>1
    <3> QED BY <1>1, <3>1, <3>2
  <2> HIDE DEF done
  <2>5. r.done = done /\ r.line = <<>>
    BY <2>1
  <2>6. EndsAt(<<>>, file, n + 1 + 1)
    BY DEF EndsAt
  <2>7. ASSUME NEW p \in 1 .. n + 1, file[p] = EndOfLine
        PROVE  /\ Ends(file, p) \in 1 .. Len(done)
               /\ EndsAt(done[Ends(file, p)], file, p)
    <3>1. CASE p = n + 1
      <4>1. Ends(file, p) = Len(s.done) + 1
        BY <1>1, <2>3, <3>1
      <4>2. Ends(file, p) \in 1 .. Len(done) /\ done[Ends(file, p)] = s.line
        BY <1>2, <2>2, <4>1
      <4> QED BY <1>1, <3>1, <4>2
    <3>2. CASE p # n + 1
      <4>1. p \in 1 .. n
        BY <3>2
      <4>2. /\ Ends(file, p) \in 1 .. Len(s.done)
            /\ EndsAt(s.done[Ends(file, p)], file, p)
        BY <1>1, <2>7, <4>1
      <4>3. Ends(file, p) \in 1 .. Len(done)
        BY <1>2, <2>2, <4>2
      <4> QED BY <2>2, <4>2, <4>3
    <3> QED BY <3>1, <3>2
  <2>8. ASSUME NEW i \in 1 .. Len(done) PROVE done[i] # <<>>
    <3>1. i \in 1 .. Len(s.done) \/ i = Len(s.done) + 1
      BY <1>2, <2>2
    <3> QED BY <1>1, <2>2, <2>4, <3>1
  <2>9. Len(done) = Ends(file, n + 1) /\ <<>> \in Seq(Parts)
    BY <1>1, <2>2, <2>3
  <2> QED BY <1>3, <2>1, <2>2, <2>5, <2>6, <2>7, <2>8, <2>9 DEF SplitOK
<1>4. CASE file[n + 1] # EndOfLine
  <2> DEFINE line == Append(s.line, file[n + 1])
  <2>1. r = [done |-> s.done, line |-> line]
    BY <1>4 DEF Split
  <2>2. /\ line \in Seq(Parts) /\ Len(line) = Len(s.line) + 1
        /\ line[Len(s.line) + 1] = file[n + 1]
        /\ \A i \in 1 .. Len(s.line) : line[i] = s.line[i]
        /\ line # <<>>
    BY <1>1
  <2> HIDE DEF line
  <2>3. r.done = s.done /\ r.line = line
    BY <2>1
  <2>4. Ends(file, n + 1) = Ends(file, n)
    BY <1>4, EndsIs
  <2>5. EndsAt(line, file, n + 1 + 1)
    <3>1. Len(line) < n + 1 + 1
      BY <1>1, <1>2, <2>2 DEF EndsAt
    <3>2. ASSUME NEW k \in 0 .. Len(line) - 1
          PROVE  line[Len(line) - k] = file[n + 1 + 1 - 1 - k]
      <4>1. CASE k = 0
        <5>1. Len(line) - k = Len(s.line) + 1 /\ n + 1 + 1 - 1 - k = n + 1
          BY <1>2, <2>2, <4>1
        <5> QED BY <2>2, <5>1
      <4>2. CASE k # 0
        <5>1. /\ k - 1 \in 0 .. Len(s.line) - 1
              /\ Len(line) - k = Len(s.line) - (k - 1)
              /\ Len(s.line) - (k - 1) \in 1 .. Len(s.line)
              /\ n + 1 + 1 - 1 - k = n + 1 - 1 - (k - 1)
          BY <1>2, <2>2, <4>2
        <5>2. \A j \in 0 .. Len(s.line) - 1 : s.line[Len(s.line) - j] = file[n + 1 - 1 - j]
          BY <1>1 DEF EndsAt
        <5>3. s.line[Len(s.line) - (k - 1)] = file[n + 1 - 1 - (k - 1)]
          BY <5>1, <5>2, Zenon
        <5> QED BY <2>2, <5>1, <5>3
      <4> QED BY <4>1, <4>2
    <3> QED BY <3>1, <3>2 DEF EndsAt
  <2>6. ASSUME NEW p \in 1 .. n + 1, file[p] = EndOfLine
        PROVE  /\ Ends(file, p) \in 1 .. Len(s.done)
               /\ EndsAt(s.done[Ends(file, p)], file, p)
    <3>1. p \in 1 .. n
      BY <1>4, <2>6
    <3> QED BY <1>1, <2>6, <3>1
  <2> QED BY <1>1, <2>1, <2>2, <2>3, <2>4, <2>5, <2>6 DEF SplitOK
<1> QED BY <1>3, <1>4

\* What the lines of a file are.
LEMMA LinesAre ==
  ASSUME NEW file \in Seq(Parts), NoEmpty(file)
  PROVE  /\ Lines(file) \in Seq(Seq(Parts))
         /\ \A i \in 1 .. Len(Lines(file)) : Lines(file)[i] # <<>>
         /\ \A p \in 1 .. Len(file) : file[p] = EndOfLine =>
              /\ Ends(file, p) \in 1 .. Len(Lines(file))
              /\ EndsAt(Lines(file)[Ends(file, p)], file, p)
<1> DEFINE N == Len(file)
           R(n) == Splitting(file)[n]
           S == {n \in 0 .. N : SplitOK(R(n), file, n)}
           s == R(N)
           lines == Lines(file)
<1>1. N \in Nat /\ \A n \in 1 .. N : file[n] \in Parts
  BY ElementOfSeq
<1>2. 0 \in S
  <2> DEFINE z == [done |-> <<>>, line |-> <<>>]
  <2>1. R(0) = z
    BY <1>1, SplittingIs
  <2>2. EndsTo(file, 0) = {}
    BY DEF EndsTo
  <2>3. Ends(file, 0) = 0
    BY <2>2, FS_EmptySet DEF Ends
  <2>4. /\ z.done = <<>> /\ z.line = <<>> /\ z = [done |-> z.done, line |-> z.line]
        /\ <<>> \in Seq(Seq(Parts)) /\ <<>> \in Seq(Parts) /\ Len(<<>>) = 0
    OBVIOUS
  <2>5. EndsAt(<<>>, file, 0 + 1)
    BY DEF EndsAt
  <2> HIDE DEF z
  <2>6. SplitOK(z, file, 0)
    BY <2>3, <2>4, <2>5 DEF SplitOK
  <2> QED BY <1>1, <2>1, <2>6
<1>3. ASSUME NEW n \in 1 .. N, n - 1 \in S PROVE n \in S
  <2>1. R(n) = Split(R(n - 1), file[n])
    BY <1>1, SplittingIs
  <2>2. n - 1 \in Nat /\ (n - 1) + 1 = n
    BY <1>1
  <2>3. SplitOK(R(n - 1), file, n - 1) /\ file[n] \in Parts
    BY <1>1, <1>3
  <2>4. SplitOK(R(n), file, n)
    <3> HIDE DEF R
    <3>1. SplitOK(R(n), file, (n - 1) + 1)
      BY <2>1, <2>2, <2>3, SplitStep
    <3> QED BY <2>2, <3>1
  <2> QED BY <1>1, <2>4
<1>4. N \in S
  <2>1. 0 .. N \subseteq S
    <3> HIDE DEF S, N
    <3> QED BY <1>1, <1>2, <1>3, Steps
  <2> HIDE DEF S, N
  <2> QED BY <1>1, <2>1
<1>5. SplitOK(s, file, N)
  BY <1>4
<1>6. /\ s.done \in Seq(Seq(Parts)) /\ s.line \in Seq(Parts)
      /\ \A p \in 1 .. N : file[p] = EndOfLine =>
           /\ Ends(file, p) \in 1 .. Len(s.done)
           /\ EndsAt(s.done[Ends(file, p)], file, p)
      /\ \A i \in 1 .. Len(s.done) : s.done[i] # <<>>
  <2> HIDE DEF s, N
  <2> QED BY <1>5 DEF SplitOK
<1>7. lines = IF s.line = <<>> THEN s.done ELSE Append(s.done, s.line)
  BY DEF Lines
<1> HIDE DEF s, N, lines
<1>8. CASE s.line = <<>>
  BY <1>6, <1>7, <1>8 DEF lines, N
<1>9. CASE s.line # <<>>
  <2>1. lines = Append(s.done, s.line) /\ Len(s.done) \in Nat
    BY <1>6, <1>7, <1>9
  <2>2. /\ lines \in Seq(Seq(Parts)) /\ Len(lines) = Len(s.done) + 1
        /\ lines[Len(s.done) + 1] = s.line
        /\ \A i \in 1 .. Len(s.done) : lines[i] = s.done[i]
    BY <1>6, <2>1
  <2>3. ASSUME NEW i \in 1 .. Len(lines) PROVE lines[i] # <<>>
    <3>1. i \in 1 .. Len(s.done) \/ i = Len(s.done) + 1
      BY <2>1, <2>2
    <3> QED BY <1>6, <1>9, <2>2, <3>1
  <2>4. ASSUME NEW p \in 1 .. N, file[p] = EndOfLine
        PROVE  /\ Ends(file, p) \in 1 .. Len(lines)
               /\ EndsAt(lines[Ends(file, p)], file, p)
    <3>1. /\ Ends(file, p) \in 1 .. Len(s.done)
          /\ EndsAt(s.done[Ends(file, p)], file, p)
      BY <1>6, <2>4
    <3>2. Ends(file, p) \in 1 .. Len(lines)
      BY <2>1, <2>2, <3>1
    <3> QED BY <2>2, <3>1, <3>2
  <2> QED BY <2>2, <2>3, <2>4 DEF lines, N
<1> QED BY <1>8, <1>9

-----------------------------------------------------------------------------
(* The history                                                             *)

Best(rs, I, a) == a \in I /\ \A j \in I \ {a} : Newer(rs, a, j)

\* The two most recent records of those at I.
IsTop(h, rs, I) ==
  /\ h = [latest |-> h.latest, previous |-> h.previous]
  /\ I = {} => h.latest = Missing /\ h.previous = Missing
  /\ I # {} => \E a \in I :
       /\ Best(rs, I, a) /\ h.latest = rs[a]
       /\ I \ {a} = {} => h.previous = Missing
       /\ I \ {a} # {} => \E b \in I \ {a} :
            Best(rs, I \ {a}, b) /\ h.previous = rs[b]

\* Records have a time.
Dated(rs, n) ==
  \A i \in 1 .. n : rs[i].at \in Nat /\ rs[i].at > 0 /\ rs[i] # Missing

LEMMA OneTop ==
  ASSUME NEW rs, NEW I, NEW a, Best(rs, I, a), I \ {a} = {}
  PROVE  IsTop([latest |-> rs[a], previous |-> Missing], rs, I)
<1> DEFINE h == [latest |-> rs[a], previous |-> Missing]
<1>1. h = [latest |-> h.latest, previous |-> h.previous] /\ h.latest = rs[a] /\ h.previous = Missing
  OBVIOUS
<1>2. a \in I
  BY DEF Best
<1> HIDE DEF h
<1>3. IsTop(h, rs, I)
  BY <1>1, <1>2 DEF IsTop
<1> QED BY <1>3 DEF h

LEMMA TwoTop ==
  ASSUME NEW rs, NEW I, NEW a, Best(rs, I, a), NEW b, Best(rs, I \ {a}, b)
  PROVE  IsTop([latest |-> rs[a], previous |-> rs[b]], rs, I)
<1> DEFINE h == [latest |-> rs[a], previous |-> rs[b]]
<1>1. h = [latest |-> h.latest, previous |-> h.previous] /\ h.latest = rs[a] /\ h.previous = rs[b]
  OBVIOUS
<1>2. a \in I /\ b \in I \ {a}
  BY DEF Best
<1> HIDE DEF h
<1>3. IsTop(h, rs, I)
  BY <1>1, <1>2 DEF IsTop
<1> QED BY <1>3 DEF h

\* A later record that is not older than the best of the others is better.
LEMMA Beats ==
  ASSUME NEW rs, NEW m \in Nat, NEW K, NEW b, Best(rs, K, b),
         rs[m].at \in Nat, \A i \in K : rs[i].at \in Nat /\ i < m /\ i \in Nat
  PROVE  /\ rs[m].at >= rs[b].at => Best(rs, K \cup {m}, m)
         /\ rs[m].at < rs[b].at => Best(rs, K \cup {m}, b)
<1>1. b \in K /\ \A j \in K \ {b} : Newer(rs, b, j)
  BY DEF Best
<1>2. rs[b].at \in Nat /\ b \in Nat /\ m \notin K
  BY <1>1
<1>3. ASSUME rs[m].at >= rs[b].at PROVE Best(rs, K \cup {m}, m)
  <2>1. ASSUME NEW i \in K PROVE Newer(rs, m, i)
    <3>1. rs[i].at \in Nat /\ i < m /\ i \in Nat
      OBVIOUS
    <3>2. CASE i = b
      BY <1>2, <1>3, <3>1, <3>2 DEF Newer
    <3>3. CASE i # b
      <4>1. Newer(rs, b, i)
        BY <1>1, <3>3
      <4> QED BY <1>2, <1>3, <3>1, <4>1 DEF Newer
    <3> QED BY <3>2, <3>3
  <2> QED BY <2>1 DEF Best
<1>4. ASSUME rs[m].at < rs[b].at PROVE Best(rs, K \cup {m}, b)
  <2>1. Newer(rs, b, m)
    BY <1>2, <1>4 DEF Newer
  <2> QED BY <1>1, <2>1 DEF Best
<1> QED BY <1>3, <1>4

LEMMA TopStep ==
  ASSUME NEW rs, NEW n \in Nat, Dated(rs, n + 1), NEW I, I \subseteq 1 .. n,
         NEW h, IsTop(h, rs, I),
         NEW m, m = n + 1, NEW g, g = update_target_history(h, rs[m])
  PROVE  IsTop(g, rs, I \cup {m})
<1> DEFINE J == I \cup {m}
           o == rs[m]
<1>1. /\ o.at \in Nat /\ o # Missing /\ m \notin I /\ m \in Nat
      /\ \A i \in I : rs[i].at \in Nat /\ rs[i] # Missing /\ i < m /\ i \in Nat
  BY DEF Dated
<1>2. h = [latest |-> h.latest, previous |-> h.previous]
  BY DEF IsTop
<1>3. CASE I = {}
  <2>1. h.latest = Missing
    BY <1>3 DEF IsTop
  <2>2. g = [latest |-> rs[m], previous |-> Missing]
    <3>1. h.previous = Missing
      BY <1>3 DEF IsTop
    <3> QED BY <2>1, <3>1 DEF update_target_history
  <2>3. Best(rs, J, m) /\ J \ {m} = {}
    BY <1>3 DEF Best
  <2> HIDE DEF J
  <2>4. IsTop(g, rs, J)
    BY <2>2, <2>3, OneTop
  <2> QED BY <2>4 DEF J
<1>4. CASE I # {}
  <2>1. PICK a \in I :
          /\ Best(rs, I, a) /\ h.latest = rs[a]
          /\ I \ {a} = {} => h.previous = Missing
          /\ I \ {a} # {} => \E b \in I \ {a} :
               Best(rs, I \ {a}, b) /\ h.previous = rs[b]
    BY <1>4 DEF IsTop
  <2>2. rs[a].at \in Nat /\ rs[a] # Missing /\ J \ {m} = I
    BY <1>1
  <2>3. CASE o.at >= rs[a].at
    <3>1. g = [latest |-> rs[m], previous |-> rs[a]]
      BY <2>1, <2>3 DEF update_target_history
    <3>2. Best(rs, J, m)
      BY <1>1, <2>1, <2>3, Beats
    <3> QED BY <2>1, <2>2, <3>1, <3>2, TwoTop
  <2>4. CASE o.at < rs[a].at
    <3> DEFINE K == I \ {a}
    <3>1. h.latest # Missing /\ ~(o.at >= h.latest.at)
      <4>1. ~(o.at >= rs[a].at)
        BY ONLY <1>1, <2>2, <2>4
      <4> QED BY <2>1, <2>2, <4>1
    <3>2. Best(rs, J, a)
      BY <1>1, <2>1, <2>4, Beats
    <3>3. J \ {a} = K \cup {m} /\ m \notin K
      BY <1>1, <2>1
    <3>4. ASSUME h.previous = Missing \/ o.at >= h.previous.at
          PROVE  g = [latest |-> rs[a], previous |-> rs[m]]
      <4>1. g = [h EXCEPT !.previous = o]
        BY <3>1, <3>4 DEF update_target_history
      <4> QED BY <1>2, <2>1, <4>1
    <3>5. CASE K = {}
      <4>1. g = [latest |-> rs[a], previous |-> rs[m]]
        BY <2>1, <3>4, <3>5
      <4>2. Best(rs, J \ {a}, m)
        BY <3>3, <3>5 DEF Best
      <4> QED BY <3>2, <4>1, <4>2, TwoTop
    <3>6. CASE K # {}
      <4>1. PICK b \in K : Best(rs, K, b) /\ h.previous = rs[b]
        BY <2>1, <3>6
      <4>2. rs[b].at \in Nat /\ rs[b] # Missing
        BY <1>1
      <4>3. \A i \in K : rs[i].at \in Nat /\ i < m /\ i \in Nat
        BY <1>1
      <4> HIDE DEF K
      <4>4. CASE o.at >= rs[b].at
        <5>1. g = [latest |-> rs[a], previous |-> rs[m]]
          BY <3>4, <4>1, <4>4
        <5>2. Best(rs, J \ {a}, m)
          BY <1>1, <3>3, <4>1, <4>3, <4>4, Beats
        <5> QED BY <3>2, <5>1, <5>2, TwoTop
      <4>5. CASE o.at < rs[b].at
        <5>1. ~(o.at >= rs[b].at)
          BY ONLY <1>1, <4>2, <4>5
        <5>2. g = h
          BY <3>1, <4>1, <4>2, <5>1 DEF update_target_history
        <5>3. g = [latest |-> rs[a], previous |-> rs[b]]
          BY <1>2, <2>1, <4>1, <5>2
        <5>4. Best(rs, J \ {a}, b)
          BY <1>1, <3>3, <4>1, <4>3, <4>5, Beats
        <5> QED BY <3>2, <5>3, <5>4, TwoTop
      <4> QED BY <1>1, <4>2, <4>4, <4>5
    <3> QED BY <3>5, <3>6
  <2> QED BY <1>1, <2>2, <2>3, <2>4
<1> QED BY <1>3, <1>4

Chosen(rs, I) == CHOOSE i \in I : \A j \in I \ {i} : Newer(rs, i, j)

\* The best is the chosen one.
LEMMA BestIsChosen ==
  ASSUME NEW rs, NEW I, NEW a, Best(rs, I, a),
         \A i \in I : i \in Nat /\ rs[i].at \in Nat
  PROVE  a = Chosen(rs, I)
<1> DEFINE P(i) == \A j \in I \ {i} : Newer(rs, i, j)
<1>1. a \in I /\ P(a)
  BY DEF Best
<1>2. ASSUME NEW i \in I, P(i) PROVE i = a
  <2> SUFFICES ASSUME i # a PROVE FALSE
    OBVIOUS
  <2>1. Newer(rs, i, a) /\ Newer(rs, a, i)
    BY <1>1, <1>2
  <2>2. i \in Nat /\ a \in Nat /\ rs[i].at \in Nat /\ rs[a].at \in Nat
    BY <1>1
  <2> QED BY <2>1, <2>2 DEF Newer
<1> HIDE DEF P
<1>3. a = CHOOSE i \in I : P(i)
  BY <1>1, <1>2
<1> QED BY <1>3 DEF P, Chosen

\* What a history is when it is that of the records at I.
LEMMA TopIs ==
  ASSUME NEW rs, NEW n \in Nat, Dated(rs, n), NEW I, I \subseteq 1 .. n,
         NEW h, IsTop(h, rs, I),
         NEW a, a = Chosen(rs, I)
  PROVE  h = [latest |-> Newest(rs, I),
              previous |-> IF I = {} THEN Missing ELSE Newest(rs, I \ {a})]
<1>1. \A i \in I : i \in Nat /\ rs[i].at \in Nat
  BY DEF Dated
<1>2. h = [latest |-> h.latest, previous |-> h.previous]
  BY DEF IsTop
<1>3. CASE I = {}
  <2>1. h.latest = Missing /\ h.previous = Missing
    BY <1>3 DEF IsTop
  <2> QED BY <1>2, <1>3, <2>1 DEF Newest
<1>4. CASE I # {}
  <2>1. PICK b \in I :
          /\ Best(rs, I, b) /\ h.latest = rs[b]
          /\ I \ {b} = {} => h.previous = Missing
          /\ I \ {b} # {} => \E c \in I \ {b} :
               Best(rs, I \ {b}, c) /\ h.previous = rs[c]
    BY <1>4 DEF IsTop
  <2>2. b = a
    BY <1>1, <2>1, BestIsChosen
  <2>3. h.latest = Newest(rs, I)
    BY <1>4, <2>1, <2>2 DEF Newest, Chosen
  <2>4. h.previous = Newest(rs, I \ {a})
    <3>1. CASE I \ {a} = {}
      BY <2>1, <2>2, <3>1 DEF Newest
    <3>2. CASE I \ {a} # {}
      <4>1. PICK c \in I \ {a} : Best(rs, I \ {a}, c) /\ h.previous = rs[c]
        BY <2>1, <2>2, <3>2
      <4> DEFINE K == I \ {a}
      <4>2. c = Chosen(rs, K)
        <5>1. Best(rs, K, c) /\ \A i \in K : i \in Nat /\ rs[i].at \in Nat
          BY <1>1, <4>1
        <5> HIDE DEF K
        <5> QED BY <5>1, BestIsChosen
      <4>3. Newest(rs, K) = rs[c]
        <5>1. K # {}
          BY <3>2
        <5> HIDE DEF K
        <5> QED BY <4>2, <5>1 DEF Newest, Chosen
      <4> QED BY <4>1, <4>3
    <3> QED BY <3>1, <3>2
  <2> QED BY <1>2, <1>4, <2>3, <2>4
<1> QED BY <1>3, <1>4


IsReading(r) ==
  /\ r = [line |-> r.line, error |-> r.error, records |-> r.records,
          earliest |-> r.earliest, newest |-> r.newest,
          targets |-> r.targets, history |-> r.history]
  /\ r.line \in Nat /\ r.error \in Nat /\ r.records \in Nat
  /\ r.earliest \in Nat /\ r.newest \in Nat

RecordsOf(lines) == [i \in 1 .. Len(lines) |-> Written[lines[i][1].of]]
TargetsTo(rs, n) == {rs[i].target : i \in 1 .. n}
OfTarget(rs, n, t) == {i \in 1 .. n : rs[i].target = t}

\* The first n lines are records, within the limits.
AllFit(lines, n) ==
  /\ \A i \in 1 .. n : Readable(lines[i])
  /\ n <= MaxRecords
  /\ Cardinality(TargetsTo(RecordsOf(lines), n)) <= MaxTargets

\* The loop over the first n lines.
HistoryRead(r, lines, n, t) ==
  /\ IsReading(r)
  /\ r.error = 0 =>
       /\ AllFit(lines, n)
       /\ r.line = n /\ r.records = n
       /\ r.targets = TargetsTo(RecordsOf(lines), n)
       /\ n = 0 => r.earliest = 0 /\ r.newest = 0
       /\ n # 0 => r.earliest > 0 /\
            \E i, j \in 1 .. n : /\ r.earliest = RecordsOf(lines)[i].at
                                 /\ r.newest = RecordsOf(lines)[j].at
       /\ \A i \in 1 .. n : RecordsOf(lines)[i].at \in r.earliest .. r.newest
       /\ IsTop(r.history, RecordsOf(lines), OfTarget(RecordsOf(lines), n, t))
  /\ r.error # 0 => ~AllFit(lines, n)

\* A line is refused; a record is counted.
LEMMA RefuseIs ==
  ASSUME NEW n, NEW e, NEW k, NEW a, NEW b, NEW ts, NEW h, NEW r,
         r = [line |-> n, error |-> e, records |-> k, earliest |-> a, newest |-> b,
              targets |-> ts, history |-> h]
  PROVE  Refuse(r) = [line |-> n + 1, error |-> n + 1, records |-> k, earliest |-> a,
                      newest |-> b, targets |-> ts, history |-> h]
<1>1. r.line = n
  OBVIOUS
<1>2. Refuse(r) = [r EXCEPT !.error = n + 1, !.line = n + 1]
  BY <1>1 DEF Refuse
<1> QED BY <1>2

LEMMA AcceptIs ==
  ASSUME NEW n, NEW e, NEW k, NEW a, NEW b, NEW ts, NEW h, NEW r, NEW o, NEW t,
         r = [line |-> n, error |-> e, records |-> k, earliest |-> a, newest |-> b,
              targets |-> ts, history |-> h]
  PROVE  Accept(r, o, t) =
           [line |-> n + 1, error |-> e, records |-> k + 1,
            earliest |-> IF a = 0 \/ o.at < a THEN o.at ELSE a,
            newest |-> IF o.at > b THEN o.at ELSE b,
            targets |-> ts \cup {o.target},
            history |-> IF o.target = t THEN update_target_history(h, o) ELSE h]
<1> DEFINE early == IF a = 0 \/ o.at < a THEN o.at ELSE a
           late == IF o.at > b THEN o.at ELSE b
           top == IF o.target = t THEN update_target_history(h, o) ELSE h
           new == ts \cup {o.target}
<1>1. /\ r.line = n /\ r.records = k /\ r.earliest = a /\ r.newest = b
      /\ r.targets = ts /\ r.history = h
  OBVIOUS
<1>2. Accept(r, o, t) = [r EXCEPT !.line = n + 1, !.records = k + 1, !.earliest = early,
                                  !.newest = late, !.targets = new, !.history = top]
  BY <1>1 DEF Accept
<1> HIDE DEF early, late, top, new
<1>3. Accept(r, o, t) = [line |-> n + 1, error |-> e, records |-> k + 1,
                         earliest |-> early, newest |-> late, targets |-> new,
                         history |-> top]
  BY <1>2
<1> QED BY <1>3 DEF early, late, top, new

\* A record in a line that can be read.
LEMMA RecordIs ==
  ASSUME NEW lines, NEW i \in 1 .. Len(lines), Readable(lines[i])
  PROVE  LET o == RecordsOf(lines)[i] IN
         /\ o = Written[lines[i][1].of] /\ o # Missing
         /\ o.at \in Nat /\ o.at > 0
<1>1. lines[i][1].of \in Accepted
  BY DEF Readable, Rereadable
<1>2. RecordsOf(lines)[i] = Written[lines[i][1].of]
  BY DEF RecordsOf
<1>3. PICK d \in Accepted : d = lines[i][1].of
  BY <1>1
<1>4. Written[d].at = d.at /\ d.at \in Nat /\ d.at > 0 /\ Written[d] # Missing
  <2>1. /\ d.at \in Nat /\ d.at > 0 /\ Written[d] # Missing
        /\ Written[d] = [members |-> WrittenMembers, nested |-> 0,
                         version |-> d.version, at |-> d.at, target |-> d.target,
                         identity |-> d.identity, sensor |-> WrittenSensor,
                         inventory |-> compact_json(d.inventory)]
    BY WrittenIs
  <2> QED BY <2>1
<1> QED BY <1>2, <1>3, <1>4

LEMMA TargetsAre ==
  ASSUME NEW rs, NEW n \in Nat
  PROVE  /\ IsFiniteSet(TargetsTo(rs, n)) /\ Cardinality(TargetsTo(rs, n)) \in Nat
         /\ TargetsTo(rs, n + 1) = TargetsTo(rs, n) \cup {rs[n + 1].target}
         /\ Cardinality(TargetsTo(rs, n)) <= Cardinality(TargetsTo(rs, n + 1))
<1>1. ASSUME NEW m \in Nat
      PROVE  IsFiniteSet(TargetsTo(rs, m)) /\ Cardinality(TargetsTo(rs, m)) \in Nat
  <2> DEFINE f == [i \in 1 .. m |-> rs[i].target]
  <2>1. IsFiniteSet(1 .. m)
    BY FS_Interval
  <2>2. f \in Surjection(1 .. m, TargetsTo(rs, m))
    BY DEF Surjection, TargetsTo
  <2>3. IsFiniteSet(TargetsTo(rs, m))
    BY <2>1, <2>2, FS_Surjection
  <2> QED BY <2>3, FS_CardinalityType
<1>2. TargetsTo(rs, n + 1) = TargetsTo(rs, n) \cup {rs[n + 1].target}
  BY DEF TargetsTo
<1>3. n + 1 \in Nat
  OBVIOUS
<1>4. Cardinality(TargetsTo(rs, n)) <= Cardinality(TargetsTo(rs, n + 1))
  BY <1>1, <1>2, <1>3, FS_Subset
<1> QED BY <1>1, <1>2, <1>4

LEMMA FitStep ==
  ASSUME NEW lines, NEW n \in Nat, AllFit(lines, n + 1)
  PROVE  AllFit(lines, n)
<1>1. MaxRecords \in Nat /\ MaxTargets \in Nat
  BY LimitAssumption
<1> QED BY <1>1, TargetsAre DEF AllFit

LEMMA ReadStep ==
  ASSUME NEW lines, NEW n \in Nat, n + 1 \in 1 .. Len(lines), lines[n + 1] # <<>>,
         NEW t, NEW r, HistoryRead(r, lines, n, t),
         NEW s, s = ReadLine(r, lines[n + 1], t)
  PROVE  HistoryRead(s, lines, n + 1, t)
<1> DEFINE m == n + 1
           rs == RecordsOf(lines)
           line == lines[m]
           o == Written[line[1].of]
           next == Accept(r, o, t)
<1>1. MaxRecords \in Nat /\ MaxTargets \in Nat
  BY LimitAssumption
<1>2. IsReading(r)
  BY DEF HistoryRead
<1>3. CASE r.error # 0
  <2>1. s = r
    BY <1>3 DEF ReadLine
  <2>2. ~AllFit(lines, n + 1)
    BY <1>3, FitStep DEF HistoryRead
  <2> QED BY <1>2, <1>3, <2>1, <2>2 DEF HistoryRead
<1>4. ASSUME r.error = 0
      PROVE  /\ AllFit(lines, n)
             /\ r.line = n /\ r.records = n
             /\ r.targets = TargetsTo(rs, n)
             /\ n = 0 => r.earliest = 0 /\ r.newest = 0
             /\ n # 0 => r.earliest > 0 /\
                  \E i, j \in 1 .. n : r.earliest = rs[i].at /\ r.newest = rs[j].at
             /\ \A i \in 1 .. n : rs[i].at \in r.earliest .. r.newest
             /\ IsTop(r.history, rs, OfTarget(rs, n, t))
  BY <1>4 DEF HistoryRead
<1>5. ASSUME r.error = 0, s = Refuse(r), ~AllFit(lines, m)
      PROVE  HistoryRead(s, lines, m, t)
  <2>1. s = [line |-> n + 1, error |-> n + 1, records |-> r.records,
             earliest |-> r.earliest, newest |-> r.newest,
             targets |-> r.targets, history |-> r.history]
    <3>2. r = [line |-> n, error |-> r.error, records |-> r.records,
               earliest |-> r.earliest, newest |-> r.newest,
               targets |-> r.targets, history |-> r.history]
      BY <1>2, <1>4, <1>5 DEF IsReading
    <3> QED BY <1>5, <3>2, RefuseIs
  <2>2. IsReading(s) /\ s.error # 0
    BY <1>2, <2>1 DEF IsReading
  <2> QED BY <1>5, <2>2 DEF HistoryRead
<1>6. CASE r.error = 0 /\ (r.records >= MaxRecords \/ ~Readable(line))
  <2>1. s = Refuse(r)
    BY <1>6 DEF ReadLine
  <2>2. ~AllFit(lines, m)
    BY <1>1, <1>4, <1>6 DEF AllFit
  <2> QED BY <1>5, <1>6, <2>1, <2>2
<1>7. CASE r.error = 0 /\ ~(r.records >= MaxRecords \/ ~Readable(line))
  <2>1. s = IF Cardinality(next.targets) > MaxTargets THEN Refuse(r) ELSE next
    BY <1>7 DEF ReadLine
  <2>2. Readable(line) /\ m <= MaxRecords
    BY <1>1, <1>4, <1>7
  <2>3. rs[m] = o /\ o # Missing /\ o.at \in Nat /\ o.at > 0
    BY <2>2, RecordIs
  <2> DEFINE early == IF r.earliest = 0 \/ o.at < r.earliest THEN o.at ELSE r.earliest
             late == IF o.at > r.newest THEN o.at ELSE r.newest
             top == IF o.target = t THEN update_target_history(r.history, o) ELSE r.history
  <2>4. next = [line |-> n + 1, error |-> 0, records |-> n + 1,
                earliest |-> early, newest |-> late,
                targets |-> r.targets \cup {o.target}, history |-> top]
    <3>2. r = [line |-> n, error |-> 0, records |-> n,
               earliest |-> r.earliest, newest |-> r.newest,
               targets |-> r.targets, history |-> r.history]
      BY <1>2, <1>4, <1>7 DEF IsReading
    <3> HIDE DEF o
    <3> QED BY <3>2, AcceptIs
  <2>5. next.targets = TargetsTo(rs, m)
    <3>1. next.targets = r.targets \cup {o.target}
      <4> HIDE DEF early, late, top, o, next
      <4> QED BY <2>4
    <3>2. TargetsTo(rs, n + 1) = TargetsTo(rs, n) \cup {rs[n + 1].target}
      BY TargetsAre
    <3> QED BY <1>4, <1>7, <2>3, <3>1, <3>2
  <2>6. Cardinality(TargetsTo(rs, m)) \in Nat
    BY TargetsAre
  <2>7. CASE Cardinality(next.targets) > MaxTargets
    <3>1. ~AllFit(lines, m)
      BY <1>1, <2>5, <2>6, <2>7 DEF AllFit
    <3>2. s = Refuse(r)
      BY <2>1, <2>7
    <3> QED BY <1>5, <1>7, <3>1, <3>2
  <2>8. CASE ~(Cardinality(next.targets) > MaxTargets)
    <3>1. AllFit(lines, m)
      <4>1. \A i \in 1 .. m : Readable(lines[i])
        BY <1>4, <1>7, <2>2 DEF AllFit
      <4>2. Cardinality(TargetsTo(rs, m)) <= MaxTargets
        BY <1>1, <2>5, <2>6, <2>8
      <4> QED BY <2>2, <4>1, <4>2 DEF AllFit
    <3>2. s = next
      BY <2>1, <2>8
    <3>3. early \in Nat /\ late \in Nat /\ early > 0 /\ early <= o.at /\ o.at <= late
          /\ (early = o.at \/ (early = r.earliest /\ r.earliest # 0))
          /\ (late = o.at \/ (late = r.newest /\ r.newest >= o.at))
      <4>1. o.at \in Nat /\ o.at > 0 /\ r.earliest \in Nat /\ r.newest \in Nat
        BY <1>2, <2>3 DEF IsReading
      <4> HIDE DEF o, top, next
      <4> QED BY <4>1
    <3>4. ASSUME NEW i \in 1 .. n
          PROVE  /\ rs[i].at \in Nat /\ rs[i].at > 0 /\ rs[i] # Missing
                 /\ early <= rs[i].at /\ rs[i].at <= late
      <4>1. i \in 1 .. Len(lines) /\ Readable(lines[i])
        BY <1>4, <1>7, <3>1 DEF AllFit
      <4>2. rs[i].at \in Nat /\ rs[i].at > 0 /\ rs[i] # Missing
        BY <4>1, RecordIs
      <4>3. r.earliest <= rs[i].at /\ rs[i].at <= r.newest /\ n # 0
        BY <1>2, <1>4, <1>7 DEF IsReading
      <4>4. r.earliest > 0
        BY <1>4, <1>7, <4>3
      <4>5. early <= r.earliest /\ r.newest <= late
        BY <1>2, <2>3, <4>4, SMTT(30) DEF IsReading
      <4> HIDE DEF early, late
      <4> QED BY <1>2, <3>3, <4>2, <4>3, <4>5, SMTT(30) DEF IsReading
    <3>5. IsTop(top, rs, OfTarget(rs, m, t))
      <4>1. Dated(rs, n + 1)
        <5>1. \A i \in 1 .. n + 1 : i \in 1 .. n \/ i = m
          OBVIOUS
        <5> QED BY <2>3, <3>4, <5>1 DEF Dated
      <4>2. IsTop(r.history, rs, OfTarget(rs, n, t))
        BY <1>4, <1>7
      <4>3. CASE o.target = t
        <5>1. OfTarget(rs, m, t) = OfTarget(rs, n, t) \cup {m}
          BY <2>3, <4>3 DEF OfTarget
        <5>2. OfTarget(rs, n, t) \subseteq 1 .. n
          BY DEF OfTarget
        <5>3. top = update_target_history(r.history, rs[m])
          BY <2>3, <4>3
        <5> DEFINE K == OfTarget(rs, n, t)
                   h == r.history
        <5>4. /\ m = n + 1 /\ IsTop(h, rs, K) /\ K \subseteq 1 .. n
              /\ top = update_target_history(h, rs[m])
          BY <4>2, <5>2, <5>3
        <5> HIDE DEF top, rs, m, K, h
        <5>5. IsTop(top, rs, K \cup {m})
          BY <4>1, <5>4, TopStep
        <5> QED BY <5>1, <5>5 DEF K
      <4>4. CASE o.target # t
        <5>1. OfTarget(rs, m, t) = OfTarget(rs, n, t)
          BY <2>3, <4>4 DEF OfTarget
        <5>2. top = r.history
          BY <4>4
        <5> QED BY <4>2, <5>1, <5>2
      <4> QED BY <4>3, <4>4
    <3>6. \E i, j \in 1 .. m : early = rs[i].at /\ late = rs[j].at
      <4>1. CASE n = 0
        <5>1. r.earliest = 0 /\ r.newest = 0
          BY <1>4, <1>7, <4>1
        <5>2. early = o.at /\ late = o.at
          BY <2>3, <5>1
        <5>3. m \in 1 .. m
          OBVIOUS
        <5> HIDE DEF early, late
        <5> QED BY <2>3, <5>2, <5>3
      <4>2. CASE n # 0
        <5>1. PICK i \in 1 .. n, j \in 1 .. n : r.earliest = rs[i].at /\ r.newest = rs[j].at
          BY <1>4, <1>7, <4>2
        <5>2. i \in 1 .. m /\ j \in 1 .. m /\ m \in 1 .. m
          OBVIOUS
        <5>3. early = rs[m].at \/ early = rs[i].at
          BY <2>3, <3>3, <5>1
        <5>4. late = rs[m].at \/ late = rs[j].at
          BY <2>3, <3>3, <5>1
        <5> HIDE DEF early, late, m
        <5> QED BY <5>2, <5>3, <5>4
      <4> QED BY <4>1, <4>2
    <3>7. ASSUME NEW i \in 1 .. m PROVE rs[i].at \in early .. late
      <4>1. i \in 1 .. n \/ i = m
        OBVIOUS
      <4>2. rs[i].at \in Nat /\ early <= rs[i].at /\ rs[i].at <= late
        <5> HIDE DEF early, late
        <5> QED BY <2>3, <3>3, <3>4, <4>1
      <4> HIDE DEF early, late
      <4> QED BY <3>3, <4>2
    <3> HIDE DEF early, late, top, next, o
    <3>8. /\ s.line = m /\ s.error = 0 /\ s.records = m /\ s.earliest = early
          /\ s.newest = late /\ s.history = top /\ IsReading(s)
      BY <2>4, <3>2, <3>3 DEF IsReading
    <3>9. s.targets = TargetsTo(rs, m) /\ m # 0
      BY <2>5, <3>2
    <3> QED BY <3>1, <3>3, <3>5, <3>6, <3>7, <3>8, <3>9 DEF HistoryRead
  <2> QED BY <2>7, <2>8
<1> QED BY <1>3, <1>6, <1>7

LEMMA AllRead ==
  ASSUME NEW lines, Len(lines) \in Nat, \A i \in 1 .. Len(lines) : lines[i] # <<>>, NEW t
  PROVE  HistoryRead(Reading(lines, t)[Len(lines)], lines, Len(lines), t)
<1> DEFINE R(n) == Reading(lines, t)[n]
           S == {n \in 0 .. Len(lines) : HistoryRead(R(n), lines, n, t)}
<1>1. 0 \in S
  <2> DEFINE rs == RecordsOf(lines)
  <2>1. R(0) = ReadingStart
    BY ReadingIs
  <2>2. TargetsTo(rs, 0) = {} /\ OfTarget(rs, 0, t) = {} /\ Cardinality({}) = 0
    BY FS_EmptySet DEF TargetsTo, OfTarget
  <2>3. AllFit(lines, 0)
    <3>1. 0 <= MaxRecords /\ Cardinality(TargetsTo(rs, 0)) <= MaxTargets
      <4>1. Cardinality(TargetsTo(rs, 0)) = 0
        BY <2>2
      <4>2. MaxRecords \in Nat /\ MaxTargets \in Nat
        BY LimitAssumption
      <4> QED BY <4>1, <4>2
    <3> QED BY <3>1 DEF AllFit
  <2>4. /\ ReadingStart.line = 0 /\ ReadingStart.error = 0 /\ ReadingStart.records = 0
        /\ ReadingStart.earliest = 0 /\ ReadingStart.newest = 0
        /\ ReadingStart.targets = {} /\ ReadingStart.history = NoHistory
        /\ IsReading(ReadingStart)
    BY DEF ReadingStart, IsReading
  <2>5. IsTop(NoHistory, rs, {})
    BY DEF IsTop, NoHistory
  <2>6. HistoryRead(ReadingStart, lines, 0, t)
    <3> DEFINE x == ReadingStart
    <3>1. /\ x.error = 0 /\ x.line = 0 /\ x.records = 0 /\ x.targets = TargetsTo(rs, 0)
          /\ x.earliest = 0 /\ x.newest = 0 /\ IsReading(x)
          /\ IsTop(x.history, rs, OfTarget(rs, 0, t))
      BY <2>2, <2>4, <2>5
    <3>2. \A i \in 1 .. 0 : rs[i].at \in x.earliest .. x.newest
      OBVIOUS
    <3> HIDE DEF x
    <3>3. HistoryRead(x, lines, 0, t)
      BY <2>3, <3>1, <3>2 DEF HistoryRead
    <3> QED BY <3>3 DEF x
  <2> QED BY <2>1, <2>6
<1>2. ASSUME NEW n \in 1 .. Len(lines), n - 1 \in S PROVE n \in S
  <2>1. R(n) = ReadLine(R(n - 1), lines[n], t)
    BY ReadingIs
  <2>2. n - 1 \in Nat /\ (n - 1) + 1 = n
    OBVIOUS
  <2>3. HistoryRead(R(n), lines, n, t)
    <3> HIDE DEF R
    <3>1. HistoryRead(R(n), lines, (n - 1) + 1, t)
      BY <1>2, <2>1, <2>2, ReadStep
    <3> QED BY <2>2, <3>1
  <2> QED BY <2>3
<1>3. 0 .. Len(lines) \subseteq S
  <2> HIDE DEF S
  <2> QED BY <1>1, <1>2, Steps
<1>4. Len(lines) \in S
  BY <1>3
<1> QED BY <1>4

LEMMA HistoryFollows == IInv => HistoryIsExact
<1> SUFFICES ASSUME IInv, NEW t \in Targets
             PROVE  LET lines == Lines(history)
                        rs == Records(history)
                        whole == \A i \in DOMAIN lines : Readable(lines[i])
                        targets == {rs[i].target : i \in DOMAIN rs}
                        I == {i \in DOMAIN rs : rs[i].target = t}
                        first == CHOOSE i \in I : \A j \in I \ {i} : Newer(rs, i, j)
                        r == analyze_history(history, t)
                    IN
                    /\ r.error = 0 <=> /\ whole
                                       /\ Len(lines) <= MaxRecords
                                       /\ Cardinality(targets) <= MaxTargets
                    /\ r.error = 0 =>
                         /\ r.records = Len(lines) /\ r.targets = targets
                         /\ \A i \in DOMAIN rs : rs[i].at \in r.earliest..r.newest
                         /\ rs # <<>> => {r.earliest, r.newest} \subseteq {rs[i].at : i \in DOMAIN rs}
                         /\ r.history =
                              [latest |-> Newest(rs, I),
                               previous |-> IF I = {} THEN Missing
                                            ELSE Newest(rs, I \ {first})]
  BY DEF HistoryIsExact
<1> DEFINE lines == Lines(history)
           rs == Records(history)
           N == Len(lines)
           I == {i \in DOMAIN rs : rs[i].target = t}
           targets == {rs[i].target : i \in DOMAIN rs}
           first == CHOOSE i \in I : \A j \in I \ {i} : Newer(rs, i, j)
           r == analyze_history(history, t)
<1>1. lines \in Seq(Seq(Parts)) /\ \A i \in 1 .. N : lines[i] # <<>>
  BY LinesAre DEF IInv, StoreOK
<1>2. N \in Nat /\ DOMAIN lines = 1 .. N
  BY <1>1
<1>3. rs = RecordsOf(lines) /\ DOMAIN rs = 1 .. N
  BY <1>2 DEF Records, RecordsOf
<1>4. HistoryRead(r, lines, N, t)
  BY <1>1, <1>2, AllRead DEF analyze_history
<1>5. I = OfTarget(rs, N, t) /\ targets = TargetsTo(rs, N)
  BY <1>3 DEF OfTarget, TargetsTo
<1> HIDE DEF lines, rs, N, I, targets, r
<1>6. r.error = 0 <=> AllFit(lines, N)
  BY <1>4 DEF HistoryRead
<1>7. AllFit(lines, N) <=> /\ \A i \in DOMAIN lines : Readable(lines[i])
                           /\ N <= MaxRecords /\ Cardinality(targets) <= MaxTargets
  BY <1>2, <1>3, <1>5 DEF AllFit
<1>8. ASSUME r.error = 0
      PROVE  /\ r.records = N /\ r.targets = targets
             /\ \A i \in DOMAIN rs : rs[i].at \in r.earliest..r.newest
             /\ rs # <<>> => {r.earliest, r.newest} \subseteq {rs[i].at : i \in DOMAIN rs}
             /\ r.history = [latest |-> Newest(rs, I),
                             previous |-> IF I = {} THEN Missing
                                          ELSE Newest(rs, I \ {first})]
  <2>1. /\ AllFit(lines, N)
        /\ r.records = N
        /\ r.targets = targets
        /\ N # 0 => \E i, j \in 1 .. N : r.earliest = rs[i].at /\ r.newest = rs[j].at
        /\ \A i \in 1 .. N : rs[i].at \in r.earliest .. r.newest
        /\ IsTop(r.history, rs, I)
    BY <1>3, <1>4, <1>5, <1>8 DEF HistoryRead
  <2>2. Dated(rs, N)
    <3>1. ASSUME NEW i \in 1 .. N
          PROVE  rs[i].at \in Nat /\ rs[i].at > 0 /\ rs[i] # Missing
      <4>1. Readable(lines[i]) /\ i \in 1 .. Len(lines)
        BY <2>1 DEF AllFit, N
      <4> QED BY <1>3, <4>1, RecordIs
    <3> QED BY <3>1 DEF Dated
  <2>3. I \subseteq 1 .. N
    BY <1>5 DEF OfTarget
  <2>4. r.history = [latest |-> Newest(rs, I),
                     previous |-> IF I = {} THEN Missing
                                  ELSE Newest(rs, I \ {first})]
    <3> HIDE DEF first
    <3>1. first = Chosen(rs, I)
      BY DEF first, Chosen
    <3>2. IsTop(r.history, rs, I)
      BY <2>1
    <3> QED BY <1>2, <2>2, <2>3, <3>1, <3>2, TopIs
  <2>5. rs # <<>> => N # 0
    <3>1. ASSUME N = 0 PROVE rs = <<>>
      <4>1. rs = [i \in 1 .. 0 |-> Written[lines[i][1].of]]
        BY <1>3, <3>1 DEF RecordsOf, N
      <4>2. 1 .. 0 = {}
        OBVIOUS
      <4> QED BY <4>1, <4>2
    <3> QED BY <3>1
  <2> QED BY <1>3, <2>1, <2>4, <2>5
<1> QED BY <1>6, <1>7, <1>8 DEF lines, rs, N, I, targets, r, first

\* A history that is read is read whole and right: refused unless every line is
\* one record and the limits hold, and else with the counts, the span and the
\* two records chosen that its set of records has, however many there are and
\* in whatever order they were appended.
THEOREM HistoryExact == Spec => []HistoryIsExact
<1> QED BY InvariantHolds, HistoryFollows, PTL

-----------------------------------------------------------------------------
(* What was acknowledged is in the history                                 *)

LEMMA LineOfTwo ==
  ASSUME NEW line, NEW file, NEW p \in Nat, EndsAt(line, file, p), Len(line) = 2
  PROVE  line[1] = file[p - 2]
<1>1. \A k \in 0 .. 2 - 1 : line[2 - k] = file[p - 1 - k]
  BY DEF EndsAt
<1>2. 1 \in 0 .. 2 - 1 /\ 2 - 1 = 1 /\ 1 < 2 /\ 2 > 1
  OBVIOUS
<1>3. Len(line) < p
  BY DEF EndsAt
<1> QED BY <1>1, <1>2

\* The line in which a whole record ends, when it can be read.
LEMMA RecordEnds ==
  ASSUME NEW file \in Seq(Parts), NoEmpty(file), NEW d \in Accepted, NEW at \in Nat,
         Lies(file, at, d), \A i \in 1 .. Len(Lines(file)) : Readable(Lines(file)[i]),
         NEW e, e = Ends(file, at + Len(Pieces(d)))
  PROVE  /\ e \in 1 .. Len(Lines(file)) /\ RecordsOf(Lines(file))[e] = Written[d]
         /\ file[at + Len(Pieces(d))] = EndOfLine
<1> DEFINE p == Pieces(d)
           l == Len(p)
           line == Lines(file)[e]
<1>1. /\ l \in {3, 5} /\ p[l] = EndOfLine
      /\ OneLine(d) => p = <<Piece("text", d), Piece("brace", d), EndOfLine>> /\ l = 3
      /\ ~OneLine(d) => l = 5 /\ p[3] = Piece("rest", d)
  BY PiecesAre
<1>2. /\ at + l <= Len(file) /\ Len(file) \in Nat
      /\ \A k \in 1 .. l : file[at + k] = p[k]
  BY DEF Lies
<1> HIDE DEF p, l
<1>3. l \in Nat /\ l > 0 /\ at + l \in 1 .. Len(file) /\ file[at + l] = EndOfLine
  <2>1. l \in Nat /\ l > 0
    BY <1>1
  <2>2. l \in 1 .. l
    BY <2>1
  <2> QED BY <1>1, <1>2, <2>1, <2>2
<1>4. e \in 1 .. Len(Lines(file)) /\ EndsAt(line, file, at + l)
  <2>1. e = Ends(file, at + l)
    BY DEF l, p
  <2> HIDE DEF line
  <2> QED BY <1>3, <2>1, LinesAre DEF line
<1>5. /\ Len(line) = 2 /\ line[1].part = "text"
  BY <1>4 DEF Readable
<1>6. line[1] = p[l - 2]
  <2>2. line[1] = file[at + l - 1 - 1]
    <3> HIDE DEF line
    <3>0. at + l \in Nat
      BY <1>3
    <3>1. line[1] = file[(at + l) - 2]
      BY <3>0, <1>4, <1>5, LineOfTwo
    <3>2. (at + l) - 2 = at + l - 1 - 1
      BY <1>3
    <3> QED BY <3>1, <3>2
  <2>3. l - 2 \in 1 .. l /\ at + (l - 2) = at + l - 1 - 1
    BY <1>1, <1>3
  <2>4. file[at + (l - 2)] = p[l - 2]
    BY <1>2, <2>3
  <2> HIDE DEF line
  <2> QED BY <2>2, <2>3, <2>4
<1>7. OneLine(d)
  <2> SUFFICES ASSUME ~OneLine(d) PROVE FALSE
    OBVIOUS
  <2>1. line[1] = Piece("rest", d)
    <3>1. l - 2 = 3 /\ p[3] = Piece("rest", d)
      BY <1>1
    <3> HIDE DEF line
    <3> QED BY <1>6, <3>1
  <2>2. Piece("rest", d).part = "rest"
    BY DEF Piece
  <2> HIDE DEF line
  <2> QED BY <1>5, <2>1, <2>2
<1>8. line[1] = Piece("text", d)
  <2>1. l - 2 = 1 /\ p[1] = Piece("text", d)
    BY <1>1, <1>7
  <2> HIDE DEF line
  <2> QED BY <1>6, <2>1
<1>9. line[1].of = d
  <2> HIDE DEF line
  <2> QED BY <1>8 DEF Piece
<1>10. RecordsOf(Lines(file))[e] = Written[line[1].of]
  BY <1>4 DEF RecordsOf
<1>11. RecordsOf(Lines(file))[e] = Written[d]
  <2> HIDE DEF line
  <2> QED BY <1>9, <1>10
<1> QED BY <1>3, <1>4, <1>11 DEF l, p

LEMMA AcknowledgedFollows == IInv => ReadableHoldsAcknowledged
<1> SUFFICES ASSUME IInv, Answers(history)
             PROVE  \E place \in [DOMAIN acknowledged -> DOMAIN Records(history)] :
                      /\ \A i \in DOMAIN acknowledged :
                           Records(history)[place[i]] = Written[acknowledged[i]]
                      /\ \A i, j \in DOMAIN acknowledged : i < j => place[i] < place[j]
  BY DEF ReadableHoldsAcknowledged
<1> DEFINE lines == Lines(history)
           docs == acknowledged
           N == Len(docs)
<1>1. /\ history \in Seq(Parts) /\ NoEmpty(history) /\ docs \in Seq(Accepted)
      /\ N \in Nat /\ DOMAIN docs = 1 .. N
  BY DEF IInv, StoreOK
<1>2. PICK n \in Nat : Placed(history, docs, n)
  BY DEF IInv, StoreOK
<1>3. PICK at : at \in [1 .. N -> Nat] /\ PlacedAt(at, history, docs, n)
  BY <1>2 DEF Placed
<1>4. lines \in Seq(Seq(Parts)) /\ \A i \in 1 .. Len(lines) : lines[i] # <<>>
  BY <1>1, LinesAre
<1>5. \A i \in 1 .. Len(lines) : Readable(lines[i])
  <2> DEFINE t == CHOOSE t \in Targets : TRUE
             r == Reading(lines, t)[Len(lines)]
  <2>1. HistoryRead(r, lines, Len(lines), t)
    <3>1. Len(lines) \in Nat
      BY <1>4
    <3> HIDE DEF lines, t
    <3> QED BY <1>4, <3>1, AllRead
  <2>2. r.error = 0
    BY DEF Answers, analyze_history
  <2> HIDE DEF lines, r
  <2> QED BY <2>1, <2>2 DEF HistoryRead, AllFit
<1>6. Records(history) = RecordsOf(lines) /\ DOMAIN Records(history) = 1 .. Len(lines)
  BY <1>4 DEF Records, RecordsOf
<1> DEFINE last(i) == at[i] + Len(Pieces(docs[i]))
           place == [i \in 1 .. N |-> Ends(history, last(i))]
<1>7. ASSUME NEW i \in 1 .. N
      PROVE  /\ place[i] \in 1 .. Len(lines)
             /\ RecordsOf(lines)[place[i]] = Written[docs[i]]
             /\ history[last(i)] = EndOfLine /\ last(i) \in Nat /\ last(i) > at[i]
  <2>1. docs[i] \in Accepted /\ at[i] \in Nat /\ Lies(history, at[i], docs[i])
    BY <1>1, <1>3, ElementOfSeq DEF PlacedAt
  <2>2. place[i] = Ends(history, at[i] + Len(Pieces(docs[i])))
    OBVIOUS
  <2>3. Len(Pieces(docs[i])) \in Nat /\ Len(Pieces(docs[i])) > 0
    BY <2>1, PiecesAre
  <2> HIDE DEF place, lines
  <2> QED BY <1>1, <1>5, <2>1, <2>2, <2>3, RecordEnds DEF lines
<1>8. ASSUME NEW i \in 1 .. N, NEW j \in 1 .. N, i < j PROVE place[i] < place[j]
  <2>1. last(i) <= at[j]
    BY <1>3, <1>8 DEF PlacedAt
  <2>2. /\ at[j] \in Nat /\ last(i) \in Nat /\ last(j) \in Nat /\ at[j] < last(j)
        /\ history[last(j)] = EndOfLine
    BY <1>3, <1>7
  <2>3. last(i) < last(j)
    <3> HIDE DEF last
    <3> QED BY <2>1, <2>2
  <2>4. place[i] = Ends(history, last(i)) /\ place[j] = Ends(history, last(j))
    OBVIOUS
  <2> HIDE DEF last, place
  <2> QED BY <2>2, <2>3, <2>4, EndsGrow
<1>9. place \in [1 .. N -> 1 .. Len(lines)]
  BY <1>7
<1> HIDE DEF place, lines
<1> QED BY <1>1, <1>6, <1>7, <1>8, <1>9

\* A history that is read holds, in their order, all the records that reached
\* the end of their command, whatever was killed or cut short in between: what
\* is torn is never skipped together with the good record appended to it.
THEOREM AcknowledgedKept == Spec => []ReadableHoldsAcknowledged
<1> QED BY InvariantHolds, AcknowledgedFollows, PTL

-----------------------------------------------------------------------------
(* compact_json                                                            *)

QuotesTo(text, n) == {j \in 1 .. n : text[j] = Quote}
MeantTo(text, n) == {i \in Meant(text) : i <= n}

\* The scan of the first n characters, begun outside of a string.
ScanOK(s, text, n) ==
  /\ s = [out |-> s.out, in |-> s.in]
  /\ s.in \in BOOLEAN
  /\ s.in <=> Quoted(text, n + 1)
  /\ s.out \in Seq(STRING)
  /\ Len(s.out) = Cardinality(MeantTo(text, n))
  /\ \A i \in MeantTo(text, n) :
       Rank(text, i) + 1 \in 1 .. Len(s.out) /\ s.out[Rank(text, i) + 1] = text[i]
  /\ \A k \in 1 .. Len(s.out) : \E i \in MeantTo(text, n) : Rank(text, i) + 1 = k

LEMMA QuotedStep ==
  ASSUME NEW text \in Seq(STRING), NEW n \in 0 .. Len(text) - 1
  PROVE  Quoted(text, n + 2) <=> (Quoted(text, n + 1) <=> text[n + 1] # Quote)
<1>1. Len(text) \in Nat /\ DOMAIN text = 1 .. Len(text) /\ n \in Nat
  OBVIOUS
<1>2. /\ {j \in DOMAIN text : j < n + 1 /\ text[j] = Quote} = QuotesTo(text, n)
      /\ {j \in DOMAIN text : j < n + 2 /\ text[j] = Quote} = QuotesTo(text, n + 1)
  BY <1>1 DEF QuotesTo
<1>3. /\ Quoted(text, n + 1) <=> Cardinality(QuotesTo(text, n)) % 2 = 1
      /\ Quoted(text, n + 2) <=> Cardinality(QuotesTo(text, n + 1)) % 2 = 1
  BY <1>2 DEF Quoted
<1>4. IsFiniteSet(QuotesTo(text, n)) /\ Cardinality(QuotesTo(text, n)) \in Nat
  <2>1. QuotesTo(text, n) \subseteq 1 .. n
    BY DEF QuotesTo
  <2>2. IsFiniteSet(1 .. n)
    BY <1>1, FS_Interval
  <2> QED BY <2>1, <2>2, FS_Subset, FS_CardinalityType
<1>5. CASE text[n + 1] = Quote
  <2>1. QuotesTo(text, n + 1) = QuotesTo(text, n) \cup {n + 1} /\ n + 1 \notin QuotesTo(text, n)
    BY <1>1, <1>5 DEF QuotesTo
  <2>2. Cardinality(QuotesTo(text, n + 1)) = Cardinality(QuotesTo(text, n)) + 1
    BY <1>4, <2>1, FS_AddElement
  <2> DEFINE c == Cardinality(QuotesTo(text, n))
  <2>3. c \in Nat
    BY <1>4
  <2> HIDE DEF c
  <2>4. (c + 1) % 2 = 1 <=> ~(c % 2 = 1)
    BY <2>3
  <2> QED BY <1>3, <1>5, <2>2, <2>4 DEF c
<1>6. CASE text[n + 1] # Quote
  <2>1. QuotesTo(text, n + 1) = QuotesTo(text, n)
    BY <1>1, <1>6 DEF QuotesTo
  <2> QED BY <1>3, <1>6, <2>1
<1> QED BY <1>5, <1>6

LEMMA MeantIs ==
  ASSUME NEW text \in Seq(STRING), NEW n \in 0 .. Len(text) - 1
  PROVE  /\ IsFiniteSet(MeantTo(text, n)) /\ Cardinality(MeantTo(text, n)) \in Nat
         /\ Rank(text, n + 1) = Cardinality(MeantTo(text, n))
         /\ n + 1 \in Meant(text) =>
              /\ MeantTo(text, n + 1) = MeantTo(text, n) \cup {n + 1}
              /\ Cardinality(MeantTo(text, n + 1)) = Cardinality(MeantTo(text, n)) + 1
         /\ n + 1 \notin Meant(text) => MeantTo(text, n + 1) = MeantTo(text, n)
         /\ \A i \in MeantTo(text, n) : i \in 1 .. n
<1>1. Len(text) \in Nat /\ DOMAIN text = 1 .. Len(text) /\ n \in Nat
  OBVIOUS
<1>2. Meant(text) \subseteq 1 .. Len(text)
  BY <1>1 DEF Meant
<1>3. MeantTo(text, n) \subseteq 1 .. n
  BY <1>1, <1>2 DEF MeantTo
<1>4. IsFiniteSet(MeantTo(text, n)) /\ Cardinality(MeantTo(text, n)) \in Nat
  <2>1. IsFiniteSet(1 .. n)
    BY <1>1, FS_Interval
  <2> QED BY <1>3, <2>1, FS_Subset, FS_CardinalityType
<1>5. {j \in Meant(text) : j < n + 1} = MeantTo(text, n)
  BY <1>1, <1>2 DEF MeantTo
<1>6. Rank(text, n + 1) = Cardinality(MeantTo(text, n))
  BY <1>5 DEF Rank
<1>7. ASSUME n + 1 \in Meant(text)
      PROVE  /\ MeantTo(text, n + 1) = MeantTo(text, n) \cup {n + 1}
             /\ Cardinality(MeantTo(text, n + 1)) = Cardinality(MeantTo(text, n)) + 1
  <2>1. MeantTo(text, n + 1) = MeantTo(text, n) \cup {n + 1} /\ n + 1 \notin MeantTo(text, n)
    BY <1>1, <1>2, <1>7 DEF MeantTo
  <2> QED BY <1>4, <2>1, FS_AddElement
<1>8. ASSUME n + 1 \notin Meant(text) PROVE MeantTo(text, n + 1) = MeantTo(text, n)
  BY <1>1, <1>2, <1>8 DEF MeantTo
<1> QED BY <1>3, <1>4, <1>6, <1>7, <1>8

LEMMA ScanStep ==
  ASSUME NEW text \in Seq(STRING), NEW n \in 0 .. Len(text) - 1,
         NEW s, ScanOK(s, text, n), NEW r, r = Scan(s, text[n + 1])
  PROVE  ScanOK(r, text, n + 1)
<1> DEFINE c == text[n + 1]
           m == n + 1
           count == Cardinality(MeantTo(text, n))
<1>1. /\ s = [out |-> s.out, in |-> s.in] /\ s.in \in BOOLEAN
      /\ s.in <=> Quoted(text, n + 1)
      /\ s.out \in Seq(STRING) /\ Len(s.out) = count
      /\ \A i \in MeantTo(text, n) :
           Rank(text, i) + 1 \in 1 .. Len(s.out) /\ s.out[Rank(text, i) + 1] = text[i]
      /\ \A k \in 1 .. Len(s.out) : \E i \in MeantTo(text, n) : Rank(text, i) + 1 = k
  BY DEF ScanOK
<1>2. /\ c \in STRING /\ m \in DOMAIN text /\ n + 1 + 1 = n + 2
  OBVIOUS
<1>3. Quoted(text, n + 2) <=> (Quoted(text, n + 1) <=> c # Quote)
  BY QuotedStep
<1>4. m \in Meant(text) <=> (c \in White => Quoted(text, m))
  BY <1>2 DEF Meant
<1>5. /\ count \in Nat /\ Rank(text, m) = count
      /\ m \in Meant(text) => MeantTo(text, m) = MeantTo(text, n) \cup {m}
                              /\ Cardinality(MeantTo(text, m)) = count + 1
      /\ m \notin Meant(text) => MeantTo(text, m) = MeantTo(text, n)
  BY MeantIs
<1>6. Quote \notin White
  BY DEF Quote, White, Space, Newline
<1>7. CASE c \in White /\ ~s.in
  <2>1. r = s
    BY <1>6, <1>7 DEF Scan
  <2>2. m \notin Meant(text) /\ ~Quoted(text, n + 1 + 1)
    BY <1>1, <1>2, <1>3, <1>4, <1>6, <1>7
  <2>3. MeantTo(text, m) = MeantTo(text, n)
    BY <1>5, <2>2
  <2>4. r.in <=> Quoted(text, n + 1 + 1)
    BY <1>7, <2>1, <2>2
  <2> QED BY <1>1, <2>1, <2>3, <2>4 DEF ScanOK
<1>8. ASSUME NEW b \in BOOLEAN, r = [out |-> Append(s.out, c), in |-> b],
             b <=> Quoted(text, n + 1 + 1), m \in Meant(text)
      PROVE  ScanOK(r, text, m)
  <2> DEFINE out == Append(s.out, c)
  <2>1. /\ out \in Seq(STRING) /\ Len(out) = count + 1 /\ out[count + 1] = c
        /\ \A k \in 1 .. count : out[k] = s.out[k]
    BY <1>1, <1>2
  <2>2. r = [out |-> out, in |-> b]
    BY <1>8
  <2> HIDE DEF out
  <2>3. r.out = out /\ r.in = b /\ r = [out |-> r.out, in |-> r.in]
    BY <2>2
  <2>4. MeantTo(text, m) = MeantTo(text, n) \cup {m} /\ Cardinality(MeantTo(text, m)) = count + 1
    BY <1>5, <1>8
  <2> HIDE DEF c, count, m
  <2>5. ASSUME NEW i \in MeantTo(text, m)
        PROVE  Rank(text, i) + 1 \in 1 .. Len(out) /\ out[Rank(text, i) + 1] = text[i]
    <3>1. CASE i = m
      <4>1. Rank(text, i) + 1 = count + 1 /\ text[i] = c
        BY <1>5, <3>1 DEF c, m
      <4>2. count + 1 \in 1 .. Len(out)
        BY <1>5, <2>1
      <4> QED BY <2>1, <4>1, <4>2
    <3>2. CASE i # m
      <4>1. i \in MeantTo(text, n)
        BY <2>4, <3>2
      <4>2. Rank(text, i) + 1 \in 1 .. count /\ s.out[Rank(text, i) + 1] = text[i]
        BY <1>1, <4>1
      <4>3. Rank(text, i) + 1 \in 1 .. Len(out)
        BY <1>5, <2>1, <4>2
      <4> QED BY <2>1, <4>2, <4>3
    <3> QED BY <3>1, <3>2
  <2>6. ASSUME NEW k \in 1 .. Len(out)
        PROVE  \E i \in MeantTo(text, m) : Rank(text, i) + 1 = k
    <3>1. CASE k = count + 1
      <4>1. m \in MeantTo(text, m) /\ Rank(text, m) + 1 = k
        BY <1>5, <2>4, <3>1
      <4> QED BY <4>1
    <3>2. CASE k # count + 1
      <4>1. k \in 1 .. Len(s.out)
        BY <1>1, <1>5, <2>1, <3>2
      <4>2. PICK i \in MeantTo(text, n) : Rank(text, i) + 1 = k
        BY <1>1, <4>1
      <4> QED BY <2>4, <4>2
    <3> QED BY <3>1, <3>2
  <2>7. r.in \in BOOLEAN /\ (r.in <=> Quoted(text, m + 1))
    BY <1>8, <2>3, Zenon DEF m
  <2> QED BY <2>1, <2>3, <2>4, <2>5, <2>6, <2>7 DEF ScanOK
<1>9. CASE c = Quote
  <2>1. r = [out |-> Append(s.out, c), in |-> ~s.in]
    BY <1>9 DEF Scan
  <2>2. ~s.in <=> Quoted(text, n + 1 + 1)
    BY <1>1, <1>2, <1>3, <1>9
  <2>3. m \in Meant(text) /\ (~s.in) \in BOOLEAN
    BY <1>4, <1>6, <1>9
  <2> QED BY <1>8, <2>1, <2>2, <2>3
<1>10. CASE c # Quote /\ ~(c \in White /\ ~s.in)
  <2>1. r = [out |-> Append(s.out, c), in |-> s.in]
    BY <1>10 DEF Scan
  <2>2. s.in <=> Quoted(text, n + 1 + 1)
    BY <1>1, <1>2, <1>3, <1>10
  <2>3. m \in Meant(text)
    BY <1>1, <1>4, <1>10
  <2> QED BY <1>1, <1>8, <2>1, <2>2, <2>3
<1> QED BY <1>7, <1>9, <1>10

\* A scan begins outside of a string.
Outside == FALSE

LEMMA OutsideIs == Outside \in BOOLEAN /\ ~Outside
<1> QED BY DEF Outside

LEMMA ScanIs ==
  ASSUME NEW text \in Seq(STRING)
  PROVE  ScanOK(Scanned(text, Outside), text, Len(text))
<1> DEFINE R(n) == Scanning(text, Outside)[n]
           S == {n \in 0 .. Len(text) : ScanOK(R(n), text, n)}
<1>1. Len(text) \in Nat /\ DOMAIN text = 1 .. Len(text)
  OBVIOUS
<1>2. 0 \in S
  <2> DEFINE z == [out |-> <<>>, in |-> Outside]
  <2>1. R(0) = z
    BY <1>1, ScanningIs
  <2>2. MeantTo(text, 0) = {} /\ {j \in DOMAIN text : j < 0 + 1 /\ text[j] = Quote} = {}
    BY <1>1 DEF MeantTo, Meant
  <2>3. Cardinality(MeantTo(text, 0)) = 0 /\ ~Quoted(text, 0 + 1)
    <3>1. Cardinality({}) = 0 /\ ~(0 % 2 = 1)
      BY FS_EmptySet
    <3>2. Quoted(text, 0 + 1) <=> Cardinality({}) % 2 = 1
      BY <2>2, Zenon DEF Quoted
    <3> QED BY <2>2, <3>1, <3>2, Zenon
  <2>4. z.out = <<>> /\ z.in = Outside /\ z = [out |-> z.out, in |-> z.in]
    OBVIOUS
  <2>5. z.in \in BOOLEAN /\ (z.in <=> Quoted(text, 0 + 1))
    BY <2>3, <2>4, OutsideIs, Zenon
  <2>6. <<>> \in Seq(STRING) /\ Len(<<>>) = 0
    OBVIOUS
  <2> HIDE DEF z
  <2>7. ScanOK(z, text, 0)
    BY <2>2, <2>3, <2>4, <2>5, <2>6 DEF ScanOK
  <2> QED BY <1>1, <2>1, <2>7
<1>3. ASSUME NEW n \in 1 .. Len(text), n - 1 \in S PROVE n \in S
  <2>0. \A k \in 1 .. Len(text) :
          Scanning(text, Outside)[k] = Scan(Scanning(text, Outside)[k - 1], text[k])
    BY <1>1, ScanningIs, ZenonT(60)
  <2>1. R(n) = Scan(R(n - 1), text[n])
    BY <2>0, Zenon
  <2>2. n - 1 \in 0 .. Len(text) - 1 /\ (n - 1) + 1 = n
    BY <1>1
  <2>3. ScanOK(R(n), text, n)
    <3> HIDE DEF R
    <3>1. ScanOK(R(n), text, (n - 1) + 1)
      BY <1>3, <2>1, <2>2, ScanStep
    <3> QED BY <2>2, <3>1
  <2> QED BY <1>1, <2>3
<1>4. 0 .. Len(text) \subseteq S
  <2> HIDE DEF S
  <2> QED BY <1>1, <1>2, <1>3, Steps
<1>5. Len(text) \in S
  BY <1>1, <1>4
<1> QED BY <1>5 DEF Scanned

\* Two texts mean the same when compact_json leaves the same of them.
LEMMA MeaningIs ==
  ASSUME NEW t \in Seq(STRING), NEW u \in Seq(STRING)
  PROVE  SameMeaning(t, u) <=> Scanned(t, Outside).out = Scanned(u, Outside).out
<1> DEFINE x == Scanned(t, Outside).out
           y == Scanned(u, Outside).out
<1>1. ASSUME NEW text \in Seq(STRING)
      PROVE  LET out == Scanned(text, Outside).out IN
             /\ out \in Seq(STRING)
             /\ Len(out) = Cardinality(Meant(text))
             /\ \A i \in Meant(text) :
                  Rank(text, i) + 1 \in 1 .. Len(out) /\ out[Rank(text, i) + 1] = text[i]
             /\ \A k \in 1 .. Len(out) : \E i \in Meant(text) : Rank(text, i) + 1 = k
             /\ \A i \in Meant(text) : Rank(text, i) \in Nat
  <2>1. ScanOK(Scanned(text, Outside), text, Len(text))
    BY ScanIs
  <2>2. MeantTo(text, Len(text)) = Meant(text)
    BY DEF MeantTo, Meant
  <2>3. ASSUME NEW i \in Meant(text) PROVE Rank(text, i) \in Nat
    <3>1. i - 1 \in 0 .. Len(text) - 1 /\ (i - 1) + 1 = i
      BY DEF Meant
    <3>2. Rank(text, (i - 1) + 1) \in Nat
      BY <3>1, MeantIs, SMTT(30)
    <3> QED BY <3>1, <3>2
  <2> QED BY <2>1, <2>2, <2>3 DEF ScanOK
<1>2. /\ x \in Seq(STRING) /\ Len(x) = Cardinality(Meant(t))
      /\ \A i \in Meant(t) : /\ Rank(t, i) + 1 \in 1 .. Len(x) /\ Rank(t, i) \in Nat
                             /\ x[Rank(t, i) + 1] = t[i]
      /\ \A k \in 1 .. Len(x) : \E i \in Meant(t) : Rank(t, i) + 1 = k
  BY <1>1
<1>3. /\ y \in Seq(STRING) /\ Len(y) = Cardinality(Meant(u))
      /\ \A i \in Meant(u) : /\ Rank(u, i) + 1 \in 1 .. Len(y) /\ Rank(u, i) \in Nat
                             /\ y[Rank(u, i) + 1] = u[i]
      /\ \A k \in 1 .. Len(y) : \E i \in Meant(u) : Rank(u, i) + 1 = k
  BY <1>1
<1> HIDE DEF x, y
<1>4. ASSUME SameMeaning(t, u) PROVE x = y
  <2>1. Len(x) = Len(y)
    BY <1>2, <1>3, <1>4 DEF SameMeaning
  <2>2. ASSUME NEW k \in 1 .. Len(x) PROVE x[k] = y[k]
    <3>1. PICK i \in Meant(t) : Rank(t, i) + 1 = k
      BY <1>2
    <3>2. k \in 1 .. Len(y)
      BY <2>1
    <3>3. PICK j \in Meant(u) : Rank(u, j) + 1 = k
      BY <1>3, <3>2
    <3>4. Rank(t, i) = Rank(u, j)
      <4>1. Rank(t, i) \in Nat /\ Rank(u, j) \in Nat
        BY <1>2, <1>3
      <4> QED BY <3>1, <3>3, <4>1
    <3>5. t[i] = u[j]
      BY <1>4, <3>4 DEF SameMeaning
    <3> QED BY <1>2, <1>3, <3>1, <3>3, <3>5
  <2> QED BY <1>2, <1>3, <2>1, <2>2, SeqEqual
<1>5. ASSUME x = y PROVE SameMeaning(t, u)
  BY <1>2, <1>3, <1>5 DEF SameMeaning
<1> QED BY <1>4, <1>5 DEF x, y

-----------------------------------------------------------------------------
(* The record of a document                                                *)

LEMMA TextsAre ==
  ASSUME NEW i \in Inventory
  PROVE  /\ i.lead \in Seq(STRING)
         /\ Len(i.tools) \in Nat /\ DOMAIN i.tools = 1 .. Len(i.tools)
         /\ \A n \in 1 .. Len(i.tools) :
              i.tools[n] \in Tool /\ i.tools[n].definition \in Seq(STRING)
<1>1. i.lead \in Seq(STRING) /\ i.tools \in Seq(Tool)
  BY DEF Inventory, Text
<1>2. ASSUME NEW n \in 1 .. Len(i.tools)
      PROVE  i.tools[n] \in Tool /\ i.tools[n].definition \in Seq(STRING)
  <2>1. i.tools[n] \in Tool
    BY <1>1, ElementOfSeq
  <2> DEFINE t == i.tools[n]
  <2>2. t \in Tool
    BY <2>1
  <2> HIDE DEF t
  <2>3. t.definition \in Seq(STRING)
    BY <2>2 DEF Tool, Text
  <2> QED BY <2>1, <2>3 DEF t
<1> QED BY <1>1, <1>2

\* What compact_json leaves of tool n, and of the inventory.
ToolLeft(i, n) ==
  [members |-> i.tools[n].members, nested |-> i.tools[n].nested,
   name |-> i.tools[n].name,
   definition |-> Scanned(i.tools[n].definition, Carried(i)[n - 1]).out]

LEMMA CompactIs ==
  ASSUME NEW i \in Inventory
  PROVE  compact_json(i) =
           [members |-> i.members, nested |-> i.nested, version |-> i.version,
            server |-> i.server, executable |-> i.executable, lead |-> Lead(i).out,
            tools |-> [n \in 1 .. Len(i.tools) |-> ToolLeft(i, n)]]
<1> DEFINE T == [n \in DOMAIN i.tools |-> CompactTool(i.tools[n], Carried(i)[n - 1])]
           U == [n \in 1 .. Len(i.tools) |-> ToolLeft(i, n)]
<1>1. i = [members |-> i.members, nested |-> i.nested, version |-> i.version,
           server |-> i.server, executable |-> i.executable, lead |-> i.lead,
           tools |-> i.tools]
      /\ i.tools \in Seq(Tool)
  BY DEF Inventory
<1>2. DOMAIN i.tools = 1 .. Len(i.tools)
  BY <1>1
<1>3. ASSUME NEW n \in 1 .. Len(i.tools)
      PROVE  CompactTool(i.tools[n], Carried(i)[n - 1]) = ToolLeft(i, n)
  <2> DEFINE t == i.tools[n]
             x == Scanned(t.definition, Carried(i)[n - 1]).out
  <2>1. t \in Tool
    BY <1>1, ElementOfSeq
  <2>2. t = [members |-> t.members, nested |-> t.nested, name |-> t.name,
             definition |-> t.definition]
    <3> HIDE DEF t
    <3> QED BY <2>1 DEF Tool
  <2>3. [t EXCEPT !.definition = x] =
          [members |-> t.members, nested |-> t.nested, name |-> t.name, definition |-> x]
    <3> HIDE DEF t, x
    <3> QED BY <2>2
  <2> QED BY <2>3 DEF ToolLeft, CompactTool
<1>4. T = U
  BY <1>2, <1>3
<1>5. compact_json(i) = [i EXCEPT !.lead = Lead(i).out, !.tools = T]
  BY DEF compact_json
<1> HIDE DEF T
<1>6. compact_json(i) =
        [members |-> i.members, nested |-> i.nested, version |-> i.version,
         server |-> i.server, executable |-> i.executable, lead |-> Lead(i).out,
         tools |-> T]
  BY <1>1, <1>5
<1> QED BY <1>4, <1>6

\* The tools of the record, one by one.
LEMMA CompactTools ==
  ASSUME NEW i \in Inventory, NEW c, c = compact_json(i)
  PROVE  /\ c.members = i.members /\ c.nested = i.nested /\ c.version = i.version
         /\ c.server = i.server /\ c.executable = i.executable /\ c.lead = Lead(i).out
         /\ Len(c.tools) = Len(i.tools) /\ DOMAIN c.tools = 1 .. Len(i.tools)
         /\ Len(i.tools) \in Nat /\ DOMAIN i.tools = 1 .. Len(i.tools)
         /\ \A n \in 1 .. Len(i.tools) :
              /\ i.tools[n] \in Tool
              /\ c.tools[n].members = i.tools[n].members
              /\ c.tools[n].nested = i.tools[n].nested
              /\ c.tools[n].name = i.tools[n].name
              /\ c.tools[n].definition =
                   Scanned(i.tools[n].definition, Carried(i)[n - 1]).out
<1> DEFINE T == [n \in 1 .. Len(i.tools) |-> ToolLeft(i, n)]
<1>1. i.tools \in Seq(Tool) /\ Len(i.tools) \in Nat /\ DOMAIN i.tools = 1 .. Len(i.tools)
  BY DEF Inventory
<1>2. c = [members |-> i.members, nested |-> i.nested, version |-> i.version,
           server |-> i.server, executable |-> i.executable, lead |-> Lead(i).out,
           tools |-> T]
  BY CompactIs
<1>3. c.tools = T
  <2> HIDE DEF T
  <2> QED BY <1>2
<1>4. DOMAIN T = 1 .. Len(i.tools) /\ Len(T) = Len(i.tools)
  BY <1>1
<1>5. ASSUME NEW n \in 1 .. Len(i.tools)
      PROVE  /\ i.tools[n] \in Tool
             /\ c.tools[n].members = i.tools[n].members
             /\ c.tools[n].nested = i.tools[n].nested
             /\ c.tools[n].name = i.tools[n].name
             /\ c.tools[n].definition =
                  Scanned(i.tools[n].definition, Carried(i)[n - 1]).out
  <2>1. i.tools[n] \in Tool
    BY <1>1, ElementOfSeq
  <2>2. c.tools[n] = ToolLeft(i, n)
    BY <1>3
  <2> QED BY <2>1, <2>2 DEF ToolLeft
<1> HIDE DEF T
<1> QED BY <1>1, <1>2, <1>3, <1>4, <1>5

\* Every record of a document is a document.
LEMMA Unique ==
  ASSUME NEW members, NEW k, NEW n \in DOMAIN members,
         \A m \in DOMAIN members : members[m] = k <=> m = n
  PROVE  Count(members, k) = 1
<1>1. {i \in DOMAIN members : members[i] = k} = {n}
  OBVIOUS
<1>2. Cardinality({n}) = 1
  BY FS_Singleton
<1> QED BY <1>1, <1>2 DEF Count

LEMMA MembersOnce ==
  /\ \A k \in ObservationMembers : Count(WrittenMembers, k) = 1
  /\ \A k \in SensorMembers : Count(WrittenSensor.members, k) = 1
<1>1. ASSUME NEW k \in ObservationMembers PROVE Count(WrittenMembers, k) = 1
  <2> DEFINE w == WrittenMembers
  <2>1. /\ DOMAIN w = 1 .. 7
        /\ w[1] = "observation_version" /\ w[2] = "observed_at" /\ w[3] = "target_id"
        /\ w[4] = "source_type" /\ w[5] = "sensor" /\ w[6] = "configuration_profile"
        /\ w[7] = "inventory"
    BY DEF WrittenMembers
  <2>2. \A m \in DOMAIN w : m = 1 \/ m = 2 \/ m = 3 \/ m = 4 \/ m = 5 \/ m = 6 \/ m = 7
    BY <2>1
  <2> HIDE DEF w
  <2>3. PICK n \in 1 .. 7 : w[n] = k
    BY <2>1 DEF ObservationMembers
  <2>4. \A m \in DOMAIN w : w[m] = k <=> m = n
    BY <2>1, <2>2, <2>3
  <2>5. n \in DOMAIN w
    BY <2>1
  <2> QED BY <2>4, <2>5, Unique DEF w
<1>2. ASSUME NEW k \in SensorMembers PROVE Count(WrittenSensor.members, k) = 1
  <2> DEFINE w == WrittenSensor.members
  <2>1. DOMAIN w = 1 .. 2 /\ w[1] = "name" /\ w[2] = "version"
    BY DEF WrittenSensor
  <2>2. \A m \in DOMAIN w : m = 1 \/ m = 2
    BY <2>1
  <2> HIDE DEF w
  <2>3. PICK n \in 1 .. 2 : w[n] = k
    BY <2>1 DEF SensorMembers
  <2>4. \A m \in DOMAIN w : w[m] = k <=> m = n
    BY <2>1, <2>2, <2>3
  <2>5. n \in DOMAIN w
    BY <2>1
  <2> QED BY <2>4, <2>5, Unique DEF w
<1> QED BY <1>1, <1>2

LEMMA RecordsReread == Rereadable = Accepted
<1> SUFFICES ASSUME NEW d \in Accepted PROVE d \in Rereadable
  BY DEF Rereadable
<1> DEFINE w == Written[d]
           i == d.inventory
           c == compact_json(i)
<1>1. /\ d \in Document /\ read_observation(d)
      /\ w = [members |-> WrittenMembers, nested |-> 0,
              version |-> d.version, at |-> d.at, target |-> d.target,
              identity |-> d.identity, sensor |-> WrittenSensor, inventory |-> c]
  BY WrittenIs
<1>2. i \in Inventory /\ d.sensor \in Object
  BY <1>1 DEF Document
<1>3. /\ c.members = i.members /\ c.nested = i.nested /\ c.version = i.version
      /\ c.server = i.server
      /\ Len(c.tools) = Len(i.tools) /\ DOMAIN c.tools = 1 .. Len(i.tools)
      /\ DOMAIN i.tools = 1 .. Len(i.tools)
      /\ \A n \in 1 .. Len(i.tools) :
           /\ c.tools[n].members = i.tools[n].members
           /\ c.tools[n].nested = i.tools[n].nested
           /\ c.tools[n].name = i.tools[n].name
  BY <1>2, CompactTools
<1> HIDE DEF c
<1>4. /\ w.members = WrittenMembers /\ w.nested = 0 /\ w.version = d.version /\ w.at = d.at
      /\ w.identity = d.identity /\ w.sensor = WrittenSensor /\ w.inventory = c
  <2> HIDE DEF w
  <2> QED BY <1>1
<1> HIDE DEF w, i
<1>5. /\ d.version = 1 /\ valid_utc_timestamp(d.at) /\ identity(d.identity)
      /\ sensor(d.sensor) /\ SkipsInventory(i) /\ read_inventory(i)
  BY <1>1 DEF read_observation, i
<1>6. Strict(w, ObservationMembers) /\ Strict(WrittenSensor, SensorMembers)
  BY <1>4, MembersOnce DEF Strict
<1>7. MaxDepth \in Nat /\ 1 <= MaxDepth
  <2>1. MaxDepth \in Nat
    BY LimitAssumption
  <2>2. 1 + d.sensor.nested <= MaxDepth /\ d.sensor.nested \in Nat
    BY <1>2, <1>5 DEF sensor, skip_value, Object
  <2> QED BY <2>1, <2>2
<1>8. skip_value(0, 0) /\ skip_value(1, 0)
  BY <1>7 DEF skip_value
<1>9. sensor(WrittenSensor)
  <2>1. WrittenSensor.nested = 0
    BY DEF WrittenSensor
  <2> QED BY <1>6, <1>8, <2>1 DEF sensor
<1>10. SkipsInventory(c)
  <2>1. \A n \in DOMAIN i.tools : skip_value(3, i.tools[n].nested)
    BY <1>5 DEF SkipsInventory
  <2>2. skip_value(1, i.nested) /\ skip_value(2, i.server.nested)
    BY <1>5 DEF SkipsInventory
  <2> QED BY <1>3, <2>1, <2>2 DEF SkipsInventory
<1>11. read_inventory(c)
  <2>1. /\ Strict(i, InventoryMembers) /\ skip_inventory_value(0, i.nested)
        /\ i.version = 1 /\ server(i.server) /\ parse_tools(i.tools)
        /\ SortedByName(i.tools)
    BY <1>5 DEF read_inventory
  <2>2. Strict(c, InventoryMembers)
    BY <1>3, <2>1 DEF Strict
  <2>3. parse_tools(c.tools)
    <3>1. ASSUME NEW n \in 1 .. Len(i.tools) PROVE tool(c.tools[n])
      <4>1. tool(i.tools[n])
        BY <1>3, <2>1 DEF parse_tools
      <4> QED BY <1>3, <4>1 DEF tool, Strict
    <3>2. Len(i.tools) <= MaxTools
      BY <2>1 DEF parse_tools
    <3> QED BY <1>3, <3>1, <3>2 DEF parse_tools
  <2>4. SortedByName(c.tools)
    BY <1>3, <2>1 DEF SortedByName
  <2> QED BY <1>3, <2>1, <2>2, <2>3, <2>4 DEF read_inventory
<1>12. read_observation(w)
  BY <1>4, <1>5, <1>6, <1>8, <1>9, <1>10, <1>11 DEF read_observation
<1> QED BY <1>12 DEF Rereadable, w

-----------------------------------------------------------------------------
(* Well-formed documents                                                   *)

\* compact_json begins every text of them outside of a string.
LEMMA CarriedOutside ==
  ASSUME NEW d \in Accepted, WellFormed(d)
  PROVE  /\ Lead(d.inventory) = Scanned(d.inventory.lead, Outside)
         /\ \A n \in 0 .. Len(d.inventory.tools) : Carried(d.inventory)[n] = Outside
<1> DEFINE i == d.inventory
           N == Len(i.tools)
           S == {n \in 0 .. N : Carried(i)[n] = Outside}
<1>1. i \in Inventory
  BY WrittenIs DEF Document
<1>2. /\ i.lead \in Seq(STRING) /\ N \in Nat /\ DOMAIN i.tools = 1 .. N
      /\ \A n \in 1 .. N : i.tools[n].definition \in Seq(STRING)
  BY <1>1, TextsAre
<1>3. Lead(i) = Scanned(i.lead, Outside)
  BY Zenon DEF Lead, Outside
<1>4. ASSUME NEW text \in Texts(i), text \in Seq(STRING)
      PROVE  Scanned(text, Outside).in = Outside
  <2>1. ~Quoted(text, Len(text) + 1)
    BY DEF WellFormed
  <2>2. /\ Scanned(text, Outside).in \in BOOLEAN
        /\ Scanned(text, Outside).in <=> Quoted(text, Len(text) + 1)
    BY <1>4, ScanIs DEF ScanOK
  <2> QED BY <2>1, <2>2, OutsideIs, Zenon
<1>5. /\ Carried(i)[0] = Lead(i).in
      /\ \A n \in 1 .. N : Carried(i)[n] = Open(i.tools[n].definition, Carried(i)[n - 1])
  BY <1>2, CarriedIs
<1>6. 0 \in S
  <2>1. i.lead \in Texts(i)
    BY DEF Texts
  <2>2. Lead(i).in = Outside
    BY <1>2, <1>3, <1>4, <2>1
  <2>3. 0 \in 0 .. N
    BY <1>2
  <2> QED BY <1>5, <2>2, <2>3
<1>7. ASSUME NEW n \in 1 .. N, n - 1 \in S PROVE n \in S
  <2>1. i.tools[n].definition \in Texts(i) /\ n \in 0 .. N
    <3>1. n \in DOMAIN i.tools
      BY <1>2
    <3> QED BY <1>2, <3>1 DEF Texts
  <2>2. Carried(i)[n] = Open(i.tools[n].definition, Outside)
    BY <1>5, <1>7
  <2>3. Open(i.tools[n].definition, Outside) = Outside
    BY <1>2, <1>4, <2>1 DEF Open
  <2> QED BY <2>1, <2>2, <2>3
<1>8. 0 .. N \subseteq S
  <2> HIDE DEF S, N
  <2> QED BY <1>2, <1>6, <1>7, Steps
<1> QED BY <1>3, <1>8

\* No newline is left of them, so their record is one line.
LEMMA WellFormedIsLine ==
  ASSUME NEW d \in Accepted, WellFormed(d)
  PROVE  OneLine(d)
<1> DEFINE i == d.inventory
           c == compact_json(i)
           N == Len(i.tools)
<1>1. i \in Inventory /\ Written[d].inventory = c
  <2>1. d \in Document
        /\ Written[d] = [members |-> WrittenMembers, nested |-> 0,
                         version |-> d.version, at |-> d.at, target |-> d.target,
                         identity |-> d.identity, sensor |-> WrittenSensor, inventory |-> c]
    BY WrittenIs
  <2> HIDE DEF c
  <2> QED BY <2>1 DEF Document
<1>2. /\ i.lead \in Seq(STRING) /\ N \in Nat /\ DOMAIN i.tools = 1 .. N
      /\ \A n \in 1 .. N : i.tools[n].definition \in Seq(STRING)
  BY <1>1, TextsAre
<1>3. ASSUME NEW text \in Texts(i), text \in Seq(STRING),
             NEW k \in DOMAIN Scanned(text, Outside).out
      PROVE  Scanned(text, Outside).out[k] # Newline
  <2> DEFINE s == Scanned(text, Outside)
  <2>1. ScanOK(s, text, Len(text))
    BY <1>3, ScanIs
  <2> HIDE DEF s
  <2>2. k \in 1 .. Len(s.out)
    BY <1>3, <2>1 DEF ScanOK, s
  <2>3. PICK j \in MeantTo(text, Len(text)) : Rank(text, j) + 1 = k /\ s.out[k] = text[j]
    BY <2>1, <2>2 DEF ScanOK
  <2>4. j \in DOMAIN text /\ (text[j] \in White => Quoted(text, j))
    BY <2>3 DEF MeantTo, Meant
  <2>5. text[j] = Newline => ~Quoted(text, j)
    BY <2>4 DEF WellFormed
  <2>6. text[j] # Newline
    BY <2>4, <2>5 DEF White
  <2> QED BY <2>3, <2>6 DEF s
<1>4. /\ Lead(i) = Scanned(i.lead, Outside)
      /\ \A n \in 0 .. N : Carried(i)[n] = Outside
  BY CarriedOutside
<1>5. ASSUME NEW text \in Texts(c), NEW k \in DOMAIN text PROVE text[k] # Newline
  <2>1. /\ c.lead = Lead(i).out /\ DOMAIN c.tools = 1 .. N
        /\ \A n \in 1 .. N : c.tools[n].definition =
              Scanned(i.tools[n].definition, Carried(i)[n - 1]).out
    BY <1>1, CompactTools
  <2> HIDE DEF c, N
  <2>2. text = c.lead \/ \E n \in 1 .. N : text = c.tools[n].definition
    BY <2>1 DEF Texts
  <2>3. CASE text = c.lead
    <3>1. i.lead \in Texts(i) /\ text = Scanned(i.lead, Outside).out
      BY <1>4, <2>1, <2>3 DEF Texts
    <3> QED BY <1>2, <1>3, <1>5, <3>1
  <2>4. CASE \E n \in 1 .. N : text = c.tools[n].definition
    <3>1. PICK n \in 1 .. N : text = c.tools[n].definition
      BY <2>4
    <3>2. n - 1 \in 0 .. N
      BY <1>2
    <3>3. text = Scanned(i.tools[n].definition, Outside).out
      BY <1>4, <2>1, <3>1, <3>2
    <3>4. i.tools[n].definition \in Texts(i) /\ i.tools[n].definition \in Seq(STRING)
      BY <1>2 DEF Texts
    <3> QED BY <1>3, <1>5, <3>3, <3>4
  <2> QED BY <2>2, <2>3, <2>4
<1> HIDE DEF c, i
<1> QED BY <1>1, <1>5 DEF OneLine, HoldsNewline

-----------------------------------------------------------------------------
(* Without failures                                                        *)

\* The two pieces of a record that is one line.
LineOf(d) == <<Piece("text", d), Piece("brace", d)>>

\* The first k records of the file are its first k lines.
TiledTo(s, docs, k) ==
  /\ s = [done |-> s.done, line |-> <<>>]
  /\ s.done \in Seq(Seq(Parts)) /\ Len(s.done) = k
  /\ \A i \in 1 .. k : s.done[i] = LineOf(docs[i])

LEMMA PairIs ==
  ASSUME NEW S, NEW x \in S, NEW y \in S
  PROVE  Append(<<x>>, y) = <<x, y>>
<1> DEFINE z == <<x>>
           w == <<x, y>>
           a == Append(z, y)
<1>1. z \in Seq(S)
  OBVIOUS
<1>2. Len(z) = 1 /\ z[1] = x
  OBVIOUS
<1>3. w \in Seq(S) /\ Len(w) = 2 /\ w[1] = x /\ w[2] = y
  OBVIOUS
<1> HIDE DEF z, w
<1>4. a \in Seq(S) /\ Len(a) = Len(z) + 1 /\ a[Len(z) + 1] = y
  BY <1>1
<1>5. ASSUME NEW i \in 1 .. Len(z) PROVE a[i] = z[i]
  BY <1>1
<1> HIDE DEF a
<1>6. Len(a) = 2 /\ a[1] = x /\ a[2] = y
  BY <1>2, <1>4, <1>5
<1>7. a = w
  <2>1. \A i \in 1 .. 2 : a[i] = w[i]
    BY <1>3, <1>6
  <2> QED BY <1>3, <1>4, <1>6, <2>1, SeqEqual
<1> QED BY <1>7 DEF a, z, w

LEMMA TiledStep ==
  ASSUME NEW docs, NEW k \in Nat, NEW d \in Accepted, docs[k + 1] = d,
         NEW s, TiledTo(s, docs, k),
         NEW s1, s1 = Split(s, Piece("text", d)),
         NEW s2, s2 = Split(s1, Piece("brace", d)),
         NEW s3, s3 = Split(s2, EndOfLine)
  PROVE  TiledTo(s3, docs, k + 1)
<1> DEFINE done == s.done
           x == Piece("text", d)
           y == Piece("brace", d)
<1>1. /\ s = [done |-> done, line |-> <<>>] /\ done \in Seq(Seq(Parts)) /\ Len(done) = k
      /\ \A i \in 1 .. k : done[i] = LineOf(docs[i])
  BY DEF TiledTo
<1>2. x \in Parts /\ y \in Parts /\ x # EndOfLine /\ y # EndOfLine
  BY DEF Piece, Parts, EndOfLine
<1> HIDE DEF done, x, y
<1>3. s1 = [done |-> done, line |-> <<x>>]
  <2>1. s1 = [done |-> s.done, line |-> Append(s.line, x)]
    BY <1>2 DEF Split, x
  <2>2. s.line = <<>> /\ s.done = done /\ Append(<<>>, x) = <<x>>
    BY <1>1
  <2> QED BY <2>1, <2>2
<1>4. s2 = [done |-> done, line |-> <<x, y>>]
  <2>1. s2 = [done |-> s1.done, line |-> Append(s1.line, y)]
    BY <1>2 DEF Split, y
  <2>2. s1.line = <<x>> /\ s1.done = done
    BY <1>3
  <2>3. Append(<<x>>, y) = <<x, y>>
    BY <1>2, PairIs
  <2> QED BY <2>1, <2>2, <2>3
<1>5. s3 = [done |-> Append(done, <<x, y>>), line |-> <<>>]
  <2>1. s3 = [done |-> Append(s2.done, s2.line), line |-> <<>>]
    BY DEF Split
  <2>2. s2.line = <<x, y>> /\ s2.done = done
    BY <1>4
  <2> QED BY <2>1, <2>2
<1> DEFINE new == Append(done, <<x, y>>)
<1>6. /\ new \in Seq(Seq(Parts)) /\ Len(new) = k + 1 /\ new[k + 1] = <<x, y>>
      /\ \A i \in 1 .. k : new[i] = done[i]
  <2>1. <<x, y>> \in Seq(Parts)
    BY <1>2
  <2> QED BY <1>1, <2>1
<1> HIDE DEF new
<1>7. s3.done = new /\ s3 = [done |-> s3.done, line |-> <<>>]
  <2>1. s3 = [done |-> new, line |-> <<>>]
    BY <1>5 DEF new
  <2> QED BY <2>1
<1>8. ASSUME NEW i \in 1 .. k + 1 PROVE new[i] = LineOf(docs[i])
  <2>1. i \in 1 .. k \/ i = k + 1
    OBVIOUS
  <2>2. LineOf(d) = <<x, y>>
    BY DEF LineOf, x, y
  <2> QED BY <1>1, <1>6, <2>1, <2>2
<1> QED BY <1>6, <1>7, <1>8 DEF TiledTo

LEMMA TiledLines ==
  ASSUME NEW file \in Seq(Parts), NEW docs \in Seq(Accepted), Tiled(file, docs, 0),
         \A i \in 1 .. Len(docs) : OneLine(docs[i])
  PROVE  /\ Lines(file) \in Seq(Seq(Parts)) /\ Len(Lines(file)) = Len(docs)
         /\ \A i \in 1 .. Len(docs) : Lines(file)[i] = LineOf(docs[i])
<1> DEFINE N == Len(docs)
           R(n) == Splitting(file)[n]
           S == {k \in 0 .. N : TiledTo(R(3 * k), docs, k)}
<1>1. /\ Len(file) = 3 * N + 0
      /\ \A i \in 1 .. N : Lies(file, 3 * (i - 1), docs[i])
  BY DEF Tiled
<1>2. N \in Nat /\ Len(file) = 3 * N /\ Len(file) \in Nat
  BY <1>1
<1>3. 0 \in S
  <2> DEFINE z == [done |-> <<>>, line |-> <<>>]
  <2>1. R(0) = z
    BY <1>2, SplittingIs
  <2>2. z.done = <<>> /\ <<>> \in Seq(Seq(Parts)) /\ Len(<<>>) = 0
        /\ z = [done |-> z.done, line |-> <<>>]
    OBVIOUS
  <2> HIDE DEF z
  <2>3. TiledTo(z, docs, 0)
    BY <2>2 DEF TiledTo
  <2>4. R(3 * 0) = z /\ 0 \in 0 .. N
    BY <1>2, <2>1
  <2> QED BY <2>3, <2>4
<1>4. ASSUME NEW k \in 1 .. N, k - 1 \in S PROVE k \in S
  <2> DEFINE d == docs[k]
             n == 3 * (k - 1)
  <2>1. d \in Accepted /\ Lies(file, n, d) /\ OneLine(d)
    BY <1>1, ElementOfSeq
  <2>2. /\ Pieces(d) = <<Piece("text", d), Piece("brace", d), EndOfLine>>
        /\ Len(Pieces(d)) = 3
    BY <2>1, PiecesAre
  <2>3. /\ n + 3 <= Len(file)
        /\ file[n + 1] = Piece("text", d) /\ file[n + 2] = Piece("brace", d)
        /\ file[n + 3] = EndOfLine
    <3> HIDE DEF d, n
    <3>1. n + 3 <= Len(file) /\ \A j \in 1 .. 3 : file[n + j] = Pieces(d)[j]
      BY <2>1, <2>2 DEF Lies
    <3> QED BY <2>2, <3>1
  <2>4. \A m \in 1 .. Len(file) : Splitting(file)[m] = Split(Splitting(file)[m - 1], file[m])
    BY <1>2, SplittingIs
  <2>5. n \in Nat /\ n = 3 * (k - 1)
    OBVIOUS
  <2> HIDE DEF n, d
  <2>6. /\ n + 1 \in 1 .. Len(file) /\ (n + 1) - 1 = n
        /\ n + 2 \in 1 .. Len(file) /\ (n + 2) - 1 = n + 1
        /\ n + 3 \in 1 .. Len(file) /\ (n + 3) - 1 = n + 2
    BY <1>2, <2>3, <2>5
  <2>7. /\ R(n + 1) = Split(R(n), Piece("text", d))
        /\ R(n + 2) = Split(R(n + 1), Piece("brace", d))
        /\ R(n + 3) = Split(R(n + 2), EndOfLine)
    <3>1. R(n + 1) = Split(R((n + 1) - 1), file[n + 1])
      BY <2>4, <2>6
    <3>2. R(n + 2) = Split(R((n + 2) - 1), file[n + 2])
      BY <2>4, <2>6
    <3>3. R(n + 3) = Split(R((n + 3) - 1), file[n + 3])
      BY <2>4, <2>6
    <3> HIDE DEF R
    <3> QED BY <2>3, <2>6, <3>1, <3>2, <3>3
  <2>8. TiledTo(R(n), docs, k - 1)
    <3>1. TiledTo(R(3 * (k - 1)), docs, k - 1)
      BY <1>4
    <3> HIDE DEF R
    <3> QED BY <2>5, <3>1
  <2>9. k - 1 \in Nat /\ (k - 1) + 1 = k /\ n + 3 = 3 * k /\ k \in 0 .. N
    BY <1>2, <2>5
  <2>10. TiledTo(R(n + 3), docs, (k - 1) + 1)
    <3>1. docs[(k - 1) + 1] = d
      BY <2>9 DEF d
    <3> HIDE DEF R
    <3> QED BY <2>1, <2>7, <2>8, <2>9, <3>1, TiledStep
  <2>11. TiledTo(R(3 * k), docs, k)
    <3> HIDE DEF R
    <3> QED BY <2>9, <2>10
  <2> QED BY <2>9, <2>11
<1>5. TiledTo(R(Len(file)), docs, N)
  <2>1. 0 .. N \subseteq S
    <3> HIDE DEF S, N
    <3> QED BY <1>2, <1>3, <1>4, Steps
  <2>2. N \in S
    <3> HIDE DEF S, N
    <3> QED BY <1>2, <2>1
  <2>3. TiledTo(R(3 * N), docs, N)
    BY <2>2
  <2> HIDE DEF R, N
  <2> QED BY <1>2, <2>3
<1>6. Lines(file) = R(Len(file)).done
  <2>1. R(Len(file)).line = <<>>
    <3> DEFINE s == R(Len(file))
    <3>1. s = [done |-> s.done, line |-> <<>>]
      BY <1>5 DEF TiledTo
    <3> HIDE DEF s
    <3>2. s.line = <<>>
      BY <3>1
    <3> QED BY <3>2 DEF s
  <2> QED BY <2>1 DEF Lines
<1> HIDE DEF R
<1> QED BY <1>5, <1>6 DEF TiledTo

LEMMA IntactFollows == IInv => IntactIsReadable
<1> SUFFICES ASSUME IInv, failed = 0, writer = Idle,
                    Len(acknowledged) <= MaxRecords,
                    Cardinality({d.target : d \in Kept}) <= MaxTargets,
                    \A d \in Kept : WellFormed(d)
             PROVE  Answers(history)
  BY DEF IntactIsReadable
<1> DEFINE docs == acknowledged
           N == Len(docs)
           lines == Lines(history)
           rs == RecordsOf(lines)
           t == CHOOSE t \in Targets : TRUE
           r == Reading(lines, t)[Len(lines)]
<1>1. /\ history \in Seq(Parts) /\ docs \in Seq(Accepted)
      /\ N \in Nat /\ DOMAIN docs = 1 .. N
  BY DEF IInv, StoreOK
<1>2. Tiled(history, docs, 0)
  <2>1. PICK n \in Nat : InHand(writer, history, n) /\ Tiled(history, docs, n)
    BY DEF IInv, StoreOK
  <2>2. n = 0
    BY <2>1 DEF InHand, Idle
  <2> QED BY <2>1, <2>2
<1>3. ASSUME NEW i \in 1 .. N PROVE docs[i] \in Accepted /\ docs[i] \in Kept /\ OneLine(docs[i])
  <2>1. docs[i] \in Accepted
    BY <1>1, ElementOfSeq
  <2>2. docs[i] \in Kept
    BY <1>1 DEF Kept
  <2> QED BY <2>1, <2>2, WellFormedIsLine
<1>4. /\ lines \in Seq(Seq(Parts)) /\ Len(lines) = N
      /\ \A i \in 1 .. N : lines[i] = LineOf(docs[i])
  BY <1>1, <1>2, <1>3, TiledLines
<1> HIDE DEF lines, rs, t
<1>5. ASSUME NEW i \in 1 .. N
      PROVE  /\ Readable(lines[i]) /\ lines[i] # <<>>
             /\ rs[i] = Written[docs[i]] /\ rs[i].target = docs[i].target
  <2> DEFINE d == docs[i]
             line == lines[i]
  <2>1. d \in Rereadable /\ d \in Accepted
    BY <1>3, RecordsReread
  <2>2. line = <<Piece("text", d), Piece("brace", d)>>
    BY <1>4 DEF LineOf
  <2>3. rs[i] = Written[line[1].of]
    BY <1>4 DEF rs, RecordsOf
  <2> HIDE DEF d, line
  <2>4. /\ Len(line) = 2 /\ line # <<>>
        /\ line[1] = Piece("text", d) /\ line[2] = Piece("brace", d)
    BY <2>2
  <2>5. line[1].of = d /\ line[2].of = d /\ line[1].part = "text" /\ line[2].part = "brace"
    BY <2>4 DEF Piece
  <2>6. Readable(line)
    BY <2>1, <2>4, <2>5 DEF Readable
  <2>7. rs[i] = Written[d]
    BY <2>3, <2>5
  <2>8. Written[d].target = d.target
    <3>1. Written[d] = [members |-> WrittenMembers, nested |-> 0,
                        version |-> d.version, at |-> d.at, target |-> d.target,
                        identity |-> d.identity, sensor |-> WrittenSensor,
                        inventory |-> compact_json(d.inventory)]
      BY <2>1, WrittenIs
    <3> QED BY <3>1
  <2> QED BY <2>4, <2>6, <2>7, <2>8 DEF d, line
<1>6. TargetsTo(rs, N) = {d.target : d \in Kept}
  <2>1. Kept = {docs[i] : i \in 1 .. N}
    BY <1>1 DEF Kept
  <2>2. TargetsTo(rs, N) = {docs[i].target : i \in 1 .. N}
    BY <1>5 DEF TargetsTo
  <2> HIDE DEF rs, docs, N
  <2> QED BY <2>1, <2>2
<1>7. AllFit(lines, N)
  BY <1>5, <1>6 DEF AllFit, rs
<1>8. HistoryRead(r, lines, N, t)
  BY <1>1, <1>4, <1>5, AllRead
<1>9. r.error = 0
  <2> HIDE DEF r, N
  <2> QED BY <1>7, <1>8 DEF HistoryRead
<1> QED BY <1>9 DEF Answers, analyze_history, lines, t

\* As long as no command was killed or met a full disk, what well-formed
\* documents left is a history that can be read, up to its limits.
THEOREM IntactReadable == Spec => []IntactIsReadable
<1> QED BY InvariantHolds, IntactFollows, PTL

-----------------------------------------------------------------------------
(* compare_inventories                                                     *)

\* The tools of an inventory: their names are numbers and ascend.
Ordered(s) ==
  /\ Len(s) \in Nat /\ DOMAIN s = 1 .. Len(s)
  /\ \A i \in 1 .. Len(s) : s[i].name \in Nat
  /\ \A i, j \in 1 .. Len(s) : i < j => s[i].name < s[j].name

NamesTo(s, n) == {s[i].name : i \in 1 .. n}

\* The names of the first tools of two inventories that both have, changed.
ChangedTo(s, t, m, n) ==
  {x \in Nat : \E i \in 1 .. m : \E j \in 1 .. n :
     s[i].name = x /\ t[j].name = x /\ s[i].definition # t[j].definition}

\* The merge is at these two tools after n rounds.
MergedTo(old, new, added, removed, modified, before, after, n) ==
  /\ old \in 1 .. Len(before) + 1 /\ new \in 1 .. Len(after) + 1
  /\ \/ old + new >= n + 2
     \/ old = Len(before) + 1 /\ new = Len(after) + 1
  /\ \A i \in 1 .. old - 1 : \A j \in new .. Len(after) : before[i].name < after[j].name
  /\ \A j \in 1 .. new - 1 : \A i \in old .. Len(before) : after[j].name < before[i].name
  /\ removed = NamesTo(before, old - 1) \ NamesTo(after, Len(after))
  /\ added = NamesTo(after, new - 1) \ NamesTo(before, Len(before))
  /\ modified = ChangedTo(before, after, old - 1, new - 1)

\* A round that passes a tool the other inventory does not have.
LEMMA OldPassed ==
  ASSUME NEW b, NEW a, Ordered(b), Ordered(a), NEW n \in Nat,
         NEW o, NEW w, NEW added, NEW removed, NEW modified,
         MergedTo(o, w, added, removed, modified, b, a, n),
         o <= Len(b), w <= Len(a) => b[o].name < a[w].name
  PROVE  MergedTo(o + 1, w, added, removed \cup {b[o].name}, modified, b, a, n + 1)
<1>1. /\ o \in Nat /\ 1 <= o /\ o <= Len(b) /\ w \in Nat /\ 1 <= w /\ w <= Len(a) + 1
      /\ Len(b) \in Nat /\ Len(a) \in Nat
  BY DEF MergedTo, Ordered
<1>2. /\ \A i \in 1 .. Len(b) : b[i].name \in Nat
      /\ \A i \in 1 .. Len(a) : a[i].name \in Nat
      /\ \A i, j \in 1 .. Len(b) : i < j => b[i].name < b[j].name
      /\ \A i, j \in 1 .. Len(a) : i < j => a[i].name < a[j].name
  BY DEF Ordered
<1>3. /\ \A i \in 1 .. o - 1 : \A j \in w .. Len(a) : b[i].name < a[j].name
      /\ \A j \in 1 .. w - 1 : \A i \in o .. Len(b) : a[j].name < b[i].name
  BY DEF MergedTo
<1>4. ASSUME NEW j \in w .. Len(a) PROVE b[o].name < a[j].name
  <2>1. w \in 1 .. Len(a) /\ j \in 1 .. Len(a) /\ o \in 1 .. Len(b)
    BY <1>1
  <2>2. b[o].name < a[w].name /\ (w = j \/ a[w].name < a[j].name)
    BY <1>1, <1>2, <2>1
  <2> QED BY <1>2, <2>1, <2>2
<1>5. ASSUME NEW j \in 1 .. Len(a) PROVE a[j].name # b[o].name
  <2>1. a[j].name \in Nat /\ b[o].name \in Nat
    BY <1>1, <1>2
  <2>2. CASE j < w
    <3>1. j \in 1 .. w - 1 /\ o \in o .. Len(b)
      BY <1>1, <2>2
    <3>2. a[j].name < b[o].name
      BY <1>3, <3>1
    <3> QED BY <2>1, <3>2
  <2>3. CASE j >= w
    <3>1. b[o].name < a[j].name
      BY <1>1, <1>4, <2>3
    <3> QED BY <2>1, <3>1
  <2> QED BY <1>1, <2>2, <2>3
<1>6. o + 1 \in 1 .. Len(b) + 1 /\ w \in 1 .. Len(a) + 1
  BY <1>1
<1>7. (o + 1) + w >= (n + 1) + 2 \/ (o + 1 = Len(b) + 1 /\ w = Len(a) + 1)
  BY <1>1 DEF MergedTo
<1>8. \A i \in 1 .. (o + 1) - 1 : \A j \in w .. Len(a) : b[i].name < a[j].name
  <2>1. \A i \in 1 .. (o + 1) - 1 : i \in 1 .. o - 1 \/ i = o
    BY <1>1
  <2> QED BY <1>3, <1>4, <2>1
<1>9. \A j \in 1 .. w - 1 : \A i \in o + 1 .. Len(b) : a[j].name < b[i].name
  <2>1. \A i \in o + 1 .. Len(b) : i \in o .. Len(b)
    BY <1>1
  <2> QED BY <1>3, <2>1
<1>10. NamesTo(b, (o + 1) - 1) = NamesTo(b, o - 1) \cup {b[o].name}
  <2>1. \A i : i \in 1 .. (o + 1) - 1 <=> i \in 1 .. o - 1 \/ i = o
    BY <1>1
  <2> QED BY <2>1 DEF NamesTo
<1>11. b[o].name \notin NamesTo(a, Len(a))
  BY <1>5 DEF NamesTo
<1>12. ChangedTo(b, a, (o + 1) - 1, w - 1) = ChangedTo(b, a, o - 1, w - 1)
  <2>1. \A i : i \in 1 .. (o + 1) - 1 <=> i \in 1 .. o - 1 \/ i = o
    BY <1>1
  <2>2. \A j \in 1 .. w - 1 : a[j].name # b[o].name
    BY <1>1, <1>5
  <2> QED BY <2>1, <2>2 DEF ChangedTo
<1> QED BY <1>6, <1>7, <1>8, <1>9, <1>10, <1>11, <1>12 DEF MergedTo

\* What the merge knows of two inventories it knows of them exchanged.
LEMMA Exchanged ==
  ASSUME NEW b, NEW a, NEW n, NEW o, NEW w, NEW added, NEW removed, NEW modified,
         Len(b) \in Nat, Len(a) \in Nat,
         MergedTo(o, w, added, removed, modified, b, a, n)
  PROVE  MergedTo(w, o, removed, added, modified, a, b, n)
<1>1. ChangedTo(b, a, o - 1, w - 1) = ChangedTo(a, b, w - 1, o - 1)
  BY Zenon DEF ChangedTo
<1>2. o + w = w + o
  BY DEF MergedTo
<1> QED BY <1>1, <1>2 DEF MergedTo

\* A round that passes a tool of both.
LEMMA BothPassed ==
  ASSUME NEW b, NEW a, Ordered(b), Ordered(a), NEW n \in Nat,
         NEW o, NEW w, NEW added, NEW removed, NEW modified,
         MergedTo(o, w, added, removed, modified, b, a, n),
         o <= Len(b), w <= Len(a), b[o].name = a[w].name,
         NEW now, now = IF b[o].definition # a[w].definition
                        THEN modified \cup {b[o].name} ELSE modified
  PROVE  MergedTo(o + 1, w + 1, added, removed, now, b, a, n + 1)
<1>1. /\ o \in Nat /\ 1 <= o /\ o <= Len(b) /\ w \in Nat /\ 1 <= w /\ w <= Len(a)
      /\ Len(b) \in Nat /\ Len(a) \in Nat
  BY DEF MergedTo, Ordered
<1>2. /\ \A i \in 1 .. Len(b) : b[i].name \in Nat
      /\ \A i \in 1 .. Len(a) : a[i].name \in Nat
      /\ \A i, j \in 1 .. Len(b) : i < j => b[i].name < b[j].name
      /\ \A i, j \in 1 .. Len(a) : i < j => a[i].name < a[j].name
  BY DEF Ordered
<1>3. /\ \A i \in 1 .. o - 1 : \A j \in w .. Len(a) : b[i].name < a[j].name
      /\ \A j \in 1 .. w - 1 : \A i \in o .. Len(b) : a[j].name < b[i].name
  BY DEF MergedTo
<1>4. o \in 1 .. Len(b) /\ w \in 1 .. Len(a) /\ o \in o .. Len(b) /\ w \in w .. Len(a)
  BY <1>1
<1>5. /\ \A i : i \in 1 .. (o + 1) - 1 <=> i \in 1 .. o - 1 \/ i = o
      /\ \A j : j \in 1 .. (w + 1) - 1 <=> j \in 1 .. w - 1 \/ j = w
  BY <1>1
<1>6. o + 1 \in 1 .. Len(b) + 1 /\ w + 1 \in 1 .. Len(a) + 1
  BY <1>1
<1>7. (o + 1) + (w + 1) >= (n + 1) + 2 \/ (o + 1 = Len(b) + 1 /\ w + 1 = Len(a) + 1)
  BY <1>1 DEF MergedTo
<1>8. \A i \in 1 .. (o + 1) - 1 : \A j \in w + 1 .. Len(a) : b[i].name < a[j].name
  <2> SUFFICES ASSUME NEW i \in 1 .. (o + 1) - 1, NEW j \in w + 1 .. Len(a)
               PROVE  b[i].name < a[j].name
    OBVIOUS
  <2>1. j \in w .. Len(a) /\ j \in 1 .. Len(a) /\ w < j
    BY <1>1
  <2> QED BY <1>2, <1>3, <1>4, <1>5, <2>1
<1>9. \A j \in 1 .. (w + 1) - 1 : \A i \in o + 1 .. Len(b) : a[j].name < b[i].name
  <2> SUFFICES ASSUME NEW j \in 1 .. (w + 1) - 1, NEW i \in o + 1 .. Len(b)
               PROVE  a[j].name < b[i].name
    OBVIOUS
  <2>1. i \in o .. Len(b) /\ i \in 1 .. Len(b) /\ o < i
    BY <1>1
  <2> QED BY <1>2, <1>3, <1>4, <1>5, <2>1
<1>10. /\ NamesTo(b, (o + 1) - 1) = NamesTo(b, o - 1) \cup {b[o].name}
       /\ NamesTo(a, (w + 1) - 1) = NamesTo(a, w - 1) \cup {a[w].name}
  BY <1>5 DEF NamesTo
<1>11. b[o].name \in NamesTo(a, Len(a)) /\ a[w].name \in NamesTo(b, Len(b))
  BY <1>4 DEF NamesTo
<1>12. now = ChangedTo(b, a, (o + 1) - 1, (w + 1) - 1)
  <2>1. ASSUME NEW j \in 1 .. w - 1 PROVE a[j].name # b[o].name
    <3>1. a[j].name < b[o].name /\ a[j].name \in Nat /\ b[o].name \in Nat
      BY <1>1, <1>2, <1>3, <1>4
    <3> QED BY <3>1
  <2>2. ASSUME NEW i \in 1 .. o - 1 PROVE b[i].name # a[w].name
    <3>1. b[i].name < a[w].name /\ b[i].name \in Nat /\ a[w].name \in Nat
      BY <1>1, <1>2, <1>3, <1>4
    <3> QED BY <3>1
  <2>3. modified = ChangedTo(b, a, o - 1, w - 1)
    BY DEF MergedTo
  <2>4. b[o].name \in Nat
    BY <1>2, <1>4
  <2> DEFINE Differ(i, j, x) == /\ b[i].name = x /\ a[j].name = x
                                /\ b[i].definition # a[j].definition
  <2>5. ASSUME NEW x \in Nat
        PROVE  (\E i \in 1 .. (o + 1) - 1 : \E j \in 1 .. (w + 1) - 1 : Differ(i, j, x)) <=>
                  \/ \E i \in 1 .. o - 1 : \E j \in 1 .. w - 1 : Differ(i, j, x)
                  \/ x = b[o].name /\ b[o].definition # a[w].definition
    <3>1. ASSUME NEW i \in 1 .. (o + 1) - 1, NEW j \in 1 .. (w + 1) - 1, Differ(i, j, x)
          PROVE  \/ i \in 1 .. o - 1 /\ j \in 1 .. w - 1
                 \/ x = b[o].name /\ b[o].definition # a[w].definition
      <4>1. (i \in 1 .. o - 1 \/ i = o) /\ (j \in 1 .. w - 1 \/ j = w)
        BY <1>5
      <4>2. CASE i \in 1 .. o - 1 /\ j = w
        BY <2>2, <3>1, <4>2
      <4>3. CASE i = o /\ j \in 1 .. w - 1
        BY <2>1, <3>1, <4>3
      <4>4. CASE i = o /\ j = w
        BY <3>1, <4>4
      <4> QED BY <4>1, <4>2, <4>3, <4>4
    <3>2. ASSUME x = b[o].name, b[o].definition # a[w].definition PROVE Differ(o, w, x)
      BY <3>2
    <3>3. o \in 1 .. (o + 1) - 1 /\ w \in 1 .. (w + 1) - 1
      BY <1>5
    <3> HIDE DEF Differ
    <3> QED BY <1>5, <3>1, <3>2, <3>3
  <2>6. /\ ChangedTo(b, a, (o + 1) - 1, (w + 1) - 1) =
             {x \in Nat : \E i \in 1 .. (o + 1) - 1 : \E j \in 1 .. (w + 1) - 1 : Differ(i, j, x)}
        /\ modified = {x \in Nat : \E i \in 1 .. o - 1 : \E j \in 1 .. w - 1 : Differ(i, j, x)}
    BY <2>3, Zenon DEF ChangedTo
  <2> HIDE DEF Differ
  <2> QED BY <2>4, <2>5, <2>6
<1>13. /\ removed = NamesTo(b, o - 1) \ NamesTo(a, Len(a))
       /\ added = NamesTo(a, w - 1) \ NamesTo(b, Len(b))
  BY DEF MergedTo
<1>14. /\ removed = NamesTo(b, (o + 1) - 1) \ NamesTo(a, Len(a))
       /\ added = NamesTo(a, (w + 1) - 1) \ NamesTo(b, Len(b))
  BY <1>10, <1>11, <1>13
<1> QED BY <1>6, <1>7, <1>8, <1>9, <1>12, <1>14 DEF MergedTo

MergeOK(s, before, after, n) ==
  /\ s = [old |-> s.old, new |-> s.new, added |-> s.added,
          removed |-> s.removed, modified |-> s.modified]
  /\ MergedTo(s.old, s.new, s.added, s.removed, s.modified, before, after, n)

LEMMA MergeStep ==
  ASSUME NEW b, NEW a, Ordered(b), Ordered(a), NEW n \in Nat,
         NEW s, MergeOK(s, b, a, n)
  PROVE  MergeOK(Merge(s, b, a), b, a, n + 1)
<1> DEFINE t == Merge(s, b, a)
           o == s.old
           w == s.new
           A == s.added
           R == s.removed
           M == s.modified
           N == IF b[o].definition # a[w].definition THEN M \cup {b[o].name} ELSE M
<1>1. s = [old |-> o, new |-> w, added |-> A, removed |-> R, modified |-> M]
  BY DEF MergeOK
<1>2. MergedTo(o, w, A, R, M, b, a, n)
  BY DEF MergeOK
<1>3. /\ o \in 1 .. Len(b) + 1 /\ w \in 1 .. Len(a) + 1 /\ Len(b) \in Nat /\ Len(a) \in Nat
      /\ \A i \in 1 .. Len(b) : b[i].name \in Nat
      /\ \A i \in 1 .. Len(a) : a[i].name \in Nat
  BY <1>2 DEF MergedTo, Ordered
<1>4. CASE o > Len(b) /\ w > Len(a)
  <2>1. t = s
    BY <1>3, <1>4 DEF Merge
  <2>2. MergedTo(o, w, A, R, M, b, a, n + 1)
    BY <1>2, <1>3, <1>4 DEF MergedTo
  <2> QED BY <1>1, <2>1, <2>2 DEF MergeOK
<1>5. CASE o <= Len(b) /\ (w <= Len(a) => b[o].name < a[w].name)
  <2> DEFINE r == [old |-> o + 1, new |-> w, added |-> A,
                   removed |-> R \cup {b[o].name}, modified |-> M]
  <2>1. t = [s EXCEPT !.removed = R \cup {b[o].name}, !.old = o + 1]
    BY <1>3, <1>5 DEF Merge
  <2>2. t = r
    <3> HIDE DEF t
    <3> QED BY <1>1, <2>1
  <2>3. MergedTo(o + 1, w, A, R \cup {b[o].name}, M, b, a, n + 1)
    BY <1>2, <1>5, OldPassed
  <2>4. MergeOK(r, b, a, n + 1)
    BY <2>3 DEF MergeOK
  <2> QED BY <2>2, <2>4
<1>6. CASE w <= Len(a) /\ (o <= Len(b) => a[w].name < b[o].name)
  <2> DEFINE r == [old |-> o, new |-> w + 1, added |-> A \cup {a[w].name},
                   removed |-> R, modified |-> M]
  <2>1. t = [s EXCEPT !.added = A \cup {a[w].name}, !.new = w + 1]
    BY <1>3, <1>6 DEF Merge
  <2>2. t = r
    <3> HIDE DEF t
    <3> QED BY <1>1, <2>1
  <2>3. MergedTo(w, o, R, A, M, a, b, n)
    BY <1>2, <1>3, Exchanged
  <2>4. MergedTo(w + 1, o, R, A \cup {a[w].name}, M, a, b, n + 1)
    BY <1>6, <2>3, OldPassed
  <2>5. MergedTo(o, w + 1, A \cup {a[w].name}, R, M, b, a, n + 1)
    BY <1>3, <2>4, Exchanged
  <2>6. MergeOK(r, b, a, n + 1)
    BY <2>5 DEF MergeOK
  <2> QED BY <2>2, <2>6
<1>7. CASE o <= Len(b) /\ w <= Len(a) /\ b[o].name = a[w].name
  <2> DEFINE r == [old |-> o + 1, new |-> w + 1, added |-> A, removed |-> R, modified |-> N]
  <2>1. t = [s EXCEPT !.modified = N, !.old = o + 1, !.new = w + 1]
    <3>1. ~(b[o].name < a[w].name) /\ ~(a[w].name < b[o].name)
      BY <1>3, <1>7
    <3> QED BY <1>7, <3>1 DEF Merge
  <2>2. t = r
    <3> HIDE DEF t, N
    <3> QED BY <1>1, <2>1
  <2>3. MergedTo(o + 1, w + 1, A, R, N, b, a, n + 1)
    BY <1>2, <1>7, BothPassed
  <2>4. MergeOK(r, b, a, n + 1)
    <3> HIDE DEF N
    <3> QED BY <2>3 DEF MergeOK
  <2> QED BY <2>2, <2>4
<1>8. \/ o > Len(b) /\ w > Len(a)
      \/ o <= Len(b) /\ (w <= Len(a) => b[o].name < a[w].name)
      \/ w <= Len(a) /\ (o <= Len(b) => a[w].name < b[o].name)
      \/ o <= Len(b) /\ w <= Len(a) /\ b[o].name = a[w].name
  <2>1. /\ o <= Len(b) => b[o].name \in Nat
        /\ w <= Len(a) => a[w].name \in Nat
    BY <1>3
  <2> QED BY <1>3, <2>1
<1> QED BY <1>4, <1>5, <1>6, <1>7, <1>8

\* What the merge has found in the end.
Differences(s, b, a) ==
  /\ s.added = NamesTo(a, Len(a)) \ NamesTo(b, Len(b))
  /\ s.removed = NamesTo(b, Len(b)) \ NamesTo(a, Len(a))
  /\ s.modified = ChangedTo(b, a, Len(b), Len(a))

MergeEnd(b, a) == Merging(b, a)[Len(b) + Len(a)]

LEMMA MergedIs ==
  ASSUME NEW b, NEW a, Ordered(b), Ordered(a),
         NEW s, s = MergeEnd(b, a)
  PROVE  Differences(s, b, a)
<1> DEFINE N == Len(b) + Len(a)
           m(n) == Merging(b, a)[n]
           S == {n \in 0 .. N : MergeOK(m(n), b, a, n)}
<1>1. Len(b) \in Nat /\ Len(a) \in Nat /\ N \in Nat
  BY DEF Ordered
<1>2. /\ m(0) = MergingStart
      /\ \A n \in 1 .. N : m(n) = Merge(m(n - 1), b, a)
  BY <1>1, MergingIs
<1>3. 0 \in S
  <2> DEFINE z == MergingStart
  <2>1. /\ z.old = 1 /\ z.new = 1 /\ z.added = {} /\ z.removed = {} /\ z.modified = {}
        /\ z = [old |-> z.old, new |-> z.new, added |-> z.added,
                removed |-> z.removed, modified |-> z.modified]
    BY DEF MergingStart
  <2>2. NamesTo(b, 1 - 1) = {} /\ NamesTo(a, 1 - 1) = {} /\ ChangedTo(b, a, 1 - 1, 1 - 1) = {}
    BY DEF NamesTo, ChangedTo
  <2>3. MergedTo(1, 1, {}, {}, {}, b, a, 0)
    BY <1>1, <2>2 DEF MergedTo
  <2> HIDE DEF z
  <2>4. MergeOK(z, b, a, 0)
    BY <2>1, <2>3 DEF MergeOK
  <2> QED BY <1>1, <1>2, <2>4 DEF z
<1>4. ASSUME NEW n \in 1 .. N, n - 1 \in S PROVE n \in S
  <2>1. n - 1 \in Nat /\ (n - 1) + 1 = n /\ n \in 0 .. N
    BY <1>1
  <2>2. MergeOK(m(n - 1), b, a, n - 1)
    BY <1>4
  <2>3. m(n) = Merge(m(n - 1), b, a)
    BY <1>2
  <2> HIDE DEF m, N
  <2>4. MergeOK(m(n), b, a, (n - 1) + 1)
    BY <2>1, <2>2, <2>3, MergeStep
  <2>5. MergeOK(m(n), b, a, n)
    BY <2>1, <2>4
  <2> QED BY <2>1, <2>5
<1>5. 0 .. N \subseteq S
  <2> HIDE DEF S, N
  <2> QED BY <1>1, <1>3, <1>4, Steps
<1>6. MergeOK(s, b, a, N)
  <2>1. N \in 0 .. N
    BY <1>1
  <2> QED BY <1>5, <2>1 DEF MergeEnd
<1>7. MergedTo(s.old, s.new, s.added, s.removed, s.modified, b, a, N)
  BY <1>6 DEF MergeOK
<1>8. /\ s.old \in 1 .. Len(b) + 1 /\ s.new \in 1 .. Len(a) + 1
      /\ s.old + s.new >= N + 2 \/ (s.old = Len(b) + 1 /\ s.new = Len(a) + 1)
  BY <1>7 DEF MergedTo
<1>9. s.old - 1 = Len(b) /\ s.new - 1 = Len(a)
  BY <1>1, <1>8
<1> QED BY <1>7, <1>9 DEF MergedTo, Differences

-----------------------------------------------------------------------------
(* Drift                                                                   *)

\* The tools of a record of a well-formed document, beside those of the document.
LeftOf(d, c) ==
  LET i == d.inventory IN
  /\ c.executable = i.executable
  /\ Ordered(c.tools) /\ Ordered(i.tools) /\ Len(c.tools) = Len(i.tools)
  /\ \A n \in 1 .. Len(i.tools) :
       /\ i.tools[n].definition \in Seq(STRING)
       /\ c.tools[n].name = i.tools[n].name
       /\ c.tools[n].definition = Scanned(i.tools[n].definition, Outside).out

LEMMA LeftIs ==
  ASSUME NEW d \in Accepted, WellFormed(d)
  PROVE  LeftOf(d, Written[d].inventory)
<1> DEFINE i == d.inventory
           c == compact_json(i)
           N == Len(i.tools)
<1>1. i \in Inventory /\ Written[d].inventory = c /\ SortedByName(i.tools)
  <2>1. /\ d \in Document /\ read_observation(d)
        /\ Written[d] = [members |-> WrittenMembers, nested |-> 0,
                         version |-> d.version, at |-> d.at, target |-> d.target,
                         identity |-> d.identity, sensor |-> WrittenSensor, inventory |-> c]
    BY WrittenIs
  <2>2. SortedByName(i.tools)
    BY <2>1 DEF read_observation, read_inventory
  <2> HIDE DEF c
  <2> QED BY <2>1, <2>2 DEF Document
<1>2. \A n \in 1 .. N : i.tools[n] \in Tool /\ i.tools[n].definition \in Seq(STRING)
  BY <1>1, TextsAre
<1>3. /\ c.executable = i.executable
      /\ Len(c.tools) = N /\ DOMAIN c.tools = 1 .. N
      /\ N \in Nat /\ DOMAIN i.tools = 1 .. N
      /\ \A n \in 1 .. N : /\ c.tools[n].name = i.tools[n].name
                           /\ c.tools[n].definition =
                                Scanned(i.tools[n].definition, Carried(i)[n - 1]).out
  BY <1>1, CompactTools
<1>4. \A n \in 0 .. N : Carried(i)[n] = Outside
  BY CarriedOutside
<1>5. ASSUME NEW n \in 1 .. N
      PROVE  /\ i.tools[n].name \in Nat
             /\ c.tools[n].definition = Scanned(i.tools[n].definition, Outside).out
  <2> DEFINE t == i.tools[n]
  <2>1. t \in Tool
    BY <1>2
  <2>2. t.name \in Nat
    <3> HIDE DEF t
    <3> QED BY <2>1 DEF Tool
  <2>3. Carried(i)[n - 1] = Outside
    <3>1. n - 1 \in 0 .. N
      BY <1>3
    <3> QED BY <1>4, <3>1
  <2> QED BY <1>3, <2>2, <2>3
<1> HIDE DEF c, i
<1>6. Ordered(i.tools)
  BY <1>1, <1>3, <1>5 DEF Ordered, SortedByName
<1>7. Ordered(c.tools)
  BY <1>3, <1>5, <1>6 DEF Ordered
<1> QED BY <1>1, <1>2, <1>3, <1>5, <1>6, <1>7 DEF LeftOf, i

\* The definition of a tool, found by its name.
LEMMA DefinitionIs ==
  ASSUME NEW i, Ordered(i.tools), NEW n \in 1 .. Len(i.tools)
  PROVE  Definition(i, i.tools[n].name) = i.tools[n].definition
<1> DEFINE P(k) == k \in DOMAIN i.tools /\ i.tools[k].name = i.tools[n].name
           c == CHOOSE k \in DOMAIN i.tools : i.tools[k].name = i.tools[n].name
<1>1. /\ Len(i.tools) \in Nat /\ DOMAIN i.tools = 1 .. Len(i.tools)
      /\ \A k \in 1 .. Len(i.tools) : i.tools[k].name \in Nat
      /\ \A j, k \in 1 .. Len(i.tools) : j < k => i.tools[j].name < i.tools[k].name
  BY DEF Ordered
<1>2. P(n)
  BY <1>1
<1>3. P(c)
  BY <1>2, Zenon
<1> HIDE DEF c
<1>4. c = n
  <2>1. c \in 1 .. Len(i.tools) /\ i.tools[c].name = i.tools[n].name
    BY <1>1, <1>3
  <2>2. ~(c < n) /\ ~(n < c)
    BY <1>1, <2>1
  <2> QED BY <1>1, <2>1, <2>2
<1>5. Definition(i, i.tools[n].name) = i.tools[c].definition
  BY Zenon DEF Definition, c
<1> QED BY <1>4, <1>5

NamesIn(t) == {t[n].name : n \in DOMAIN t}

LEMMA SameNames ==
  ASSUME NEW s, NEW t, Ordered(s), Len(s) = Len(t), Ordered(t),
         \A n \in 1 .. Len(t) : s[n].name = t[n].name
  PROVE  NamesTo(s, Len(s)) = NamesIn(t)
<1>1. DOMAIN t = 1 .. Len(t)
  BY DEF Ordered
<1>2. NamesTo(s, Len(s)) = {s[n].name : n \in 1 .. Len(t)}
  BY DEF NamesTo
<1> QED BY <1>1, <1>2 DEF NamesIn

\* What DriftIsReal says of two documents.
DriftTells(drift, a, b) ==
  /\ drift.executable <=> a.executable # b.executable
  /\ drift.added = Names(b) \ Names(a)
  /\ drift.removed = Names(a) \ Names(b)
  /\ drift.modified = {n \in Names(a) \cap Names(b) :
                         ~SameMeaning(Definition(a, n), Definition(b, n))}

LEMMA DriftFollows ==
  ASSUME NEW p \in Accepted, NEW q \in Accepted, WellFormed(p), WellFormed(q),
         NEW a, a = p.inventory, NEW b, b = q.inventory,
         NEW drift, drift = compare_inventories(Written[p].inventory, Written[q].inventory)
  PROVE  DriftTells(drift, a, b)
<1> DEFINE c == Written[p].inventory
           e == Written[q].inventory
           ct == c.tools
           et == e.tools
           at == a.tools
           bt == b.tools
           s == MergeEnd(ct, et)
<1>1. LeftOf(p, c) /\ LeftOf(q, e)
  BY LeftIs
<1>2. drift = [executable |-> c.executable # e.executable,
               added |-> s.added, removed |-> s.removed, modified |-> s.modified]
  BY DEF compare_inventories, MergeEnd
<1> HIDE DEF c, e
<1>3. /\ c.executable = a.executable /\ e.executable = b.executable
      /\ Ordered(ct) /\ Ordered(et) /\ Ordered(at) /\ Ordered(bt)
      /\ Len(ct) = Len(at) /\ Len(et) = Len(bt)
  BY <1>1 DEF LeftOf
<1>4. /\ \A n \in 1 .. Len(at) :
           /\ at[n].definition \in Seq(STRING)
           /\ ct[n].name = at[n].name
           /\ ct[n].definition = Scanned(at[n].definition, Outside).out
      /\ \A n \in 1 .. Len(bt) :
           /\ bt[n].definition \in Seq(STRING)
           /\ et[n].name = bt[n].name
           /\ et[n].definition = Scanned(bt[n].definition, Outside).out
  BY <1>1 DEF LeftOf
<1> HIDE DEF ct, et, at, bt
<1>5. Differences(s, ct, et)
  <2>1. s = MergeEnd(ct, et)
    OBVIOUS
  <2> HIDE DEF s
  <2> QED BY <1>3, <2>1, MergedIs
<1>6. /\ DOMAIN at = 1 .. Len(at) /\ DOMAIN bt = 1 .. Len(bt)
      /\ \A n \in 1 .. Len(at) : at[n].name \in Nat
      /\ \A n \in 1 .. Len(bt) : bt[n].name \in Nat
  BY <1>3 DEF Ordered
<1>7. NamesTo(ct, Len(ct)) = Names(a) /\ NamesTo(et, Len(et)) = Names(b)
  <2>1. NamesTo(ct, Len(ct)) = NamesIn(at)
    BY <1>3, <1>4, SameNames
  <2>2. NamesTo(et, Len(et)) = NamesIn(bt)
    BY <1>3, <1>4, SameNames
  <2> QED BY <2>1, <2>2, Zenon DEF Names, NamesIn, at, bt
<1>8. ASSUME NEW m \in 1 .. Len(at), NEW n \in 1 .. Len(bt)
      PROVE  SameMeaning(at[m].definition, bt[n].definition) <=>
               ct[m].definition = et[n].definition
  BY <1>4, MeaningIs
<1>9. /\ \A n \in 1 .. Len(at) : Definition(a, at[n].name) = at[n].definition
      /\ \A n \in 1 .. Len(bt) : Definition(b, bt[n].name) = bt[n].definition
  BY <1>3, DefinitionIs DEF at, bt
<1> DEFINE D == {n \in Names(a) \cap Names(b) :
                   ~SameMeaning(Definition(a, n), Definition(b, n))}
<1>10. s.modified \subseteq D
  <2> SUFFICES ASSUME NEW x \in s.modified PROVE x \in D
    OBVIOUS
  <2>1. PICK m \in 1 .. Len(at), n \in 1 .. Len(bt) :
          /\ ct[m].name = x /\ et[n].name = x
          /\ ct[m].definition # et[n].definition
    BY <1>3, <1>5 DEF ChangedTo, Differences
  <2>2. at[m].name = x /\ bt[n].name = x
    BY <1>4, <2>1
  <2>3. x \in Names(a) /\ x \in Names(b)
    BY <1>6, <2>2 DEF Names, at, bt
  <2>4. /\ Definition(a, x) = at[m].definition
        /\ Definition(b, x) = bt[n].definition
    BY <1>9, <2>2
  <2> QED BY <1>8, <2>1, <2>3, <2>4
<1>11. D \subseteq s.modified
  <2> SUFFICES ASSUME NEW x \in D PROVE x \in s.modified
    OBVIOUS
  <2>1. PICK m \in 1 .. Len(at) : at[m].name = x
    BY <1>6 DEF Names, at, bt
  <2>2. PICK n \in 1 .. Len(bt) : bt[n].name = x
    BY <1>6 DEF Names, at, bt
  <2>3. ~SameMeaning(at[m].definition, bt[n].definition)
    BY <1>9, <2>1, <2>2
  <2>4. /\ ct[m].name = x /\ et[n].name = x /\ x \in Nat
        /\ ct[m].definition # et[n].definition
    BY <1>4, <1>6, <1>8, <2>1, <2>2, <2>3
  <2>5. m \in 1 .. Len(ct) /\ n \in 1 .. Len(et)
    BY <1>3
  <2> QED BY <1>5, <2>4, <2>5 DEF ChangedTo, Differences
<1>12. s.modified = D
  BY <1>10, <1>11
<1> HIDE DEF D, s
<1>13. /\ drift.executable = (c.executable # e.executable)
       /\ drift.added = s.added /\ drift.removed = s.removed /\ drift.modified = s.modified
  BY <1>2
<1>14. drift.executable <=> a.executable # b.executable
  BY <1>3, <1>13
<1> QED BY <1>5, <1>7, <1>12, <1>13, <1>14 DEF D, DriftTells, Differences

LEMMA DriftHolds == DriftIsReal
<1> DEFINE r(t) == analyze_history(history, t)
           drift(t) == diff_latest(history, t)
           Source(o) == {d \in Accepted : Written[d] = o /\ WellFormed(d)}
<1>1. ASSUME NEW t \in Targets, NEW p \in Source(r(t).history.previous),
             NEW q \in Source(r(t).history.latest)
      PROVE  DriftTells(drift(t), p.inventory, q.inventory)
  <2>1. /\ p \in Accepted /\ q \in Accepted /\ WellFormed(p) /\ WellFormed(q)
        /\ drift(t) = compare_inventories(Written[p].inventory, Written[q].inventory)
    BY <1>1, Zenon DEF diff_latest
  <2> HIDE DEF drift
  <2> QED BY <2>1, DriftFollows
<1> QED BY <1>1, Zenon DEF DriftIsReal, DriftTells

\* What "history diff-latest" reports of well-formed documents is the
\* difference of what they said, whatever white space they came with.
THEOREM DriftReal == Spec => []DriftIsReal
<1> QED BY DriftHolds, PTL

=============================================================================
