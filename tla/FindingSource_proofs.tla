------------------------ MODULE FindingSource_proofs ------------------------
(***************************************************************************)
(* Where findings point and what source is shown for them                  *)
(***************************************************************************)
EXTENDS PackageAnalysis_proofs, SequenceTheorems

-----------------------------------------------------------------------------
(* Sets of positions                                                       *)

LEMMA FirstIs ==
  ASSUME NEW S, S \subseteq Nat, S # {}
  PROVE  First(S) \in S /\ \A m \in S : First(S) <= m
<1>1. IsWellFoundedOn(OpToRel(<, Nat), Nat)
  BY NatLessThanWellFounded
<1>2. \E x \in S : \A y \in S : ~ (<< y, x >> \in OpToRel(<, Nat))
  BY <1>1, WFMin
<1>3. PICK x \in S : \A y \in S : ~ (<< y, x >> \in OpToRel(<, Nat))
  BY <1>2
<1>4. \A y \in S : ~ (y < x)
  BY <1>3 DEF OpToRel
<1>5. \A y \in S : x <= y
  BY <1>4
<1>6. \E n \in S : \A m \in S : n <= m
  BY <1>5
<1> QED BY <1>6 DEF First

LEMMA GreatestIs ==
  ASSUME NEW n \in Nat, NEW S, S \subseteq 0 .. n, S # {}
  PROVE  \E m \in S : \A k \in S : k <= m
<1> DEFINE T == {n - k : k \in S}
<1>1. T \subseteq Nat /\ T # {}
  <2>1. \A k \in S : k \in 0 .. n /\ n - k \in Nat
    OBVIOUS
  <2>2. PICK k : k \in S
    OBVIOUS
  <2>3. n - k \in T
    BY <2>2
  <2> QED BY <2>1, <2>3
<1>2. First(T) \in T /\ \A t \in T : First(T) <= t
  BY <1>1, FirstIs
<1>3. PICK m \in S : First(T) = n - m
  BY <1>2
<1>4. ASSUME NEW k \in S PROVE k <= m
  <2>1. n - k \in T
    OBVIOUS
  <2>2. n - m <= n - k
    BY <1>2, <1>3, <2>1
  <2> QED BY <2>2
<1> QED BY <1>4

-----------------------------------------------------------------------------
(* Lines of a text                                                         *)

Newlines(text, i) == {j \in DOMAIN text : j < i /\ text[j] = "nl"}

LEMMA TextIs ==
  ASSUME NEW text, IsSequence(text)
  PROVE  /\ Len(text) \in Nat /\ DOMAIN text = 1 .. Len(text)
         /\ \A i \in 1 .. Len(text) : text[i] \in {text[j] : j \in DOMAIN text}
         /\ text \in Seq({text[j] : j \in DOMAIN text})
BY DEF IsSequence

LEMMA NewlinesFinite ==
  ASSUME NEW text, IsSequence(text), NEW i
  PROVE  /\ IsFiniteSet(Newlines(text, i))
         /\ NewlinesBefore(text, i) = Cardinality(Newlines(text, i))
         /\ NewlinesBefore(text, i) \in Nat
<1>1. Len(text) \in Nat /\ DOMAIN text = 1 .. Len(text)
  BY TextIs
<1>2. IsFiniteSet(1 .. Len(text))
  BY <1>1, FS_Interval
<1>3. Newlines(text, i) \subseteq 1 .. Len(text)
  BY <1>1 DEF Newlines
<1>4. IsFiniteSet(Newlines(text, i))
  BY <1>2, <1>3, FS_Subset
<1>5. NewlinesBefore(text, i) = Cardinality(Newlines(text, i))
  BY DEF NewlinesBefore, Newlines
<1> QED BY <1>4, <1>5, FS_CardinalityType

\* A newline between two positions tells their counts apart.
LEMMA NewlineBetween ==
  ASSUME NEW text, IsSequence(text), NEW i \in Nat, NEW j \in Nat,
         NEW k \in DOMAIN text, text[k] = "nl", i <= k, k < j
  PROVE  NewlinesBefore(text, i) < NewlinesBefore(text, j)
<1>1. /\ IsFiniteSet(Newlines(text, j)) /\ IsFiniteSet(Newlines(text, i))
      /\ NewlinesBefore(text, i) = Cardinality(Newlines(text, i))
      /\ NewlinesBefore(text, j) = Cardinality(Newlines(text, j))
      /\ NewlinesBefore(text, i) \in Nat /\ NewlinesBefore(text, j) \in Nat
  BY NewlinesFinite
<1>2. k \in Nat
  BY TextIs
<1>3. Newlines(text, i) \subseteq Newlines(text, j)
  <2>1. \A m \in DOMAIN text : m \in Nat
    BY TextIs
  <2> QED BY <1>2, <2>1 DEF Newlines
<1>4. k \in Newlines(text, j) /\ k \notin Newlines(text, i)
  BY <1>2 DEF Newlines
<1>5. /\ Cardinality(Newlines(text, i)) <= Cardinality(Newlines(text, j))
      /\ Cardinality(Newlines(text, j)) # Cardinality(Newlines(text, i))
  BY <1>1, <1>3, <1>4, FS_Subset
<1> QED BY <1>1, <1>5

\* The line that ends at a position: it begins after a newline or at the start
\* and has none before its end.
LEMMA LineIs ==
  ASSUME NEW text, IsSequence(text), NEW end \in Ends(text)
  PROVE  /\ end \in 1 .. (Len(text) + 1)
         /\ LineStart(text, end) \in 1 .. end
         /\ LineNumber(text, end) = NewlinesBefore(text, end) + 1
         /\ \A i \in LineStart(text, end) .. end :
              NewlinesBefore(text, i) = NewlinesBefore(text, end)
         /\ \A i \in LineStart(text, end) .. (end - 1) : text[i] # "nl"
         /\ \/ LineStart(text, end) = 1
            \/ text[LineStart(text, end) - 1] = "nl"
<1>1. Len(text) \in Nat /\ DOMAIN text = 1 .. Len(text)
  BY TextIs
<1>2. end \in 1 .. (Len(text) + 1)
  BY <1>1 DEF Ends
<1>3. Before(text, end) = Newlines(text, end)
  BY <1>1, <1>2 DEF Before, Ends, Newlines
<1>4. LineNumber(text, end) = NewlinesBefore(text, end) + 1
  BY <1>3 DEF LineNumber, NewlinesBefore, Newlines
<1>5. PICK start \in 1 .. end :
        /\ start = LineStart(text, end)
        /\ start = 1 \/ text[start - 1] = "nl"
        /\ \A i \in Newlines(text, end) : i < start
  <2>1. CASE Newlines(text, end) = {}
    <3>1. LineStart(text, end) = 1
      BY <1>3, <2>1 DEF LineStart
    <3> QED BY <1>2, <2>1, <3>1
  <2>2. CASE Newlines(text, end) # {}
    <3> DEFINE last == CHOOSE i \in Before(text, end) :
                         \A j \in Before(text, end) : j <= i
    <3>1. Newlines(text, end) \subseteq 0 .. Len(text)
      BY <1>1 DEF Newlines
    <3>2. \E i \in Before(text, end) : \A j \in Before(text, end) : j <= i
      BY <1>1, <1>3, <2>2, <3>1, GreatestIs
    <3>3. last \in Before(text, end) /\ \A j \in Before(text, end) : j <= last
      BY <3>2
    <3>4. LineStart(text, end) = 1 + last
      BY <1>3, <2>2 DEF LineStart
    <3> HIDE DEF last
    <3>5. last \in DOMAIN text /\ last < end /\ text[last] = "nl"
      BY <1>3, <3>3 DEF Newlines
    <3>6. 1 + last \in 1 .. end /\ (1 + last) - 1 = last
      BY <1>1, <1>2, <3>5
    <3>7. \A i \in Newlines(text, end) : i < 1 + last
      BY <1>1, <1>3, <3>3, <3>5 DEF Newlines
    <3> QED BY <3>4, <3>5, <3>6, <3>7
  <2> QED BY <2>1, <2>2
<1>6. ASSUME NEW i \in start .. (end - 1) PROVE text[i] # "nl"
  <2>1. i \in DOMAIN text /\ i < end /\ ~(i < start)
    BY <1>1, <1>2
  <2> QED BY <1>5, <2>1 DEF Newlines
<1>7. ASSUME NEW i \in start .. end
      PROVE  NewlinesBefore(text, i) = NewlinesBefore(text, end)
  <2>1. Newlines(text, i) = Newlines(text, end)
    <3>1. ASSUME NEW j \in Newlines(text, end) PROVE j \in Newlines(text, i)
      BY <1>1, <1>5, <3>1 DEF Newlines
    <3>2. ASSUME NEW j \in Newlines(text, i) PROVE j \in Newlines(text, end)
      BY <1>1, <1>2, <3>2 DEF Newlines
    <3> QED BY <3>1, <3>2
  <2> QED BY <2>1, NewlinesFinite
<1> QED BY <1>2, <1>4, <1>5, <1>6, <1>7

-----------------------------------------------------------------------------
(* Findings that cite a line                                               *)

LEMMA FindingsAre ==
  ASSUME NEW registry, NEW a, NEW document, NEW result,
         Answered(registry, a, document, result), NEW f \in result.findings
  PROVE  LET members == parse_ustar(Archives[a]).members
             manifest == ManifestOf(registry, members)
         IN \E g : /\ f = [g EXCEPT !.evidence = bound_snippet(@)]
                   /\ \/ g \in PackageFindings(registry, document, manifest)
                      \/ \E i \in Regulars(members) :
                           g \in FindingsOf(document, members[i])
<1> DEFINE members == parse_ustar(Archives[a]).members
           manifest == ManifestOf(registry, members)
           answer == analyze_package_tarball_bytes(registry, Archives[a], document)
           all == PackageFindings(registry, document, manifest)
                    \cup UNION {FindingsOf(document, members[i]) : i \in Regulars(members)}
<1>1. answer.ok => answer.findings = Bounded(all)
  BY DEF analyze_package_tarball_bytes, Bad
<1>2. f \in Bounded(all)
  BY <1>1 DEF Answered
<1> HIDE DEF all
<1>3. PICK g \in all : f = [g EXCEPT !.evidence = bound_snippet(@)]
  BY <1>2 DEF Bounded
<1>4. \/ g \in PackageFindings(registry, document, manifest)
      \/ \E i \in Regulars(members) : g \in FindingsOf(document, members[i])
  BY <1>3 DEF all
<1> QED BY <1>3, <1>4

LEMMA SymbolsAre ==
  ASSUME NEW document \in Rules
  PROVE  LET all == document.builtins \o document.risks
         IN \A i \in DOMAIN all : IsSequence(all[i].symbol)
<1> DEFINE builtins == document.builtins
           risks == document.risks
           S == {builtins[i] : i \in DOMAIN builtins} \cup {risks[i] : i \in DOMAIN risks}
<1>1. /\ IsSequence(builtins) /\ IsSequence(risks)
      /\ \A rule \in S : IsSequence(rule.symbol)
  BY RulesAssumption
<1> HIDE DEF builtins, risks
<1>2. builtins \in Seq(S) /\ risks \in Seq(S)
  <2>1. /\ builtins \in Seq({builtins[i] : i \in DOMAIN builtins})
        /\ risks \in Seq({risks[i] : i \in DOMAIN risks})
    BY <1>1 DEF IsSequence
  <2> QED BY <2>1, SeqMonotonic
<1> HIDE DEF S
<1>3. builtins \o risks \in Seq(S)
  BY <1>2
<1>4. \A i \in DOMAIN (builtins \o risks) : (builtins \o risks)[i] \in S
  BY <1>3
<1> QED BY <1>1, <1>4 DEF builtins, risks

LEMMA CitedByScan ==
  ASSUME NEW document \in Rules, NEW member,
         NEW g \in scan_javascript_text(document, member)
  PROVE  \E rule : \E end \in Ends(member.text) :
           /\ g = Finding(rule.id, member.path, LineNumber(member.text, end),
                          rule.symbol, Line(member.text, end))
           /\ \E token : Found(Line(member.text, end), token) # {}
           /\ IsSequence(rule.symbol)
<1> DEFINE matches(rule, end) ==
             \E token \in rule.tokens : Found(Line(member.text, end), token) # {}
           suppressed(rule, end) ==
             rule.suppress /\ Found(Line(member.text, end), document.marker) # {}
           all == document.builtins \o document.risks
           rules == {all[i] : i \in DOMAIN all}
           cited(rule) == {end \in Ends(member.text) :
                             matches(rule, end) /\ ~suppressed(rule, end)}
           of(rule, end) == Finding(rule.id, member.path,
                                    LineNumber(member.text, end), rule.symbol,
                                    Line(member.text, end))
<1>1. g \in UNION {{of(rule, end) : end \in cited(rule)} : rule \in rules}
  BY DEF scan_javascript_text
<1>2. \A rule \in rules : IsSequence(rule.symbol)
  BY SymbolsAre
<1> HIDE DEF of, cited, rules
<1>3. PICK rule \in rules : g \in {of(rule, end) : end \in cited(rule)}
  BY <1>1
<1>4. PICK end \in cited(rule) : g = of(rule, end)
  BY <1>3
<1>5. end \in Ends(member.text) /\ matches(rule, end)
  BY <1>4 DEF cited
<1>6. \E token : Found(Line(member.text, end), token) # {}
  BY <1>5
<1> QED BY <1>2, <1>4, <1>5, <1>6 DEF of

\* A finding with a line is of a regular member, and cites that line of it.
LEMMA CitesLine ==
  ASSUME NEW registry, NEW a, NEW document, NEW result,
         Answered(registry, a, document, result), NEW f \in result.findings,
         f.line # NoLine
  PROVE  LET members == parse_ustar(Archives[a]).members
         IN \E i \in Regulars(members) : \E end \in Ends(members[i].text) :
              /\ f.path = members[i].path
              /\ f.line = LineNumber(members[i].text, end)
              /\ f.evidence = bound_snippet(Line(members[i].text, end))
              /\ \E token : Found(Line(members[i].text, end), token) # {}
              /\ IsSequence(f.symbol)
<1> DEFINE members == parse_ustar(Archives[a]).members
           manifest == ManifestOf(registry, members)
<1>1. PICK g : /\ f = [g EXCEPT !.evidence = bound_snippet(@)]
               /\ \/ g \in PackageFindings(registry, document, manifest)
                  \/ \E i \in Regulars(members) : g \in FindingsOf(document, members[i])
  BY FindingsAre
<1>2. \A id, path, line, symbol, cited :
        LET x == Finding(id, path, line, symbol, cited)
        IN /\ [x EXCEPT !.evidence = bound_snippet(@)].line = line
           /\ [x EXCEPT !.evidence = bound_snippet(@)].path = path
           /\ [x EXCEPT !.evidence = bound_snippet(@)].symbol = symbol
           /\ [x EXCEPT !.evidence = bound_snippet(@)].evidence = bound_snippet(cited)
  BY DEF Finding
<1>3. g \notin PackageFindings(registry, document, manifest)
  <2>1. ASSUME NEW id, NEW path, NEW symbol, NEW cited
        PROVE  g # Finding(id, path, NoLine, symbol, cited)
    BY <1>1, <1>2
  <2> QED BY <2>1 DEF PackageFindings
<1>4. PICK i \in Regulars(members) : g \in FindingsOf(document, members[i])
  BY <1>1, <1>3
<1>5. \A id, path, symbol, cited : g # Finding(id, path, NoLine, symbol, cited)
  BY <1>1, <1>2
<1>6. g \in scan_javascript_text(document, members[i])
  BY <1>4, <1>5 DEF FindingsOf
<1>7. \E rule : \E end \in Ends(members[i].text) :
        /\ g = Finding(rule.id, members[i].path, LineNumber(members[i].text, end),
                       rule.symbol, Line(members[i].text, end))
        /\ \E token : Found(Line(members[i].text, end), token) # {}
        /\ IsSequence(rule.symbol)
  <2>1. document \in Rules
    BY DEF Answered
  <2> QED BY <1>4, <1>6, <2>1, CitedByScan
<1>8. PICK rule : \E end \in Ends(members[i].text) :
        /\ g = Finding(rule.id, members[i].path, LineNumber(members[i].text, end),
                       rule.symbol, Line(members[i].text, end))
        /\ \E token : Found(Line(members[i].text, end), token) # {}
        /\ IsSequence(rule.symbol)
  BY <1>7
<1>9. PICK end \in Ends(members[i].text) :
        /\ g = Finding(rule.id, members[i].path, LineNumber(members[i].text, end),
                       rule.symbol, Line(members[i].text, end))
        /\ \E token : Found(Line(members[i].text, end), token) # {}
        /\ IsSequence(rule.symbol)
  BY <1>8
<1> HIDE DEF members
<1>10. /\ f.line = LineNumber(members[i].text, end) /\ f.path = members[i].path
       /\ f.symbol = rule.symbol
       /\ f.evidence = bound_snippet(Line(members[i].text, end))
  BY <1>1, <1>2, <1>9
<1> QED BY <1>9, <1>10 DEF members

-----------------------------------------------------------------------------
(* Recorded files                                                          *)

\* The members before the end mark, and the text of each, are sequences.
LEMMA MembersAre ==
  ASSUME NEW a \in Artifacts
  PROVE  LET members == parse_ustar(Archives[a]).members
         IN parse_ustar(Archives[a]).ok =>
              \A i \in DOMAIN members :
                /\ i \in DOMAIN Archives[a] /\ members[i] = Archives[a][i]
                /\ IsSequence(members[i].text)
<1> DEFINE headers == Archives[a]
           stop == {i \in DOMAIN headers : headers[i].kind = "end"}
           kept == IF stop = {} THEN headers
                   ELSE SubSeq(headers, 1, First(stop) - 1)
<1>1. parse_ustar(Archives[a]).ok => parse_ustar(Archives[a]).members = kept
  BY DEF parse_ustar, Bad
<1>2. /\ IsSequence(headers)
      /\ \A i \in DOMAIN headers : IsSequence(headers[i].text)
  BY ArchiveAssumption
<1>3. /\ Len(headers) \in Nat /\ DOMAIN headers = 1 .. Len(headers)
  BY <1>2, TextIs
<1> HIDE DEF headers
<1>4. ASSUME NEW i \in DOMAIN kept
      PROVE  i \in DOMAIN headers /\ kept[i] = headers[i]
  <2>1. CASE stop = {}
    BY <1>4, <2>1
  <2>2. CASE stop # {}
    <3>1. stop \subseteq Nat
      BY <1>3
    <3>2. First(stop) \in stop
      BY <2>2, <3>1, FirstIs
    <3>3. PICK m : m = First(stop) /\ m \in 1 .. Len(headers)
      BY <1>3, <3>2
    <3>4. kept = SubSeq(headers, 1, m - 1)
      BY <2>2, <3>3
    <3> HIDE DEF kept, stop
    <3>5. \A j \in 1 .. (m - 1) : headers[j] \in {headers[k] : k \in 1 .. Len(headers)}
      BY <1>3, <3>3
    <3>6. /\ kept \in Seq({headers[k] : k \in 1 .. Len(headers)})
          /\ Len(kept) = IF 1 <= m - 1 THEN m - 1 ELSE 0
          /\ \A j \in 1 .. (m - 1) : kept[j] = headers[j]
      <4>1. 1 \in Int /\ m - 1 \in Int
        BY <1>3, <3>3
      <4> DEFINE S == {headers[k] : k \in 1 .. Len(headers)}
      <4> HIDE DEF S
      <4>2. /\ SubSeq(headers, 1, m - 1) \in Seq(S)
            /\ Len(SubSeq(headers, 1, m - 1)) =
                 IF 1 <= m - 1 THEN (m - 1) - 1 + 1 ELSE 0
            /\ \A j \in 1 .. ((m - 1) - 1 + 1) :
                 SubSeq(headers, 1, m - 1)[j] = headers[1 + j - 1]
        BY <3>5, <4>1, SubSeqProperties DEF S
      <4>3. /\ (m - 1) - 1 + 1 = m - 1
            /\ \A j \in 1 .. (m - 1) : 1 + j - 1 = j
        BY <1>3, <3>3
      <4> QED BY <3>4, <4>2, <4>3 DEF S
    <3>7. DOMAIN kept = 1 .. Len(kept)
      BY <3>6, LenProperties
    <3>8. i \in 1 .. (m - 1)
      BY <1>3, <1>4, <3>3, <3>6, <3>7
    <3>9. i \in 1 .. Len(headers)
      BY <1>3, <3>3, <3>8
    <3> QED BY <1>3, <3>6, <3>8, <3>9
  <2> QED BY <2>1, <2>2
<1> HIDE DEF kept
<1> QED BY <1>1, <1>2, <1>4 DEF headers

\* What is left of a snippet without its dots begins the line it was cut from.
LEMMA SnippetIs ==
  ASSUME NEW S, NEW line \in Seq(S)
  PROVE  LET snippet == WithoutDots(bound_snippet(line))
         IN /\ snippet \in Seq(S) /\ Len(snippet) \in 0 .. Len(line)
            /\ \A i \in 1 .. Len(snippet) : snippet[i] = line[i]
<1>1. Snippet \in Nat \ {0}
  BY LimitAssumption
<1>2. Len(line) \in Nat /\ DOMAIN line = 1 .. Len(line)
  OBVIOUS
<1>3. \A i \in 1 .. Len(line) : line[i] \in S
  OBVIOUS
<1>4. ASSUME NEW n \in 0 .. Len(line), NEW cut, cut = SubSeq(line, 1, n)
      PROVE  /\ cut \in Seq(S) /\ Len(cut) = n
             /\ \A i \in 1 .. n : cut[i] = line[i]
  <2>1. \A i \in 1 .. n : line[i] \in S
    BY <1>2, <1>3
  <2> QED BY <1>2, <1>4, <2>1
<1>5. CASE Len(line) <= Snippet
  <2>1. bound_snippet(line) = line
    BY <1>5 DEF bound_snippet
  <2>2. CASE line # << >> /\ Last(line) = "dots"
    <3>1. WithoutDots(line) = SubSeq(line, 1, Len(line) - 1)
      BY <2>2 DEF WithoutDots
    <3>2. Len(line) - 1 \in 0 .. Len(line)
      BY <1>2, <2>2
    <3> QED BY <1>2, <1>4, <2>1, <3>1, <3>2
  <2>3. CASE ~(line # << >> /\ Last(line) = "dots")
    <3>1. WithoutDots(line) = line
      BY <2>3 DEF WithoutDots
    <3> QED BY <1>2, <2>1, <3>1
  <2> QED BY <2>2, <2>3
<1>6. CASE ~(Len(line) <= Snippet)
  <2>1. PICK head : head = SubSeq(line, 1, Snippet)
    OBVIOUS
  <2>2. Snippet \in 0 .. Len(line)
    BY <1>1, <1>2, <1>6
  <2>3. /\ head \in Seq(S) /\ Len(head) = Snippet
        /\ \A i \in 1 .. Snippet : head[i] = line[i]
    BY <1>4, <2>1, <2>2
  <2>4. PICK all : all = Append(head, "dots")
    OBVIOUS
  <2>5. bound_snippet(line) = all
    BY <1>6, <2>1, <2>4 DEF bound_snippet
  <2>6. /\ all # << >> /\ Len(all) = Snippet + 1 /\ all[Snippet + 1] = "dots"
        /\ \A i \in 1 .. Snippet : all[i] = head[i]
    BY <1>1, <2>3, <2>4
  <2>7. WithoutDots(all) = SubSeq(all, 1, (Snippet + 1) - 1)
    BY <2>6 DEF WithoutDots, Last
  <2>8. (Snippet + 1) - 1 = Snippet
    BY <1>1
  <2>9. \A i \in 1 .. Snippet : all[i] \in S
    BY <1>2, <1>3, <2>2, <2>3, <2>6
  <2>10. /\ SubSeq(all, 1, Snippet) \in Seq(S)
         /\ Len(SubSeq(all, 1, Snippet)) = Snippet
         /\ \A i \in 1 .. Snippet : SubSeq(all, 1, Snippet)[i] = all[i]
    BY <1>1, <2>9
  <2> QED BY <2>2, <2>3, <2>5, <2>6, <2>7, <2>8, <2>10
<1> QED BY <1>5, <1>6

\* The line that ends at end, as a sequence.
LEMMA LineOf ==
  ASSUME NEW text, IsSequence(text), NEW end \in Ends(text)
  PROVE  LET start == LineStart(text, end)
             line == Line(text, end)
         IN /\ line \in Seq({text[i] : i \in DOMAIN text})
            /\ Len(line) = end - start
            /\ \A i \in 1 .. (end - start) : line[i] = text[start + i - 1]
<1>1. PICK start : start = LineStart(text, end) /\ start \in 1 .. end
  BY LineIs
<1>2. end \in 1 .. (Len(text) + 1) /\ Len(text) \in Nat
  BY LineIs, TextIs
<1>3. DOMAIN text = 1 .. Len(text)
  BY TextIs
<1>4. \A i \in start .. (end - 1) : text[i] \in {text[j] : j \in DOMAIN text}
  BY <1>1, <1>2, <1>3
<1> DEFINE S == {text[j] : j \in DOMAIN text}
<1> HIDE DEF S
<1>5. start \in Int /\ end - 1 \in Int
  BY <1>1, <1>2
<1>6. /\ SubSeq(text, start, end - 1) \in Seq(S)
      /\ Len(SubSeq(text, start, end - 1)) =
           IF start <= end - 1 THEN (end - 1) - start + 1 ELSE 0
      /\ \A i \in 1 .. ((end - 1) - start + 1) :
           SubSeq(text, start, end - 1)[i] = text[start + i - 1]
  BY <1>4, <1>5, SubSeqProperties DEF S
<1>7. /\ (end - 1) - start + 1 = end - start
      /\ (IF start <= end - 1 THEN (end - 1) - start + 1 ELSE 0) = end - start
  BY <1>1, <1>2
<1> QED BY <1>1, <1>6, <1>7 DEF S, Line

LEMMA LineShown ==
  ASSUME NEW text, IsSequence(text), NEW end \in Ends(text),
         NEW token, Found(Line(text, end), token) # {}
  PROVE  LET snippet == WithoutDots(bound_snippet(Line(text, end)))
             i == LineStart(text, end)
         IN /\ i \in DOMAIN text
            /\ NewlinesBefore(text, i) = LineNumber(text, end) - 1
            /\ i = 1 \/ text[i - 1] = "nl"
            /\ SubSeq(text, i, i + Len(snippet) - 1) = snippet
<1>1. PICK start, line : /\ start = LineStart(text, end)
                         /\ line = Line(text, end)
  OBVIOUS
<1>2. /\ start \in 1 .. end /\ end \in 1 .. (Len(text) + 1)
      /\ start = 1 \/ text[start - 1] = "nl"
      /\ LineNumber(text, end) = NewlinesBefore(text, end) + 1
      /\ \A j \in start .. end : NewlinesBefore(text, j) = NewlinesBefore(text, end)
  BY <1>1, LineIs
<1>3. Len(text) \in Nat /\ DOMAIN text = 1 .. Len(text)
  BY TextIs
<1> DEFINE S == {text[j] : j \in DOMAIN text}
<1>4. \A j \in DOMAIN text : text[j] \in S
  OBVIOUS
<1>5. /\ line \in Seq(S) /\ Len(line) = end - start
      /\ \A j \in 1 .. (end - start) : line[j] = text[start + j - 1]
  BY <1>1, LineOf
<1> HIDE DEF S
<1>6. Len(line) > 0
  <2>1. DOMAIN line # {}
    BY <1>1 DEF Found
  <2> QED BY <1>5, <2>1
<1>7. start \in DOMAIN text /\ start \in start .. end
  BY <1>2, <1>3, <1>5, <1>6
<1>8. NewlinesBefore(text, start) = LineNumber(text, end) - 1
  <2>1. NewlinesBefore(text, end) \in Nat
    BY <1>2, NewlinesFinite
  <2> QED BY <1>2, <1>7, <2>1
<1>9. PICK snippet : snippet = WithoutDots(bound_snippet(line))
  OBVIOUS
<1>10. /\ snippet \in Seq(S) /\ Len(snippet) \in 0 .. Len(line)
       /\ \A i \in 1 .. Len(snippet) : snippet[i] = line[i]
  BY <1>5, <1>9, SnippetIs
<1>11. PICK l \in Nat : l = Len(snippet) /\ l <= end - start
  BY <1>5, <1>10
<1>12. PICK shown2 : shown2 = SubSeq(text, start, start + l - 1)
  OBVIOUS
<1>13. /\ start \in Int /\ start + l - 1 \in Int
       /\ \A i \in start .. (start + l - 1) : text[i] \in S
  BY <1>2, <1>3, <1>4, <1>11
<1>14. /\ shown2 \in Seq(S) /\ Len(shown2) = l
       /\ \A i \in 1 .. l : shown2[i] = text[start + i - 1]
  <2>1. /\ shown2 \in Seq(S)
        /\ Len(shown2) = IF start <= start + l - 1 THEN (start + l - 1) - start + 1 ELSE 0
        /\ \A i \in 1 .. ((start + l - 1) - start + 1) : shown2[i] = text[start + i - 1]
    BY <1>12, <1>13, SubSeqProperties
  <2>2. start \in Nat /\ l \in Nat
    BY <1>2, <1>11
  <2>3. (start + l - 1) - start + 1 = l
    BY <2>2
  <2>4. (IF start <= start + l - 1 THEN (start + l - 1) - start + 1 ELSE 0) = l
    BY <2>2
  <2> QED BY <2>1, <2>3, <2>4
<1>15. \A i \in 1 .. l : shown2[i] = snippet[i]
  BY <1>2, <1>5, <1>10, <1>11, <1>14
<1>16. shown2 = snippet
  BY <1>10, <1>11, <1>14, <1>15, SeqEqual
<1> QED BY <1>1, <1>2, <1>7, <1>8, <1>9, <1>11, <1>12, <1>16

\* The record a finding refers to is the only one of its path.
LEMMA RecordIs ==
  ASSUME NEW files, ~Duplicate(files), NEW i \in DOMAIN files, i \in Nat
  PROVE  LET same == {j \in DOMAIN files : files[j].path = files[i].path}
         IN same = {i} /\ First(same) = i /\ Cardinality(same) = 1
<1>1. {j \in DOMAIN files : files[j].path = files[i].path} = {i}
  BY DEF Duplicate
<1>2. Cardinality({i}) = 1
  BY FS_Singleton
<1>3. First({i}) = i
  BY FirstIs
<1> QED BY <1>1, <1>2, <1>3

\* A completed run of an archive, its files and its findings.
LEMMA CompletedIs ==
  ASSUME NEW run, Row(run), run.status = "completed"
  PROVE  \E registry, a, document, result :
           /\ Answered(registry, a, document, result)
           /\ run.artifact = {a} /\ ~Duplicate(run.files)
           /\ run.files = result.files
           /\ DOMAIN run.disposition = result.findings
BY DEF Row, Completed, Failed

\* A run with findings is completed.
LEMMA WithFindings ==
  ASSUME NEW run, Row(run), NEW f \in DOMAIN run.disposition
  PROVE  run.status = "completed"
BY DEF Row, Completed, Failed

LEMMA LocatedOne ==
  ASSUME NEW run, Row(run), NEW f \in DOMAIN run.disposition, f.line # NoLine
  PROVE  LET record == {j \in DOMAIN run.files : run.files[j].path = f.path}
             text == run.files[First(record)].text
             snippet == WithoutDots(f.evidence)
         IN /\ Cardinality(record) = 1
            /\ \E i \in DOMAIN text :
                 /\ NewlinesBefore(text, i) = f.line - 1
                 /\ i = 1 \/ text[i - 1] = "nl"
                 /\ SubSeq(text, i, i + Len(snippet) - 1) = snippet
<1>1. \E registry, a, document, result :
        /\ Answered(registry, a, document, result)
        /\ ~Duplicate(run.files) /\ run.files = result.files
        /\ f \in result.findings
  BY CompletedIs, WithFindings
<1>2. PICK registry, a, document, result :
        /\ Answered(registry, a, document, result)
        /\ ~Duplicate(run.files) /\ run.files = result.files
        /\ f \in result.findings
  BY <1>1
<1>3. PICK members : members = parse_ustar(Archives[a]).members
  OBVIOUS
<1>4. /\ parse_ustar(Archives[a]).ok
      /\ DOMAIN run.files = Regulars(members)
      /\ \A i \in Regulars(members) :
           run.files[i] = FileRecord(document, members[i])
  BY <1>2, <1>3, AnswerIs
<1>5. \E i \in Regulars(members) : \E end \in Ends(members[i].text) :
        /\ f.path = members[i].path
        /\ f.line = LineNumber(members[i].text, end)
        /\ f.evidence = bound_snippet(Line(members[i].text, end))
        /\ \E token : Found(Line(members[i].text, end), token) # {}
  BY <1>2, <1>3, CitesLine
<1>6. PICK i \in Regulars(members) : \E end \in Ends(members[i].text) :
        /\ f.path = members[i].path
        /\ f.line = LineNumber(members[i].text, end)
        /\ f.evidence = bound_snippet(Line(members[i].text, end))
        /\ \E token : Found(Line(members[i].text, end), token) # {}
  BY <1>5
<1>7. PICK text : text = members[i].text
  OBVIOUS
<1>8. PICK end \in Ends(text) :
        /\ f.line = LineNumber(text, end)
        /\ f.evidence = bound_snippet(Line(text, end))
        /\ \E token : Found(Line(text, end), token) # {}
  BY <1>6, <1>7
<1>9. /\ i \in DOMAIN Archives[a] /\ IsSequence(text) /\ i \in DOMAIN run.files
      /\ run.files[i].text = text /\ run.files[i].path = f.path
  <2>1. i \in DOMAIN members /\ a \in Artifacts
    BY <1>2, <1>6 DEF Regulars, Answered
  <2>2. i \in DOMAIN Archives[a] /\ IsSequence(text)
    BY <1>3, <1>4, <1>7, <2>1, MembersAre
  <2>3. run.files[i].text = text /\ run.files[i].path = members[i].path
    <3>1. /\ FileRecord(document, members[i]).text = members[i].text
          /\ FileRecord(document, members[i]).path = members[i].path
      BY DEF FileRecord
    <3>2. run.files[i] = FileRecord(document, members[i])
      BY <1>4, <1>6
    <3> QED BY <1>7, <3>1, <3>2
  <2> QED BY <1>4, <1>6, <2>2, <2>3
<1>10. i \in Nat
  <2>1. IsSequence(Archives[a])
    BY <1>2, ArchiveAssumption DEF Answered
  <2>2. \A k \in DOMAIN Archives[a] : k \in Nat
    BY <2>1, TextIs
  <2> QED BY <1>9, <2>2
<1>11. PICK files : files = run.files
  OBVIOUS
<1>12. LET record == {j \in DOMAIN files : files[j].path = f.path}
       IN record = {i} /\ First(record) = i /\ Cardinality(record) = 1
  BY <1>2, <1>9, <1>10, <1>11, RecordIs
<1>13. PICK snippet : snippet = WithoutDots(f.evidence)
  OBVIOUS
<1>14. \E k \in DOMAIN text :
         /\ NewlinesBefore(text, k) = f.line - 1
         /\ k = 1 \/ text[k - 1] = "nl"
         /\ SubSeq(text, k, k + Len(snippet) - 1) = snippet
  BY <1>8, <1>9, <1>13, LineShown
<1> QED BY <1>9, <1>11, <1>12, <1>13, <1>14

\* Of every run of every archive by every rules: each file is recorded once, and
\* a finding with a line number cites a recorded file whose line of that number
\* is the one its evidence was cut from (scan_javascript_text and the UNIQUE
\* constraint on the paths of a run).
THEOREM LocationsAreTrue == Spec => []FindingsAreLocated
<1>1. TypeInv => FindingsAreLocated
  <2> SUFFICES ASSUME TypeInv, NEW n \in DOMAIN runs,
                      NEW f \in DOMAIN runs[n].disposition, f.line # NoLine
               PROVE  /\ Cardinality(RecordOf(n, f)) = 1
                      /\ LET text == runs[n].files[First(RecordOf(n, f))].text
                             snippet == WithoutDots(f.evidence)
                         IN \E i \in DOMAIN text :
                              /\ NewlinesBefore(text, i) = f.line - 1
                              /\ i = 1 \/ text[i - 1] = "nl"
                              /\ SubSeq(text, i, i + Len(snippet) - 1) = snippet
    BY DEF FindingsAreLocated
  <2>1. Row(runs[n])
    BY DEF TypeInv, RowsTyped
  <2> QED BY <2>1, LocatedOne DEF RecordOf
<1>2. IInv /\ TypeInv /\ [Next]_vars => (IInv /\ TypeInv)'
  BY NextIInv, NextTypeInv
<1>3. Init => IInv /\ TypeInv
  BY InitIInv, InitTypeInv
<1> QED BY <1>1, <1>2, <1>3, PTL DEF Spec

-----------------------------------------------------------------------------
(* Windows                                                                 *)

\* Neither end of a window is inside a character.
Cut(text, from, to) ==
  /\ from \in 0 .. Len(text) /\ to \in from .. Len(text)
  /\ ~Inside(text, from)
  /\ from < to => ~Inside(text, to)

LEMMA WindowIs ==
  ASSUME NEW text, IsSequence(text), valid_utf8(text), NEW finding,
         Anchor(text, finding) \in Nat
  PROVE  LET window == Window(text, finding)
         IN /\ Cut(text, window.from, window.to)
            /\ window.to - window.from <= SourceBytes
<1>1. PICK n \in Nat : n = Len(text) /\ DOMAIN text = 1 .. n
  BY TextIs
<1>2. SourceBytes \in Nat \ {0}
  BY LimitAssumption
<1>3. /\ \A i \in 1 .. n : text[i] = "tl" => i > 1 /\ text[i - 1] = "hd"
      /\ \A i \in 1 .. n : text[i] = "hd" => i < n /\ text[i + 1] = "tl"
  BY <1>1 DEF valid_utf8
<1>4. \A i \in 0 .. n : Inside(text, i) <=> i < n /\ text[i + 1] = "tl"
  BY <1>1 DEF Inside
<1>5. \A i \in 0 .. n : Inside(text, i) => i > 0 /\ ~Inside(text, i - 1)
  <2> SUFFICES ASSUME NEW i \in 0 .. n, Inside(text, i)
               PROVE  i > 0 /\ ~Inside(text, i - 1)
    OBVIOUS
  <2>1. i + 1 \in 1 .. n /\ (i + 1) - 1 = i /\ text[i + 1] = "tl"
    BY <1>1, <1>4
  <2>2. i + 1 > 1 /\ text[i] = "hd"
    BY <1>3, <2>1
  <2>3. i > 0 /\ i - 1 \in 0 .. n /\ (i - 1) + 1 = i
    BY <2>1, <2>2
  <2> QED BY <1>4, <2>2, <2>3
<1>6. \A i \in 0 .. n : Inside(text, i) => i < n /\ ~Inside(text, i + 1)
  <2> SUFFICES ASSUME NEW i \in 0 .. n, Inside(text, i)
               PROVE  i < n /\ ~Inside(text, i + 1)
    OBVIOUS
  <2>1. i < n
    BY <1>1, <1>4
  <2>2. i + 1 \in 0 .. n /\ (i + 1) - 1 = i
    BY <1>1, <2>1
  <2> QED BY <1>5, <2>1, <2>2
<1>7. CASE n <= SourceBytes
  <2>1. Window(text, finding) = [from |-> 0, to |-> n]
    BY <1>1, <1>7 DEF Window
  <2>2. ~Inside(text, 0) /\ ~Inside(text, n)
    BY <1>1, <1>4, <1>5
  <2>3. Window(text, finding).from = 0 /\ Window(text, finding).to = n
    BY <2>1
  <2> QED BY <1>1, <1>7, <2>2, <2>3 DEF Cut
<1>8. CASE ~(n <= SourceBytes)
  <2> DEFINE half == SourceBytes \div 2
             anchored == IF Anchor(text, finding) > half
                         THEN Anchor(text, finding) - half ELSE 0
             last == n - SourceBytes
  <2>1. PICK begin : begin = IF anchored < last THEN anchored ELSE last
    OBVIOUS
  <2>2. begin \in 0 .. (n - SourceBytes)
    <3>1. half \in Nat
      BY <1>2
    <3> HIDE DEF half
    <3>2. anchored \in Nat
      BY <3>1
    <3> HIDE DEF anchored
    <3> QED BY <1>1, <1>2, <1>8, <2>1, <3>2
  <2>3. Window(text, finding) = Trimmed(text)[begin]
    BY <1>1, <1>8, <2>1 DEF Window
  <2> HIDE DEF anchored, last
  <2>4. PICK inner : inner = IF Inside(text, begin) THEN begin + 1 ELSE begin
    OBVIOUS
  <2>5. PICK to : to = begin + SourceBytes
    OBVIOUS
  <2>6. PICK outer : outer = IF to > inner /\ Inside(text, to) THEN to - 1 ELSE to
    OBVIOUS
  <2>7. Trimmed(text)[begin] = [from |-> inner, to |-> outer]
    <3>1. begin \in 0 .. Len(text)
      BY <1>1, <1>2, <2>2
    <3> QED BY <2>4, <2>5, <2>6, <3>1 DEF Trimmed
  <2>8. to \in 0 .. n /\ begin \in 0 .. n /\ begin < to
    BY <1>1, <1>2, <2>2, <2>5
  <2>9. inner \in begin .. to /\ inner \in 0 .. n /\ ~Inside(text, inner)
    BY <1>1, <1>6, <2>4, <2>8
  <2>10. outer \in inner .. n /\ outer <= to
    BY <1>1, <2>6, <2>8, <2>9
  <2>11. inner < outer => ~Inside(text, outer)
    BY <1>5, <2>6, <2>8, <2>9
  <2>12. outer - inner <= SourceBytes
    BY <1>2, <2>2, <2>5, <2>9, <2>10
  <2>13. Window(text, finding).from = inner /\ Window(text, finding).to = outer
    BY <2>3, <2>7
  <2> QED BY <1>1, <2>9, <2>10, <2>11, <2>12, <2>13 DEF Cut
<1> QED BY <1>7, <1>8

\* What such a window shows of a text.
LEMMA CutIs ==
  ASSUME NEW text, IsSequence(text), NEW from, NEW to, Cut(text, from, to)
  PROVE  LET excerpt == SubSeq(text, from + 1, to)
         IN /\ excerpt \in Seq({text[i] : i \in DOMAIN text})
            /\ Len(excerpt) = to - from
            /\ DOMAIN excerpt = 1 .. (to - from)
            /\ \A i \in 1 .. (to - from) : excerpt[i] = text[from + i]
<1>1. PICK n \in Nat : n = Len(text) /\ DOMAIN text = 1 .. n
  BY TextIs
<1>2. from \in 0 .. n /\ to \in from .. n
  BY <1>1 DEF Cut
<1> DEFINE S == {text[i] : i \in DOMAIN text}
<1>3. \A i \in (from + 1) .. to : text[i] \in S
  BY <1>1, <1>2
<1>4. PICK excerpt : excerpt = SubSeq(text, from + 1, to)
  OBVIOUS
<1> HIDE DEF S
<1>5. from + 1 \in Int /\ to \in Int
  BY <1>2
<1>6. /\ excerpt \in Seq(S)
      /\ Len(excerpt) = IF from + 1 <= to THEN to - (from + 1) + 1 ELSE 0
      /\ \A i \in 1 .. (to - (from + 1) + 1) : excerpt[i] = text[from + 1 + i - 1]
  BY <1>3, <1>4, <1>5, SubSeqProperties
<1>7. /\ to - (from + 1) + 1 = to - from
      /\ (IF from + 1 <= to THEN to - (from + 1) + 1 ELSE 0) = to - from
      /\ \A i \in 1 .. (to - from) : from + 1 + i - 1 = from + i
  BY <1>1, <1>2
<1>8. DOMAIN excerpt = 1 .. Len(excerpt)
  BY <1>6, LenProperties
<1> QED BY <1>4, <1>6, <1>7, <1>8 DEF S

LEMMA CutIsValid ==
  ASSUME NEW text, IsSequence(text), valid_utf8(text),
         NEW from, NEW to, Cut(text, from, to)
  PROVE  valid_utf8(SubSeq(text, from + 1, to))
<1>1. PICK n \in Nat : n = Len(text) /\ DOMAIN text = 1 .. n
  BY TextIs
<1>2. /\ from \in 0 .. n /\ to \in from .. n
      /\ ~(from < n /\ text[from + 1] = "tl")
      /\ from < to => ~(to < n /\ text[to + 1] = "tl")
  BY <1>1 DEF Cut, Inside
<1>3. /\ \A i \in 1 .. n : text[i] = "tl" => i > 1 /\ text[i - 1] = "hd"
      /\ \A i \in 1 .. n : text[i] = "hd" => i < n /\ text[i + 1] = "tl"
  BY <1>1 DEF valid_utf8
<1>4. PICK excerpt : excerpt = SubSeq(text, from + 1, to)
  OBVIOUS
<1>5. /\ Len(excerpt) = to - from /\ DOMAIN excerpt = 1 .. (to - from)
      /\ \A i \in 1 .. (to - from) : excerpt[i] = text[from + i]
  <2> DEFINE whole == SubSeq(text, from + 1, to)
  <2>1. /\ Len(whole) = to - from /\ DOMAIN whole = 1 .. (to - from)
        /\ \A i \in 1 .. (to - from) : whole[i] = text[from + i]
    BY CutIs
  <2> HIDE DEF whole
  <2>2. excerpt = whole
    BY <1>4 DEF whole
  <2> QED BY <2>1, <2>2
<1>6. ASSUME NEW i \in 1 .. (to - from), excerpt[i] = "hd"
      PROVE  i < to - from /\ excerpt[i + 1] = "tl"
  <2>1. PICK m \in 1 .. n : m = from + i /\ text[m] = "hd"
    BY <1>1, <1>2, <1>5, <1>6
  <2>2. m < n /\ text[m + 1] = "tl"
    BY <1>3, <2>1
  <2>3. m # to
    BY <1>1, <1>2, <2>1, <2>2
  <2>4. i < to - from /\ i + 1 \in 1 .. (to - from) /\ from + (i + 1) = m + 1
    BY <1>1, <1>2, <2>1, <2>3
  <2> QED BY <1>5, <2>2, <2>4
<1>7. ASSUME NEW i \in 1 .. (to - from), excerpt[i] = "tl"
      PROVE  i > 1 /\ excerpt[i - 1] = "hd"
  <2>1. PICK m \in 1 .. n : m = from + i /\ text[m] = "tl"
    BY <1>1, <1>2, <1>5, <1>7
  <2>2. m > 1 /\ text[m - 1] = "hd"
    BY <1>3, <2>1
  <2>3. i # 1
    BY <1>1, <1>2, <2>1
  <2>4. i > 1 /\ i - 1 \in 1 .. (to - from) /\ from + (i - 1) = m - 1
    BY <1>1, <1>2, <2>1, <2>3
  <2> QED BY <1>5, <2>2, <2>4
<1> QED BY <1>4, <1>5, <1>6, <1>7 DEF valid_utf8

-----------------------------------------------------------------------------
(* Anchors                                                                 *)

\* The occurrences of a needle that begin in the line which ends at end.
InLine(text, needle, end) ==
  {i \in Found(text, needle) : LineStart(text, end) <= i /\ i < end}

LEMMA MiddleIs ==
  ASSUME NEW text, NEW needle, NEW end \in Ends(text)
  PROVE  Middle(text, needle)[end] =
           IF needle # << >> /\ InLine(text, needle, end) # {}
           THEN First(InLine(text, needle, end)) - 1 + (Len(needle) \div 2)
           ELSE LineStart(text, end) - 1 + ((end - LineStart(text, end)) \div 2)
BY DEF Middle, InLine

LEMMA FirstInLine ==
  ASSUME NEW text, IsSequence(text), NEW needle, NEW end \in Ends(text),
         InLine(text, needle, end) # {}
  PROVE  /\ First(InLine(text, needle, end)) \in InLine(text, needle, end)
         /\ InLine(text, needle, end) \subseteq 1 .. Len(text)
<1>1. InLine(text, needle, end) \subseteq 1 .. Len(text)
  BY TextIs DEF InLine, Found
<1>2. InLine(text, needle, end) \subseteq Nat
  BY <1>1
<1> QED BY <1>1, <1>2, FirstIs

LEMMA EndsAre ==
  ASSUME NEW text, IsSequence(text), NEW number,
         NEW ends, ends = {i \in Ends(text) : LineNumber(text, i) = number},
         ends # {}
  PROVE  First(ends) \in Ends(text) /\ LineNumber(text, First(ends)) = number
<1>1. ends \subseteq Nat
  <2>1. \A i \in Ends(text) : i \in 1 .. (Len(text) + 1)
    BY LineIs
  <2>2. Len(text) \in Nat
    BY TextIs
  <2> QED BY <2>1, <2>2
<1>2. First(ends) \in ends
  BY <1>1, FirstIs
<1> QED BY <1>2

LEMMA AnchorTyped ==
  ASSUME NEW text, IsSequence(text), NEW finding,
         finding.line # NoLine => Len(Needle(finding)) \in Nat
  PROVE  Anchor(text, finding) \in Nat
<1> DEFINE ends == {i \in Ends(text) : LineNumber(text, i) = finding.line}
           needle == Needle(finding)
<1>1. Len(text) \in Nat
  BY TextIs
<1>2. CASE finding.line = NoLine
  BY <1>2 DEF Anchor
<1>3. CASE finding.line # NoLine /\ ends = {}
  BY <1>1, <1>3 DEF Anchor
<1>4. CASE finding.line # NoLine /\ ends # {}
  <2>1. First(ends) \in Ends(text)
    BY <1>4, EndsAre
  <2>2. Anchor(text, finding) = Middle(text, needle)[First(ends)]
    BY <1>4 DEF Anchor
  <2>3. PICK end \in Ends(text) : end = First(ends)
    BY <2>1
  <2>4. Len(needle) \in Nat
    BY <1>4
  <2> HIDE DEF ends, needle
  <2>5. PICK start : start = LineStart(text, end) /\ start \in 1 .. end
    BY LineIs
  <2>6. end \in Nat
    BY <1>1, LineIs
  <2>7. CASE needle # << >> /\ InLine(text, needle, end) # {}
    <3>1. PICK first \in 1 .. Len(text) : first = First(InLine(text, needle, end))
      BY <2>7, FirstInLine
    <3>2. Middle(text, needle)[end] = first - 1 + (Len(needle) \div 2)
      BY <2>7, <3>1, MiddleIs
    <3>3. Len(needle) \div 2 \in Nat
      BY <2>4
    <3> QED BY <1>1, <2>2, <2>3, <3>1, <3>2, <3>3
  <2>8. CASE ~(needle # << >> /\ InLine(text, needle, end) # {})
    <3>1. Middle(text, needle)[end] = start - 1 + ((end - start) \div 2)
      BY <2>5, <2>8, MiddleIs
    <3>2. end - start \in Nat
      BY <2>5, <2>6
    <3>3. PICK half \in Nat : half = (end - start) \div 2
      BY <3>2
    <3>4. Anchor(text, finding) = start - 1 + half
      BY <2>2, <2>3, <3>1, <3>3
    <3>5. start - 1 \in Nat
      BY <2>5, <2>6
    <3>6. (start - 1) + half \in Nat
      BY <3>3, <3>5
    <3> QED BY <3>4, <3>6
  <2> QED BY <2>7, <2>8
<1> QED BY <1>2, <1>3, <1>4

\* A position with a byte of a line lies before the first end of that line, and
\* not before its start.
LEMMA EndOfLine ==
  ASSUME NEW text, IsSequence(text), NEW i \in DOMAIN text, text[i] # "nl",
         NEW end \in Ends(text),
         LineNumber(text, end) = NewlinesBefore(text, i) + 1
  PROVE  LineStart(text, end) <= i /\ i < end
<1>1. PICK n \in Nat : n = Len(text) /\ DOMAIN text = 1 .. n
  BY TextIs
<1>2. PICK start : start = LineStart(text, end)
  OBVIOUS
<1>3. /\ end \in 1 .. (n + 1) /\ start \in 1 .. end
      /\ start = 1 \/ text[start - 1] = "nl"
      /\ LineNumber(text, end) = NewlinesBefore(text, end) + 1
  BY <1>1, <1>2, LineIs
<1>4. i \in Nat /\ end \in Nat
  BY <1>1, <1>3
<1>5. /\ NewlinesBefore(text, i) \in Nat /\ NewlinesBefore(text, end) \in Nat
  BY NewlinesFinite
<1>6. NewlinesBefore(text, end) = NewlinesBefore(text, i)
  BY <1>3, <1>5
<1>7. ASSUME end <= i PROVE FALSE
  <2>1. end \in DOMAIN text /\ text[end] = "nl"
    BY <1>1, <1>3, <1>7 DEF Ends
  <2>2. end < i
    BY <1>1, <1>3, <1>7, <2>1
  <2>3. NewlinesBefore(text, end) < NewlinesBefore(text, i)
    BY <1>4, <2>1, <2>2, NewlineBetween
  <2> QED BY <1>5, <1>6, <2>3
<1>8. ASSUME i < start PROVE FALSE
  <2>1. /\ start - 1 \in DOMAIN text /\ text[start - 1] = "nl"
        /\ i <= start - 1 /\ start - 1 < end
    BY <1>1, <1>3, <1>8
  <2>2. NewlinesBefore(text, i) < NewlinesBefore(text, end)
    BY <1>4, <2>1, NewlineBetween
  <2> QED BY <1>5, <1>6, <2>2
<1> QED BY <1>1, <1>2, <1>3, <1>7, <1>8

LEMMA SomeEnd ==
  ASSUME NEW text, IsSequence(text), NEW i \in DOMAIN text
  PROVE  \E end \in Ends(text) :
           LineNumber(text, end) = NewlinesBefore(text, i) + 1
<1>1. PICK n \in Nat : n = Len(text) /\ DOMAIN text = 1 .. n
  BY TextIs
<1> DEFINE later == {e \in Ends(text) : i <= e}
<1>2. later \subseteq Nat /\ n + 1 \in later
  BY <1>1 DEF Ends
<1>3. PICK end \in later : \A e \in later : end <= e
  <2>1. First(later) \in later /\ \A e \in later : First(later) <= e
    BY <1>2, FirstIs
  <2> QED BY <2>1
<1>4. end \in Ends(text) /\ i <= end /\ end \in 1 .. (n + 1)
  BY <1>1, <1>3, LineIs
<1>5. \A j \in DOMAIN text : i <= j /\ j < end => text[j] # "nl"
  <2> SUFFICES ASSUME NEW j \in DOMAIN text, i <= j, j < end, text[j] = "nl"
               PROVE  FALSE
    OBVIOUS
  <2>1. j \in later
    BY DEF Ends
  <2> QED BY <1>1, <1>3, <1>4, <2>1
<1>6. Newlines(text, end) = Newlines(text, i)
  <2>1. ASSUME NEW j \in Newlines(text, end) PROVE j \in Newlines(text, i)
    BY <1>1, <1>4, <1>5, <2>1 DEF Newlines
  <2>2. ASSUME NEW j \in Newlines(text, i) PROVE j \in Newlines(text, end)
    BY <1>1, <1>4, <2>2 DEF Newlines
  <2> QED BY <2>1, <2>2
<1>7. NewlinesBefore(text, end) = NewlinesBefore(text, i)
  BY <1>6, NewlinesFinite
<1> QED BY <1>4, <1>7, LineIs

\* The anchor of a finding whose symbol occurs on its line is the middle of an
\* occurrence on that line.
LEMMA AnchorIs ==
  ASSUME NEW text, IsSequence(text), NEW finding, finding.line \in Nat,
         Needle(finding) = finding.symbol, finding.symbol # << >>,
         NEW i \in Found(text, finding.symbol), text[i] # "nl",
         NewlinesBefore(text, i) = finding.line - 1
  PROVE  \E k \in Found(text, finding.symbol) :
           /\ k \in 1 .. Len(text)
           /\ NewlinesBefore(text, k) = finding.line - 1
           /\ Anchor(text, finding) = k - 1 + (Len(finding.symbol) \div 2)
<1> DEFINE ends == {e \in Ends(text) : LineNumber(text, e) = finding.line}
           symbol == finding.symbol
<1>1. i \in DOMAIN text
  BY DEF Found
<1>2. NewlinesBefore(text, i) \in Nat
  BY NewlinesFinite
<1>3. finding.line = NewlinesBefore(text, i) + 1 /\ finding.line # NoLine
  BY <1>2 DEF NoLine
<1>4. ends # {}
  BY <1>1, <1>3, SomeEnd
<1>5. PICK end \in Ends(text) : end = First(ends) /\ LineNumber(text, end) = finding.line
  <2>1. First(ends) \in Ends(text) /\ LineNumber(text, First(ends)) = finding.line
    BY <1>4, EndsAre
  <2> HIDE DEF ends
  <2> QED BY <2>1
<1>6. LineStart(text, end) <= i /\ i < end
  BY <1>1, <1>3, <1>5, EndOfLine
<1>7. Anchor(text, finding) = Middle(text, symbol)[end]
  BY <1>3, <1>4, <1>5 DEF Anchor
<1> HIDE DEF ends
<1>8. i \in InLine(text, symbol, end)
  BY <1>6 DEF InLine
<1>9. PICK k \in InLine(text, symbol, end) :
        k = First(InLine(text, symbol, end)) /\ k \in 1 .. Len(text)
  BY <1>8, FirstInLine
<1>10. Middle(text, symbol)[end] = k - 1 + (Len(symbol) \div 2)
  BY <1>8, <1>9, MiddleIs
<1>11. NewlinesBefore(text, k) = finding.line - 1
  <2>1. PICK start : start = LineStart(text, end) /\ start \in 1 .. end
    BY LineIs
  <2>2. k \in start .. end
    <3>1. start <= k /\ k < end
      BY <1>9, <2>1 DEF InLine
    <3>2. Len(text) \in Nat /\ end \in 1 .. (Len(text) + 1)
      BY TextIs, LineIs
    <3> QED BY <1>9, <2>1, <3>1, <3>2
  <2>3. /\ NewlinesBefore(text, k) = NewlinesBefore(text, end)
        /\ LineNumber(text, end) = NewlinesBefore(text, end) + 1
    BY <2>1, <2>2, LineIs
  <2>4. NewlinesBefore(text, end) \in Nat
    BY NewlinesFinite
  <2> QED BY <1>5, <2>3, <2>4
<1>12. k \in Found(text, symbol)
  BY <1>9 DEF InLine
<1> QED BY <1>7, <1>9, <1>10, <1>11, <1>12

-----------------------------------------------------------------------------
(* What a window shows of a line                                           *)

\* Lines counted from the number printed beside the first one are the lines of
\* the text.
LEMMA CountedFromStart ==
  ASSUME NEW text, IsSequence(text), NEW from, NEW to, Cut(text, from, to),
         NEW k \in 1 .. (to - from)
  PROVE  StartLine(text, from) + NewlinesBefore(SubSeq(text, from + 1, to), k)
           = 1 + NewlinesBefore(text, from + k)
<1>1. PICK n \in Nat : n = Len(text) /\ DOMAIN text = 1 .. n
  BY TextIs
<1>2. from \in 0 .. n /\ to \in from .. n /\ k \in Nat /\ k <= to - from
  BY <1>1 DEF Cut
<1>3. PICK excerpt : excerpt = SubSeq(text, from + 1, to)
  OBVIOUS
<1>4. /\ DOMAIN excerpt = 1 .. (to - from)
      /\ \A j \in 1 .. (to - from) : excerpt[j] = text[from + j]
  <2> DEFINE whole == SubSeq(text, from + 1, to)
  <2>1. /\ DOMAIN whole = 1 .. (to - from)
        /\ \A j \in 1 .. (to - from) : whole[j] = text[from + j]
    BY CutIs
  <2> HIDE DEF whole
  <2>2. excerpt = whole
    BY <1>3 DEF whole
  <2> QED BY <2>1, <2>2
<1> DEFINE A == {j \in DOMAIN text : j <= from /\ text[j] = "nl"}
           B == {j \in DOMAIN text : from < j /\ j < from + k /\ text[j] = "nl"}
           C == Newlines(excerpt, k)
<1>5. IsFiniteSet(A) /\ IsFiniteSet(B) /\ IsFiniteSet(C)
  <2>1. IsFiniteSet(1 .. n) /\ IsFiniteSet(1 .. (to - from))
    BY <1>1, <1>2, FS_Interval
  <2>2. A \subseteq 1 .. n /\ B \subseteq 1 .. n /\ C \subseteq 1 .. (to - from)
    BY <1>1, <1>4 DEF Newlines
  <2> QED BY <2>1, <2>2, FS_Subset
<1>6. Newlines(text, from + k) = A \cup B /\ A \cap B = {}
  <2>1. ASSUME NEW j \in 1 .. n
        PROVE  (j < from + k) <=> (j <= from \/ (from < j /\ j < from + k))
    BY <1>1, <1>2
  <2>2. ASSUME NEW j \in 1 .. n PROVE ~(j <= from /\ from < j)
    BY <1>1, <1>2
  <2> QED BY <1>1, <2>1, <2>2 DEF Newlines
<1>7. Cardinality(B) = Cardinality(C)
  <2> DEFINE shift == [j \in C |-> from + j]
  <2>1. \A j \in C : j \in 1 .. (to - from) /\ j < k /\ text[from + j] = "nl"
    BY <1>4 DEF Newlines
  <2>2. \A j \in C : from + j \in B
    BY <1>1, <1>2, <2>1
  <2>3. \A b \in B : b - from \in C /\ from + (b - from) = b
    <3> SUFFICES ASSUME NEW b \in B
                 PROVE  b - from \in C /\ from + (b - from) = b
      OBVIOUS
    <3>1. PICK c \in 1 .. (to - from) : c = b - from /\ from + c = b /\ c < k
      BY <1>1, <1>2
    <3>2. excerpt[c] = "nl"
      BY <1>4, <3>1
    <3> QED BY <1>4, <3>1, <3>2 DEF Newlines
  <2>4. \A i, j \in C : from + i = from + j => i = j
    BY <1>1, <1>2, <2>1
  <2> HIDE DEF B, C
  <2>5. shift \in [C -> B]
    BY <2>2
  <2>6. \A i, j \in C : shift[i] = shift[j] => i = j
    BY <2>4
  <2>7. \A b \in B : \E j \in C : shift[j] = b
    BY <2>3
  <2> HIDE DEF shift
  <2>8. shift \in Bijection(C, B)
    BY <2>5, <2>6, <2>7 DEF Bijection, Injection, Surjection, IsInjective
  <2>9. ExistsBijection(C, B)
    BY <2>8 DEF ExistsBijection
  <2> QED BY <1>5, <2>9, FS_Bijection
<1>8. Cardinality(A \cup B) = Cardinality(A) + Cardinality(B)
  <2>1. Cardinality(A \cup B)
          = Cardinality(A) + Cardinality(B) - Cardinality(A \cap B)
    BY <1>5, FS_Union
  <2>2. Cardinality(A \cap B) = 0
    BY <1>6, FS_EmptySet
  <2>3. Cardinality(A) \in Nat /\ Cardinality(B) \in Nat
    BY <1>5, FS_CardinalityType
  <2> QED BY <2>1, <2>2, <2>3
<1>9. StartLine(text, from) = 1 + Cardinality(A)
  BY DEF StartLine
<1>10. NewlinesBefore(excerpt, k) = Cardinality(C)
  BY DEF NewlinesBefore, Newlines
<1>11. NewlinesBefore(text, from + k) = Cardinality(A \cup B)
  BY <1>6 DEF NewlinesBefore, Newlines
<1>12. Cardinality(A) \in Nat /\ Cardinality(B) \in Nat
  BY <1>5, FS_CardinalityType
<1> HIDE DEF A, B, C
<1> QED BY <1>3, <1>7, <1>8, <1>9, <1>10, <1>11, <1>12

\* An occurrence that lies in the window is found in what it shows.
LEMMA FoundInCut ==
  ASSUME NEW text, IsSequence(text), NEW from, NEW to, Cut(text, from, to),
         NEW symbol, IsSequence(symbol), Len(symbol) > 0,
         NEW i \in Found(text, symbol), from < i, i + Len(symbol) <= to + 1
  PROVE  i - from \in Found(SubSeq(text, from + 1, to), symbol)
<1>1. PICK n \in Nat : n = Len(text) /\ DOMAIN text = 1 .. n
  BY TextIs
<1>2. PICK l \in Nat : l = Len(symbol) /\ l > 0
  BY TextIs
<1>3. from \in 0 .. n /\ to \in from .. n
  BY <1>1 DEF Cut
<1>4. i \in 1 .. n /\ SubSeq(text, i, i + l - 1) = symbol
  BY <1>1, <1>2 DEF Found, At
<1>5. PICK excerpt : excerpt = SubSeq(text, from + 1, to)
  OBVIOUS
<1> DEFINE S == {text[j] : j \in DOMAIN text}
<1>6. \A j \in 1 .. n : text[j] \in S
  BY <1>1
<1>7. /\ Len(excerpt) = to - from /\ DOMAIN excerpt = 1 .. (to - from)
      /\ \A j \in 1 .. (to - from) : excerpt[j] = text[from + j]
  <2> DEFINE whole == SubSeq(text, from + 1, to)
  <2>1. /\ Len(whole) = to - from /\ DOMAIN whole = 1 .. (to - from)
        /\ \A j \in 1 .. (to - from) : whole[j] = text[from + j]
    BY CutIs
  <2> HIDE DEF whole
  <2>2. excerpt = whole
    BY <1>5 DEF whole
  <2> QED BY <2>1, <2>2
<1> HIDE DEF S
<1>8. PICK k \in 1 .. (to - from) : k = i - from /\ k + l <= (to - from) + 1
  BY <1>1, <1>2, <1>3, <1>4
<1>9. PICK part, other : /\ part = SubSeq(excerpt, k, k + l - 1)
                         /\ other = SubSeq(text, i, i + l - 1)
  OBVIOUS
<1>10. /\ \A j \in k .. (k + l - 1) : j \in 1 .. (to - from) /\ excerpt[j] \in S
       /\ \A j \in i .. (i + l - 1) : j \in 1 .. n /\ text[j] \in S
  <2>1. /\ from \in Nat /\ to \in Nat /\ to <= n
        /\ i \in Nat /\ k \in Nat
    BY <1>1, <1>3, <1>4, <1>8
  <2>2. ASSUME NEW j \in k .. (k + l - 1)
        PROVE  j \in 1 .. (to - from) /\ from + j \in 1 .. n
    BY <1>1, <1>2, <1>8, <2>1
  <2>3. ASSUME NEW j \in i .. (i + l - 1) PROVE j \in 1 .. n
    BY <1>1, <1>2, <1>4, <1>8, <2>1
  <2>4. \A j \in k .. (k + l - 1) : excerpt[j] \in S
    BY <1>6, <1>7, <2>2
  <2> QED BY <1>6, <2>2, <2>3, <2>4
<1>11. /\ k \in Int /\ k + l - 1 \in Int /\ (k + l - 1) - k + 1 = l
       /\ i \in Int /\ i + l - 1 \in Int /\ (i + l - 1) - i + 1 = l
       /\ k <= k + l - 1 /\ i <= i + l - 1
  BY <1>1, <1>2, <1>3, <1>4, <1>8
<1>12. /\ part \in Seq(S) /\ Len(part) = l
       /\ \A j \in 1 .. l : part[j] = excerpt[k + j - 1]
  BY <1>9, <1>10, <1>11, SubSeqProperties
<1>13. /\ other \in Seq(S) /\ Len(other) = l
       /\ \A j \in 1 .. l : other[j] = text[i + j - 1]
  BY <1>9, <1>10, <1>11, SubSeqProperties
<1>14. ASSUME NEW j \in 1 .. l PROVE part[j] = other[j]
  <2>1. /\ k + j - 1 \in 1 .. (to - from)
        /\ from + (k + j - 1) = i + j - 1
    BY <1>1, <1>2, <1>3, <1>4, <1>8
  <2> QED BY <1>7, <1>12, <1>13, <2>1
<1>15. part = other
  BY <1>12, <1>13, <1>14, SeqEqual
<1>16. k \in DOMAIN excerpt /\ k + Len(symbol) <= Len(excerpt) + 1
  BY <1>2, <1>7, <1>8
<1> QED BY <1>2, <1>4, <1>5, <1>8, <1>9, <1>15, <1>16 DEF Found, At

\* The window around the middle of an occurrence has room for it.
LEMMA AroundAnchor ==
  ASSUME NEW text, IsSequence(text), valid_utf8(text), NEW finding,
         NEW l \in Nat, l > 0, l + 2 <= SourceBytes,
         NEW k \in 1 .. Len(text), k + l <= Len(text) + 1,
         Anchor(text, finding) = k - 1 + (l \div 2)
  PROVE  LET window == Window(text, finding)
         IN window.from < k /\ k + l <= window.to + 1
<1>1. PICK n \in Nat : n = Len(text) /\ DOMAIN text = 1 .. n
  BY TextIs
<1>2. PICK size \in Nat : size = SourceBytes /\ size > 0
  BY LimitAssumption
<1>3. PICK half \in Nat : half = size \div 2 /\ 2 * half <= size /\ size <= 2 * half + 1
  BY <1>2
<1>4. PICK middle \in Nat : middle = l \div 2 /\ 2 * middle <= l /\ l <= 2 * middle + 1
  OBVIOUS
<1>5. l + 2 <= size /\ middle + 1 <= half
  BY <1>2, <1>3, <1>4
<1>6. PICK anchor \in Nat : anchor = Anchor(text, finding) /\ anchor = k - 1 + middle
  BY <1>1, <1>4
<1>7. CASE n <= size
  <2>1. Window(text, finding) = [from |-> 0, to |-> n]
    BY <1>1, <1>2, <1>7 DEF Window
  <2>2. Window(text, finding).from = 0 /\ Window(text, finding).to = n
    BY <2>1
  <2> QED BY <1>1, <2>2
<1>8. CASE ~(n <= size)
  <2>1. PICK anchored \in Nat :
          anchored = IF anchor > half THEN anchor - half ELSE 0
    <3>1. (IF anchor > half THEN anchor - half ELSE 0) \in Nat
      BY <1>3, <1>6
    <3> QED BY <3>1
  <2>2. PICK last \in Nat : last = n - size /\ last > 0
    <3>1. n - size \in Nat /\ n - size > 0
      BY <1>1, <1>2, <1>8
    <3> QED BY <3>1
  <2>3. PICK begin \in Nat : begin = IF anchored < last THEN anchored ELSE last
    BY <2>1, <2>2
  <2>4. Window(text, finding) = Trimmed(text)[begin]
    BY <1>1, <1>2, <1>3, <1>6, <1>8, <2>1, <2>2, <2>3 DEF Window
  <2>5. PICK inner : inner = IF Inside(text, begin) THEN begin + 1 ELSE begin
    OBVIOUS
  <2>6. PICK outer : outer = IF begin + size > inner /\ Inside(text, begin + size)
                             THEN begin + size - 1 ELSE begin + size
    OBVIOUS
  <2>7. Trimmed(text)[begin] = [from |-> inner, to |-> outer]
    <3>1. begin \in 0 .. Len(text)
      BY <1>1, <1>2, <2>1, <2>2, <2>3
    <3> QED BY <1>2, <2>5, <2>6, <3>1 DEF Trimmed
  <2>8. ~Inside(text, 0) /\ ~Inside(text, n)
    <3>1. ASSUME Inside(text, 0) PROVE FALSE
      <4>1. 1 \in DOMAIN text /\ text[1] = "tl"
        BY <1>1, <3>1 DEF Inside
      <4>2. \A j \in DOMAIN text : text[j] = "tl" => j > 1
        BY DEF valid_utf8
      <4>3. 1 > 1
        BY <4>1, <4>2
      <4> QED BY <4>3
    <3> QED BY <1>1, <3>1 DEF Inside
  <2>9. Window(text, finding).from = inner /\ Window(text, finding).to = outer
    BY <2>4, <2>7
  <2>10. inner \in begin .. (begin + 1) /\ begin + size - 1 <= outer
    BY <1>2, <2>3, <2>5, <2>6
  <2>11. CASE ~(anchor > half)
    <3>1. begin = 0 /\ inner = 0
      BY <2>1, <2>2, <2>3, <2>5, <2>8, <2>11
    <3>2. size - 1 <= outer
      BY <1>2, <2>10, <3>1
    <3>3. k + l <= (size - 1) + 1
      BY <1>3, <1>4, <1>5, <1>6, <2>11
    <3>4. outer \in Int
      BY <1>2, <2>6, <3>1
    <3> QED BY <1>1, <1>2, <2>9, <3>1, <3>2, <3>3, <3>4
  <2>12. CASE anchor > half /\ anchored < last
    <3>1. begin + half = k - 1 + middle
      BY <1>3, <1>6, <2>1, <2>3, <2>12
    <3>2. begin + 1 < k
      BY <1>1, <1>5, <3>1
    <3>3. k + l <= begin + size
      BY <1>1, <1>3, <1>4, <1>5, <3>1
    <3>4. outer \in Int
      BY <1>2, <2>6
    <3> QED BY <1>1, <1>2, <2>9, <2>10, <3>2, <3>3, <3>4
  <2>13. CASE anchor > half /\ ~(anchored < last)
    <3>1. begin = last /\ begin + size = n
      BY <1>1, <1>2, <2>2, <2>3, <2>13
    <3>2. outer = n
      BY <2>6, <2>8, <3>1
    <3>3. begin + 1 < k
      BY <1>1, <1>3, <1>5, <1>6, <2>1, <2>2, <2>13, <3>1
    <3> QED BY <1>1, <2>9, <2>10, <3>2, <3>3
  <2> QED BY <2>11, <2>12, <2>13
<1> QED BY <1>7, <1>8

\* What is shown of a text for a finding with a line.
LEMMA SymbolShown ==
  ASSUME NEW text, IsSequence(text), valid_utf8(text),
         NEW finding, finding.line \in Nat, IsSequence(finding.symbol),
         finding.symbol # << >>, Needle(finding) = finding.symbol,
         Len(finding.symbol) + 2 <= SourceBytes,
         NEW i \in Found(text, finding.symbol), text[i] # "nl",
         NewlinesBefore(text, i) = finding.line - 1
  PROVE  LET window == Window(text, finding)
             excerpt == SubSeq(text, window.from + 1, window.to)
         IN \E k \in Found(excerpt, finding.symbol) :
              StartLine(text, window.from) + NewlinesBefore(excerpt, k) = finding.line
<1>1. PICK symbol : symbol = finding.symbol
  OBVIOUS
<1>2. PICK l \in Nat : l = Len(symbol) /\ l > 0
  <2>1. symbol \in Seq({symbol[j] : j \in DOMAIN symbol}) /\ symbol # << >>
    BY <1>1 DEF IsSequence
  <2> QED BY <2>1, EmptySeq
<1>3. PICK k \in Found(text, symbol) :
        /\ k \in 1 .. Len(text)
        /\ NewlinesBefore(text, k) = finding.line - 1
        /\ Anchor(text, finding) = k - 1 + (l \div 2)
  BY <1>1, <1>2, AnchorIs
<1>4. Anchor(text, finding) \in Nat
  <2>1. Len(Needle(finding)) \in Nat
    BY <1>1, <1>2
  <2> QED BY <2>1, AnchorTyped
<1>5. PICK from, to : /\ from = Window(text, finding).from
                      /\ to = Window(text, finding).to
  OBVIOUS
<1>6. Cut(text, from, to)
  BY <1>4, <1>5, WindowIs
<1>7. k + l <= Len(text) + 1
  BY <1>2, <1>3 DEF Found
<1>8. from < k /\ k + l <= to + 1
  BY <1>1, <1>2, <1>3, <1>5, <1>7, AroundAnchor
<1>9. k - from \in Found(SubSeq(text, from + 1, to), symbol)
  BY <1>1, <1>2, <1>3, <1>6, <1>8, FoundInCut
<1>10. k - from \in 1 .. (to - from) /\ from + (k - from) = k
  BY <1>2, <1>3, <1>6, <1>8, TextIs DEF Cut
<1>11. StartLine(text, from) + NewlinesBefore(SubSeq(text, from + 1, to), k - from)
         = 1 + NewlinesBefore(text, k)
  BY <1>6, <1>10, CountedFromStart
<1>12. 1 + NewlinesBefore(text, k) = finding.line
  BY <1>3
<1> QED BY <1>1, <1>5, <1>9, <1>11, <1>12

-----------------------------------------------------------------------------
(* Findings and records that are selected                                  *)

LEMMA WithoutDotsIs ==
  ASSUME NEW text, IsSequence(text)
  PROVE  Len(WithoutDots(text)) \in Nat
<1>1. PICK n \in Nat : n = Len(text) /\ DOMAIN text = 1 .. n
  BY TextIs
<1> DEFINE S == {text[j] : j \in DOMAIN text}
<1>2. text \in Seq(S)
  BY TextIs
<1>3. \A j \in 1 .. n : text[j] \in S
  BY <1>1
<1> HIDE DEF S
<1>4. CASE text # << >> /\ Last(text) = "dots"
  <2>1. WithoutDots(text) = SubSeq(text, 1, n - 1)
    BY <1>1, <1>4 DEF WithoutDots
  <2>2. /\ 1 \in Int /\ n - 1 \in Int
        /\ \A j \in 1 .. (n - 1) : text[j] \in S
    BY <1>1, <1>3
  <2>3. SubSeq(text, 1, n - 1) \in Seq(S)
    BY <2>2, SubSeqProperties
  <2> QED BY <2>1, <2>3, LenProperties
<1>5. CASE ~(text # << >> /\ Last(text) = "dots")
  <2>1. WithoutDots(text) = text
    BY <1>5 DEF WithoutDots
  <2> QED BY <1>1, <2>1
<1> QED BY <1>4, <1>5

LEMMA FindingTyped ==
  ASSUME NEW run, Row(run), NEW f \in DOMAIN run.disposition
  PROVE  /\ f.line \in Nat
         /\ f.line # NoLine => IsSequence(f.symbol) /\ Len(Needle(f)) \in Nat
<1>1. CASE f.line = NoLine
  BY <1>1 DEF NoLine
<1>2. CASE f.line # NoLine
  <2>1. \E registry, a, document, result :
          Answered(registry, a, document, result) /\ f \in result.findings
    BY CompletedIs, WithFindings
  <2>2. PICK registry, a, document, result :
          Answered(registry, a, document, result) /\ f \in result.findings
    BY <2>1
  <2>3. PICK members : members = parse_ustar(Archives[a]).members
    OBVIOUS
  <2>4. PICK i \in Regulars(members) : \E end \in Ends(members[i].text) :
          /\ f.line = LineNumber(members[i].text, end)
          /\ f.evidence = bound_snippet(Line(members[i].text, end))
          /\ IsSequence(f.symbol)
    <3>1. \E i \in Regulars(members) : \E end \in Ends(members[i].text) :
            /\ f.line = LineNumber(members[i].text, end)
            /\ f.evidence = bound_snippet(Line(members[i].text, end))
            /\ IsSequence(f.symbol)
      BY <1>2, <2>2, <2>3, CitesLine
    <3> QED BY <3>1
  <2>5. PICK text : text = members[i].text
    OBVIOUS
  <2>6. PICK end \in Ends(text) :
          /\ f.line = LineNumber(text, end)
          /\ f.evidence = bound_snippet(Line(text, end))
          /\ IsSequence(f.symbol)
    BY <2>4, <2>5
  <2>7. IsSequence(text)
    <3>1. i \in DOMAIN members /\ a \in Artifacts /\ parse_ustar(Archives[a]).ok
      BY <2>2, <2>4, AnswerIs DEF Regulars, Answered
    <3> QED BY <2>3, <2>5, <3>1, MembersAre
  <2>8. f.line \in Nat
    <3>1. f.line = NewlinesBefore(text, end) + 1
      BY <2>6, <2>7, LineIs
    <3>2. NewlinesBefore(text, end) \in Nat
      BY <2>7, NewlinesFinite
    <3> QED BY <3>1, <3>2
  <2>9. CASE f.symbol = << >>
    <3>1. Needle(f) = WithoutDots(bound_snippet(Line(text, end)))
      BY <2>6, <2>9 DEF Needle
    <3>2. PICK S, line : line = Line(text, end) /\ line \in Seq(S)
      BY <2>7, LineOf
    <3>3. WithoutDots(bound_snippet(line)) \in Seq(S)
      BY <3>2, SnippetIs
    <3>4. Len(WithoutDots(bound_snippet(line))) \in Nat
      BY <3>3, LenProperties
    <3> QED BY <2>6, <2>8, <3>1, <3>2, <3>4
  <2>10. CASE f.symbol # << >>
    <3>1. Needle(f) = WithoutDots(f.symbol)
      BY <2>10 DEF Needle
    <3> QED BY <2>6, <2>8, <3>1, WithoutDotsIs
  <2> QED BY <2>9, <2>10
<1> QED BY <1>1, <1>2

\* The record of a run that a finding refers to.
RecordFor(run, f, record) ==
  LET records == {i \in DOMAIN run.files : run.files[i].path = f.path}
  IN records # {} /\ record = run.files[First(records)]

\* What a reader has of the catalog belongs to a finding of it.
Selected(rs, row) ==
  \E n \in DOMAIN rs : \E f \in DOMAIN rs[n].disposition :
    /\ row.id = << n, f >> /\ row.artifact = rs[n].artifact
    /\ RecordFor(rs[n], f, row.record)

\* What is shown was selected, and is of a member as it was recorded.
ShowsRow(rs, s) ==
  \E row : \E a \in Artifacts :
    /\ Selected(rs, row) /\ row.artifact = {a}
    /\ Displayable(row.record, Archives[a]) /\ s = Shown(row)

SourceInv ==
  /\ reader = [r \in Readers |-> reader[r]]
  /\ \A r \in Readers : \A row \in reader[r] : Selected(runs, row)
  /\ \A s \in shown : ShowsRow(runs, s)

\* The text of the member with that path.
CitedText(a, path) ==
  LET members == parse_ustar(Archives[a]).members
  IN members[CHOOSE i \in DOMAIN members : members[i].path = path].text

\* What s shows of text for the finding f is true.
ShowsTrue(s, f, text) ==
  LET excerpt == SubSeq(text, s.from + 1, s.to)
      cited(i) == /\ NewlinesBefore(text, i) = f.line - 1 /\ text[i] # "nl"
                  /\ i \in Found(text, f.symbol)
  IN /\ valid_utf8(excerpt) /\ Len(excerpt) <= SourceBytes
     /\ (f.symbol # << >> /\ Needle(f) = f.symbol
          /\ Len(f.symbol) + 2 <= SourceBytes /\ \E i \in DOMAIN text : cited(i))
          => \E k \in Found(excerpt, f.symbol) :
               s.line + NewlinesBefore(excerpt, k) = f.line

LEMMA ShownIsTrue ==
  ASSUME \A s \in shown :
           LET a == CHOOSE b \in runs[s.id[1]].artifact : TRUE
           IN ShowsTrue(s, s.id[2], CitedText(a, s.id[2].path))
  PROVE  ShownSourceIsTrue
BY DEF ShownSourceIsTrue, ShowsTrue, CitedText

\* The member a selected record was made from is the one that is read.
LEMMA MemberIs ==
  ASSUME NEW run, Row(run), NEW f \in DOMAIN run.disposition,
         NEW record, RecordFor(run, f, record),
         NEW a \in Artifacts, run.artifact = {a}, Displayable(record, Archives[a])
  PROVE  record.text = CitedText(a, f.path) /\ IsSequence(record.text)
<1>1. \E registry, document, result :
        /\ Answered(registry, a, document, result)
        /\ ~Duplicate(run.files) /\ run.files = result.files
  <2>1. \E registry, b, document, result :
          /\ Answered(registry, b, document, result) /\ run.artifact = {b}
          /\ ~Duplicate(run.files) /\ run.files = result.files
    BY CompletedIs, WithFindings
  <2> QED BY <2>1
<1>2. PICK registry, document, result :
        /\ Answered(registry, a, document, result)
        /\ ~Duplicate(run.files) /\ run.files = result.files
  BY <1>1
<1>3. PICK members : members = parse_ustar(Archives[a]).members
  OBVIOUS
<1>4. /\ parse_ustar(Archives[a]).ok
      /\ DOMAIN run.files = Regulars(members)
      /\ \A i \in Regulars(members) :
           run.files[i] = FileRecord(document, members[i])
  BY <1>2, <1>3, AnswerIs
<1>5. PICK i \in DOMAIN run.files : run.files[i].path = f.path
  BY DEF RecordFor
<1>6. /\ i \in DOMAIN members /\ IsSequence(members[i].text)
      /\ DOMAIN members \subseteq DOMAIN Archives[a]
  <2>1. i \in DOMAIN members
    BY <1>4, <1>5 DEF Regulars
  <2> QED BY <1>3, <1>4, <2>1, MembersAre
<1>7. DOMAIN Archives[a] = 1 .. Len(Archives[a]) /\ Len(Archives[a]) \in Nat
  <2>1. IsSequence(Archives[a])
    BY ArchiveAssumption
  <2> QED BY <2>1, TextIs
<1>8. record = run.files[i]
  <2>1. i \in Nat
    BY <1>6, <1>7
  <2>2. PICK files : files = run.files
    OBVIOUS
  <2>3. First({j \in DOMAIN files : files[j].path = files[i].path}) = i
    BY <1>2, <1>5, <2>1, <2>2, RecordIs
  <2> QED BY <1>5, <2>2, <2>3 DEF RecordFor
<1>9. record.text = members[i].text /\ record.path = members[i].path
  <2>1. /\ FileRecord(document, members[i]).text = members[i].text
        /\ FileRecord(document, members[i]).path = members[i].path
    BY DEF FileRecord
  <2>2. run.files[i] = FileRecord(document, members[i])
    BY <1>4, <1>5
  <2> QED BY <1>8, <2>1, <2>2
<1>10. record.path = f.path
  BY <1>5, <1>8
<1> DEFINE named == {j \in DOMAIN members : members[j].path = f.path}
<1>11. named = {i}
  <2>1. Cardinality(named) = 1
    BY <1>3, <1>10 DEF Displayable
  <2>2. IsFiniteSet(named)
    <3>1. IsFiniteSet(1 .. Len(Archives[a]))
      <4>1. PICK n \in Nat : n = Len(Archives[a])
        BY <1>7
      <4>2. IsFiniteSet(1 .. n)
        BY FS_Interval
      <4> QED BY <4>1, <4>2
    <3>2. named \subseteq 1 .. Len(Archives[a])
      BY <1>6, <1>7
    <3> QED BY <3>1, <3>2, FS_Subset
  <2>3. i \in named
    BY <1>6, <1>9, <1>10
  <2> HIDE DEF named
  <2>4. \E x : named = {x}
    BY <2>1, <2>2, FS_Singleton
  <2> QED BY <2>3, <2>4
<1>12. (CHOOSE j \in DOMAIN members : members[j].path = f.path) = i
  BY <1>11
<1>13. CitedText(a, f.path) = members[i].text
  BY <1>3, <1>12 DEF CitedText
<1> QED BY <1>6, <1>9, <1>13

LEMMA ShownOne ==
  ASSUME TypeInv, NEW s, ShowsRow(runs, s)
  PROVE  LET a == CHOOSE b \in runs[s.id[1]].artifact : TRUE
         IN ShowsTrue(s, s.id[2], CitedText(a, s.id[2].path))
<1>1. PICK row : \E a \in Artifacts :
        /\ Selected(runs, row) /\ row.artifact = {a}
        /\ Displayable(row.record, Archives[a]) /\ s = Shown(row)
  BY DEF ShowsRow
<1>2. PICK a \in Artifacts :
        /\ Selected(runs, row) /\ row.artifact = {a}
        /\ Displayable(row.record, Archives[a]) /\ s = Shown(row)
  BY <1>1
<1>3. PICK n \in DOMAIN runs : \E f \in DOMAIN runs[n].disposition :
        /\ row.id = << n, f >> /\ row.artifact = runs[n].artifact
        /\ RecordFor(runs[n], f, row.record)
  BY <1>2 DEF Selected
<1>4. PICK run : run = runs[n] /\ Row(run)
  BY DEF TypeInv, RowsTyped
<1>5. PICK f \in DOMAIN run.disposition :
        /\ row.id = << n, f >> /\ row.artifact = run.artifact
        /\ RecordFor(run, f, row.record)
  BY <1>3, <1>4
<1>6. PICK text : text = row.record.text
  OBVIOUS
<1>7. /\ IsSequence(text) /\ valid_utf8(text)
      /\ text = CitedText(a, f.path)
  <2>1. valid_utf8(text)
    BY <1>2, <1>6 DEF Displayable
  <2>2. PICK record : record = row.record
    OBVIOUS
  <2>3. run.artifact = {a} /\ Displayable(record, Archives[a]) /\ RecordFor(run, f, record)
    BY <1>2, <1>5, <2>2
  <2>4. record.text = CitedText(a, f.path) /\ IsSequence(record.text)
    BY <1>4, <2>3, MemberIs
  <2> QED BY <1>6, <2>1, <2>2, <2>4
<1>8. /\ f.line \in Nat
      /\ f.line # NoLine => IsSequence(f.symbol) /\ Len(Needle(f)) \in Nat
  BY <1>4, FindingTyped
<1>9. PICK from, to : from = Window(text, f).from /\ to = Window(text, f).to
  OBVIOUS
<1>10. /\ s.id[2] = f /\ s.from = from /\ s.to = to
       /\ s.line = StartLine(text, from) /\ s.id = << n, f >>
  <2>1. row.id = << n, f >> /\ row.id[2] = f
    BY <1>5
  <2>2. PICK window : window = Window(text, f)
    OBVIOUS
  <2>3. s = [id |-> << n, f >>, from |-> window.from, to |-> window.to,
             line |-> StartLine(text, window.from)]
    BY <1>2, <1>6, <2>1, <2>2 DEF Shown
  <2>4. window.from = from /\ window.to = to
    BY <1>9, <2>2
  <2> QED BY <2>3, <2>4
<1>11. Cut(text, from, to) /\ to - from <= SourceBytes
  <2>1. Anchor(text, f) \in Nat
    BY <1>7, <1>8, AnchorTyped
  <2> QED BY <1>7, <1>9, <2>1, WindowIs
<1>12. (CHOOSE b \in runs[s.id[1]].artifact : TRUE) = a
  <2>1. s.id[1] = n
    BY <1>10
  <2>2. runs[s.id[1]].artifact = {a}
    BY <1>2, <1>4, <1>5, <2>1
  <2> QED BY <2>2
<1>13. PICK excerpt : excerpt = SubSeq(text, from + 1, to)
  OBVIOUS
<1>14. valid_utf8(excerpt) /\ Len(excerpt) <= SourceBytes
  <2>1. Len(SubSeq(text, from + 1, to)) = to - from
    BY <1>7, <1>11, CutIs
  <2> QED BY <1>7, <1>11, <1>13, <2>1, CutIsValid
<1>15. ASSUME f.symbol # << >>, Needle(f) = f.symbol,
              Len(f.symbol) + 2 <= SourceBytes,
              NEW i \in DOMAIN text,
              NewlinesBefore(text, i) = f.line - 1, text[i] # "nl",
              i \in Found(text, f.symbol)
       PROVE  \E k \in Found(excerpt, f.symbol) :
                s.line + NewlinesBefore(excerpt, k) = f.line
  <2>1. f.line # NoLine
    <3>1. NewlinesBefore(text, i) \in Nat
      BY <1>7, NewlinesFinite
    <3> QED BY <1>8, <1>15, <3>1 DEF NoLine
  <2>2. IsSequence(f.symbol)
    BY <1>8, <2>1
  <2>3. LET window == Window(text, f)
            whole == SubSeq(text, window.from + 1, window.to)
        IN \E k \in Found(whole, f.symbol) :
             StartLine(text, window.from) + NewlinesBefore(whole, k) = f.line
    BY <1>7, <1>8, <1>15, <2>2, SymbolShown
  <2> QED BY <1>9, <1>10, <1>13, <2>3
<1>16. ShowsTrue(s, f, text)
  BY <1>10, <1>13, <1>14, <1>15 DEF ShowsTrue
<1> QED BY <1>7, <1>10, <1>12, <1>16

-----------------------------------------------------------------------------
(* What is selected stays                                                  *)

\* No run of the old ones loses anything a reader has of it.
Kept(rs, later) ==
  \A n \in DOMAIN rs :
    /\ n \in DOMAIN later
    /\ later[n].artifact = rs[n].artifact /\ later[n].files = rs[n].files
    /\ DOMAIN later[n].disposition = DOMAIN rs[n].disposition

LEMMA SelectedStays ==
  ASSUME NEW rs, NEW later, Kept(rs, later), NEW row, Selected(rs, row)
  PROVE  Selected(later, row)
<1>1. PICK n \in DOMAIN rs : \E f \in DOMAIN rs[n].disposition :
        /\ row.id = << n, f >> /\ row.artifact = rs[n].artifact
        /\ RecordFor(rs[n], f, row.record)
  BY DEF Selected
<1>2. /\ n \in DOMAIN later
      /\ later[n].artifact = rs[n].artifact /\ later[n].files = rs[n].files
      /\ DOMAIN later[n].disposition = DOMAIN rs[n].disposition
  BY DEF Kept
<1>3. \E f \in DOMAIN later[n].disposition :
        /\ row.id = << n, f >> /\ row.artifact = later[n].artifact
        /\ RecordFor(later[n], f, row.record)
  <2>1. \A f : RecordFor(rs[n], f, row.record) => RecordFor(later[n], f, row.record)
    BY <1>2 DEF RecordFor
  <2> QED BY <1>1, <1>2, <2>1
<1> QED BY <1>2, <1>3 DEF Selected

LEMMA ShownStays ==
  ASSUME NEW rs, NEW later, Kept(rs, later), NEW s, ShowsRow(rs, s)
  PROVE  ShowsRow(later, s)
BY SelectedStays DEF ShowsRow

LEMMA SourceStays ==
  ASSUME SourceInv, Kept(runs, runs'), UNCHANGED <<reader, shown>>
  PROVE  SourceInv'
BY SelectedStays, ShownStays DEF SourceInv

LEMMA ApartKept ==
  ASSUME TablesTyped, Apart PROVE Kept(runs, runs')
<1>1. CASE runs' = runs
  BY <1>1 DEF Kept
<1>2. CASE \E run : runs' = Append(runs, run)
  <2>1. PICK run : runs' = Append(runs, run)
    BY <1>2
  <2>2. PICK S : runs \in Seq(S)
    BY DEF TablesTyped
  <2>3. /\ Len(runs) \in Nat /\ DOMAIN runs = 1 .. Len(runs)
        /\ DOMAIN runs' = 1 .. (Len(runs) + 1)
        /\ \A n \in DOMAIN runs : runs'[n] = runs[n]
    BY <2>1, <2>2, Appending
  <2> QED BY <2>3 DEF Kept
<1> QED BY <1>1, <1>2 DEF Apart

LEMMA AnalyzerKeepsSource ==
  ASSUME NEW w \in Analyzers,
         \/ Begin(w) \/ HostStep(w) \/ ChildStep(w) \/ DeadlinePasses(w)
         \/ DownloadFails(w) \/ WriteFails(w) \/ Kill(w)
  PROVE  UNCHANGED <<reader, shown>>
<1>1. CASE Begin(w)
  BY <1>1 DEF Begin
<1>2. CASE HostStep(w)
  BY <1>2 DEF HostStep, Acquire, FetchMetadata, FetchArtifact, run_command,
     docker_worker, Truncate, write_file_bytes, Commit, people
<1>3. CASE ChildStep(w) \/ DeadlinePasses(w)
  BY <1>3 DEF ChildStep, ChildWrites, ChildCloses, ChildExits, DeadlinePasses, people
<1>4. CASE DownloadFails(w) \/ WriteFails(w) \/ Kill(w)
  BY <1>4 DEF DownloadFails, WriteFails, Kill, people
<1> QED BY <1>1, <1>2, <1>3, <1>4

LEMMA ReviewerKeepsSource ==
  ASSUME TypeInv, IInv, NEW v \in Reviewers,
         Look(v) \/ ReviewStep(v) \/ KillReview(v)
  PROVE  UNCHANGED <<reader, shown>> /\ Kept(runs, runs')
<1>1. UNCHANGED <<reader, shown>>
  BY DEF Look, ReviewStep, OpenCatalog, review_finding, AcknowledgeReview, KillReview
<1>2. CASE runs' = runs
  BY <1>1, <1>2 DEF Kept
<1>3. CASE runs' # runs
  <2>1. review_finding(v)
    BY <1>3 DEF Look, ReviewStep, OpenCatalog, AcknowledgeReview, KillReview
  <2>2. reviewer[v].id \in Findings
    BY <2>1, Critical DEF review_finding
  <2>3. PICK n \in DOMAIN runs :
          \E f \in DOMAIN runs[n].disposition : reviewer[v].id = << n, f >>
    BY <2>2, FindingIs
  <2>4. PICK f : reviewer[v].id = << n, f >>
    BY <2>3
  <2>5. runs' = [runs EXCEPT ![n].disposition[f] = reviewer[v].disposition]
    BY <1>3, <2>1, <2>4 DEF review_finding
  <2>6. /\ DOMAIN runs' = DOMAIN runs
        /\ \A m \in DOMAIN runs :
             /\ \A x \in RunMembers \ {"disposition"} : runs'[m][x] = runs[m][x]
             /\ DOMAIN runs'[m].disposition = DOMAIN runs[m].disposition
    BY <2>5, ReviewedRows
  <2>7. Kept(runs, runs')
    BY <2>6 DEF Kept, RunMembers
  <2> QED BY <1>1, <2>7
<1> QED BY <1>2, <1>3

LEMMA SelectKeepsSource ==
  ASSUME SourceInv, NEW r \in Readers, SelectFinding(r)
  PROVE  SourceInv'
<1>1. PICK id \in Findings :
        /\ Backed(id[1], id[2])
        /\ reader' = [reader EXCEPT ![r] =
             {[id |-> id, artifact |-> runs[id[1]].artifact,
               record |-> runs[id[1]].files[First(RecordOf(id[1], id[2]))]]}]
        /\ UNCHANGED <<runs, shown>>
  BY DEF SelectFinding
<1>2. PICK n \in DOMAIN runs : \E f \in DOMAIN runs[n].disposition : id = << n, f >>
  BY FindingIs
<1>3. PICK f \in DOMAIN runs[n].disposition : id = << n, f >>
  BY <1>2
<1>4. PICK row : row = [id |-> id, artifact |-> runs[n].artifact,
                        record |-> runs[n].files[First(RecordOf(n, f))]]
  OBVIOUS
<1>5. Selected(runs, row)
  <2>1. RecordOf(n, f) # {}
    BY <1>1, <1>3 DEF Backed
  <2>2. /\ row.id = << n, f >> /\ row.artifact = runs[n].artifact
        /\ row.record = runs[n].files[First(RecordOf(n, f))]
    BY <1>3, <1>4
  <2> QED BY <2>1, <2>2 DEF Selected, RecordOf, RecordFor
<1>6. reader' = [reader EXCEPT ![r] = {row}]
  BY <1>1, <1>3, <1>4
<1> QED BY <1>1, <1>5, <1>6 DEF SourceInv

LEMMA ReadKeepsSource ==
  ASSUME SourceInv, NEW r \in Readers, ReadArtifact(r)
  PROVE  SourceInv'
<1>1. PICK row \in reader[r] : \E a \in Artifacts :
        /\ row.artifact = {a}
        /\ shown' = IF /\ evidence[a]["artifact.tgz"] = Whole(a)
                       /\ Displayable(row.record, Archives[a])
                    THEN {Shown(row)} ELSE {}
  BY DEF ReadArtifact
<1>2. PICK a \in Artifacts :
        /\ row.artifact = {a}
        /\ shown' = IF /\ evidence[a]["artifact.tgz"] = Whole(a)
                       /\ Displayable(row.record, Archives[a])
                    THEN {Shown(row)} ELSE {}
  BY <1>1
<1>3. reader' = [reader EXCEPT ![r] = {}] /\ runs' = runs
  BY DEF ReadArtifact
<1>4. Selected(runs, row)
  BY DEF SourceInv
<1>5. ASSUME NEW s \in shown' PROVE ShowsRow(runs, s)
  <2>1. s = Shown(row) /\ Displayable(row.record, Archives[a])
    BY <1>2, <1>5
  <2> QED BY <1>2, <1>4, <2>1 DEF ShowsRow
<1> QED BY <1>3, <1>5 DEF SourceInv

LEMMA InitSourceInv == Init => SourceInv
BY DEF Init, SourceInv

LEMMA NextSourceInv ==
  IInv /\ TypeInv /\ SourceInv /\ [Next]_vars => SourceInv'
<1> SUFFICES ASSUME IInv, TypeInv, SourceInv, [Next]_vars PROVE SourceInv'
  OBVIOUS
<1>1. ASSUME NEW w \in Analyzers,
             \/ Begin(w) \/ HostStep(w) \/ ChildStep(w) \/ DeadlinePasses(w)
             \/ DownloadFails(w) \/ WriteFails(w) \/ Kill(w)
      PROVE  SourceInv'
  <2>1. Apart
    BY <1>1, AnalyzerIsApart
  <2>2. UNCHANGED <<reader, shown>>
    BY <1>1, AnalyzerKeepsSource
  <2> QED BY <2>1, <2>2, ApartKept, SourceStays DEF IInv
<1>2. ASSUME NEW r \in Readers, SelectFinding(r) \/ ReadArtifact(r)
      PROVE  SourceInv'
  BY <1>2, SelectKeepsSource, ReadKeepsSource
<1>3. ASSUME NEW v \in Reviewers, Look(v) \/ ReviewStep(v) \/ KillReview(v)
      PROVE  SourceInv'
  BY <1>3, ReviewerKeepsSource, SourceStays
<1>4. CASE UNCHANGED vars
  BY <1>4, SourceStays DEF vars, Kept
<1> QED BY <1>1, <1>2, <1>3, <1>4 DEF Next

\* Of every archive by every rules and for every finding, whatever is written or
\* torn in the evidence between a selection and its read: what finding-source
\* prints is no longer than the limit, begins and ends between characters, and
\* has the symbol on the line the finding cites, by the number printed beside
\* the first line (read_finding_source and the window it cuts).
THEOREM ShownSourceHolds == Spec => []ShownSourceIsTrue
<1>1. TypeInv /\ SourceInv => ShownSourceIsTrue
  <2> SUFFICES ASSUME TypeInv, SourceInv PROVE ShownSourceIsTrue
    OBVIOUS
  <2>1. \A s \in shown : ShowsRow(runs, s)
    BY DEF SourceInv
  <2> QED BY <2>1, ShownOne, ShownIsTrue
<1>2. IInv /\ TypeInv /\ SourceInv /\ [Next]_vars => (IInv /\ TypeInv /\ SourceInv)'
  BY NextIInv, NextTypeInv, NextSourceInv
<1>3. Init => IInv /\ TypeInv /\ SourceInv
  BY InitIInv, InitTypeInv, InitSourceInv
<1> QED BY <1>1, <1>2, <1>3, PTL DEF Spec

=============================================================================
