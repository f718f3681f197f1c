---------------------------- MODULE PackageArchive ----------------------------
(***************************************************************************)
(* What the analyzer makes of one package archive (src/src/analyze.cpp):   *)
(* the rules document, the tar members, the manifest, the file records,    *)
(* the findings, the JSON the worker answers with, and the window of a     *)
(* source file that is shown for a finding.                                *)
(*                                                                         *)
(* A path is the sequence of its segments.  A text is a sequence of bytes: *)
(* "nl" ends a line, "hd" and "tl" are the two bytes of one character,     *)
(* "nul" is the zero byte, and "dots" stands for the three dots a cut      *)
(* snippet ends in.  A JSON or PKG-INFO document is a record.  A digest is *)
(* what it is the digest of.                                               *)
(***************************************************************************)
EXTENDS Naturals, Sequences, FiniteSets

CONSTANTS
  FileType,       \* file type of a last path segment, by its extension
  MaxFiles,       \* --maximum-files
  MaxFile,        \* --maximum-individual-file-bytes
  MaxTotal,       \* --maximum-total-uncompressed-bytes
  Snippet,        \* maximum_evidence_snippet_bytes
  SourceBytes     \* maximum_source_bytes

ASSUME LimitAssumption ==
  /\ MaxFiles \in Nat /\ MaxFile \in Nat /\ MaxTotal \in Nat
  /\ Snippet \in Nat \ {0} /\ SourceBytes \in Nat \ {0}

\* What a reader that fails returns.
Bad == [ok |-> FALSE]

First(ids) == CHOOSE i \in ids : \A j \in ids : i <= j
Last(seq) == seq[Len(seq)]

-----------------------------------------------------------------------------
(* Texts                                                                   *)

valid_utf8(text) ==
  \A i \in DOMAIN text :
    /\ text[i] = "hd" => i < Len(text) /\ text[i + 1] = "tl"
    /\ text[i] = "tl" => i > 1 /\ text[i - 1] = "hd"

bound_snippet(text) ==
  IF Len(text) <= Snippet THEN text
  ELSE Append(SubSeq(text, 1, Snippet), "dots")

\* token occurs in text with its first byte at i.
At(text, token, i) == SubSeq(text, i, i + Len(token) - 1) = token
Found(text, token) ==
  {i \in DOMAIN text : i + Len(token) <= Len(text) + 1 /\ At(text, token, i)}

\* The positions of the line ends, the end of the text among them, and the
\* line that ends at one of them: what lies between two.
Ends(text) == {i \in DOMAIN text : text[i] = "nl"} \cup {Len(text) + 1}
Before(text, end) == {i \in Ends(text) : i < end}
LineNumberFromZero(text, end) == Cardinality(Before(text, end))
LineNumber(text, end) == Cardinality(Before(text, end)) + 1
LineStart(text, end) ==
  IF Before(text, end) = {} THEN 1
  ELSE 1 + (CHOOSE i \in Before(text, end) : \A j \in Before(text, end) : j <= i)
Line(text, end) == SubSeq(text, LineStart(text, end), end - 1)

-----------------------------------------------------------------------------
(* The rules document                                                      *)

Severities == {"info", "low", "medium", "high", "critical"}

AllDifferent(seq) == Cardinality({seq[i] : i \in DOMAIN seq}) = Len(seq)
OneByOne(seq) == seq # << >> /\ AllDifferent(seq)

Severe(seq) == \A i \in DOMAIN seq : seq[i].severity \in Severities

\* Risk rules, file type rules and the package rule share one space of
\* identities; a file type belongs to one rule.
load_analysis_rules(document) ==
  LET symbols == [i \in DOMAIN document.builtins |-> document.builtins[i].symbol]
      scripts == [i \in DOMAIN document.lifecycles |-> document.lifecycles[i].id]
      ids == << document.metadata >>
               \o [i \in DOMAIN document.risks |-> document.risks[i].id]
               \o [i \in DOMAIN document.types |-> document.types[i].id]
  IN IF /\ document.schema = "1" /\ document.version # ""
        /\ OneByOne(symbols)
        /\ document.risks # << >> /\ document.types # << >>
        /\ AllDifferent(ids)
        /\ OneByOne(scripts)
        /\ \A i, j \in DOMAIN document.types :
             /\ document.types[i].types # {}
             /\ i # j =>
                  document.types[i].types \cap document.types[j].types = {}
        /\ Severe(document.builtins) /\ Severe(document.risks)
        /\ Severe(document.lifecycles) /\ Severe(document.types)
     THEN [ok |-> TRUE, rules |-> document] ELSE Bad

-----------------------------------------------------------------------------
(* The archive                                                             *)

HasDotDot(path) == ".." \in {path[i] : i \in DOMAIN path}

Regular(member) == member.kind = "file"

\* What of the members before i counts against the limit on the whole.
Unpacked(members, i) ==
  LET sum[j \in DOMAIN members] ==
        IF j = 1 THEN 0
        ELSE sum[j - 1]
               + (IF Regular(members[j - 1]) THEN members[j - 1].size ELSE 0)
  IN sum[i]

Refused(members, i) ==
  \/ i > MaxFiles
  \/ members[i].rooted \/ members[i].path = << >> \/ HasDotDot(members[i].path)
  \/ members[i].size > MaxFile
  \/ Unpacked(members, i) + members[i].size > MaxTotal
  \/ members[i].kind = "device"
  \/ members[i].cut

\* Headers up to the first empty one; a member that is no file has no data.
parse_ustar(headers) ==
  LET stop == {i \in DOMAIN headers : headers[i].kind = "end"}
      members == IF stop = {} THEN headers
                 ELSE SubSeq(headers, 1, First(stop) - 1)
  IN IF \E i \in DOMAIN members : Refused(members, i) THEN Bad
     ELSE [ok |-> TRUE, members |-> members]

IsLink(member) == member.kind = "link"

link_escapes_root(member) ==
  member.target = << >> \/ member.targetRooted \/ HasDotDot(member.target)

\* The first member of a path with this name: npm takes any depth, PyPI the
\* root directory of the archive only.
Manifests(registry, members) ==
  {i \in DOMAIN members :
     LET path == members[i].path
     IN /\ Regular(members[i])
        /\ \/ registry = "npm" /\ Len(path) >= 2 /\ Last(path) = "package.json"
           \/ registry = "pypi" /\ Len(path) = 2 /\ Last(path) = "PKG-INFO"}

\* A PKG-INFO needs both names. Dependencies are <<group, name>>; a group of a
\* package.json must be an object.
ManifestOf(registry, members) ==
  LET ids == Manifests(registry, members)
      member == members[First(ids)]
  IN IF \/ registry \notin {"npm", "pypi"} \/ ids = {}
        \/ ~member.document.ok
        \/ registry = "pypi"
             /\ (member.document.name = "" \/ member.document.version = << >>)
     THEN Bad
     ELSE [ok |-> TRUE, path |-> member.path, document |-> member.document]

-----------------------------------------------------------------------------
(* File records and findings                                               *)

\* By the extension of code; a magic number comes before the other extensions.
PlainTypes == {"json", "markdown", "text", "other"}

classify_file_type(member) ==
  LET named == FileType[Last(member.path)]
  IN IF named \in PlainTypes /\ member.text # << >> /\ member.text[1] = "elf"
     THEN "elf" ELSE named

TypeRule(rules, type) ==
  {i \in DOMAIN rules.types : type \in rules.types[i].types}

FileRecord(rules, member) ==
  [path |-> member.path, text |-> member.text, size |-> member.size,
   type |-> classify_file_type(member),
   native |-> \E i \in TypeRule(rules, classify_file_type(member)) :
                rules.types[i].native]

NoLine == 0
Finding(id, path, line, symbol, cited) ==
  [rule |-> id, path |-> path, line |-> line, symbol |-> symbol,
   evidence |-> cited]

\* One finding for each rule and line in which one of its tokens occurs; a token
\* stands for what a detector looks for.
scan_javascript_text(rules, member) ==
  LET matches(rule, end) ==
        \E token \in rule.tokens : Found(Line(member.text, end), token) # {}
      suppressed(rule, end) ==
        rule.suppress /\ Found(Line(member.text, end), rules.marker) # {}
      all == rules.builtins \o rules.risks
      cited(rule) == {end \in Ends(member.text) :
                        matches(rule, end) /\ ~suppressed(rule, end)}
  IN UNION {{Finding(rule.id, member.path, LineNumber(member.text, end),
                     rule.symbol, Line(member.text, end)) : end \in cited(rule)} :
              rule \in {all[i] : i \in DOMAIN all}}

Scanned == {"javascript", "typescript", "typescript_declaration"}

FindingsOf(rules, member) ==
  {Finding(rules.types[i].id, member.path, NoLine, << >>,
           << classify_file_type(member) >>) :
     i \in TypeRule(rules, classify_file_type(member))}
  \cup (IF classify_file_type(member) \in Scanned
        THEN scan_javascript_text(rules, member) ELSE {})

\* The finding about the package itself names the path the rules give for npm,
\* whatever the root directory of the archive is called.
PackageFindings(registry, rules, manifest) ==
  {Finding(rules.metadata,
           IF registry = "npm" THEN rules.subject ELSE manifest.path,
           NoLine, << >>, Append(manifest.document.name, "@"))}
  \cup {Finding(rules.lifecycles[i].id, rules.subject, NoLine,
                << rules.lifecycles[i].id >>, << "command" >>) :
          i \in {j \in DOMAIN rules.lifecycles :
                   registry = "npm"
                     /\ rules.lifecycles[j].id \in manifest.document.scripts}}

\* Of what a finding cites, no more than a snippet is kept.
Bounded(findings) ==
  {[finding EXCEPT !.evidence = bound_snippet(@)] : finding \in findings}

Regulars(members) == {i \in DOMAIN members : Regular(members[i])}

\* The staged rules are loaded again in the worker. The records keep the places
\* of their members.
analyze_package_tarball_bytes(registry, headers, rules) ==
  LET tar == parse_ustar(headers)
      manifest == ManifestOf(registry, tar.members)
      regulars == Regulars(tar.members)
  IN IF \/ ~load_analysis_rules(rules).ok
        \/ ~tar.ok
        \/ \E i \in DOMAIN tar.members :
             IsLink(tar.members[i]) /\ link_escapes_root(tar.members[i])
        \/ ~manifest.ok
        \/ ~manifest.document.groups
     THEN Bad
     ELSE [ok |-> TRUE, ruleset |-> rules.version,
           name |-> manifest.document.name,
           version |-> manifest.document.version,
           dependencies |-> manifest.document.dependencies,
           files |-> [i \in regulars |-> FileRecord(rules, tar.members[i])],
           findings |-> Bounded(
             PackageFindings(registry, rules, manifest)
               \cup UNION {FindingsOf(rules, tar.members[i]) :
                             i \in regulars})]

\* The host parses the worker's line as JSON, which must be UTF-8 as a whole;
\* the worker copies the bytes of snippets and paths into it as they are.
parse_analyzer_worker_json(answer) ==
  IF /\ answer.ok
     /\ \A finding \in answer.findings :
          /\ valid_utf8(finding.evidence)
          /\ Len(finding.evidence) <= Snippet + 16
  THEN answer ELSE Bad

-----------------------------------------------------------------------------
(* The window of a source file around a finding                            *)

\* The bytes that are looked for: the symbol, or else the snippet, less its dots.
WithoutDots(text) ==
  IF text # << >> /\ Last(text) = "dots" THEN SubSeq(text, 1, Len(text) - 1)
  ELSE text
Needle(finding) ==
  WithoutDots(IF finding.symbol = << >> THEN finding.evidence ELSE finding.symbol)

\* Offsets count bytes before a position, as in the code. The middle of the
\* first needle in the line that ends there, or of the line.
Middle(text, needle) ==
  [end \in Ends(text) |->
     LET found == {i \in Found(text, needle) :
                     LineStart(text, end) <= i /\ i < end}
     IN IF needle # << >> /\ found # {}
        THEN First(found) - 1 + (Len(needle) \div 2)
        ELSE LineStart(text, end) - 1 + ((end - LineStart(text, end)) \div 2)]

Anchor(text, finding) ==
  LET ends == {i \in Ends(text) : LineNumber(text, i) = finding.line}
  IN IF finding.line = NoLine THEN 0
     ELSE IF ends = {} THEN Len(text)
     ELSE Middle(text, Needle(finding))[First(ends)]

\* First and one past last offset of what is shown, around the anchor but within
\* the text; a window neither begins nor ends inside a character.
Inside(text, i) == i < Len(text) /\ text[i + 1] = "tl"
TrimmedAtEnd(text) ==
  [from \in 0 .. Len(text) |->
     LET to == from + SourceBytes
     IN [from |-> from, to |-> IF Inside(text, to) THEN to - 1 ELSE to]]
Trimmed(text) ==
  [from \in 0 .. Len(text) |->
     LET inner == IF Inside(text, from) THEN from + 1 ELSE from
         to == from + SourceBytes
     IN [from |-> inner,
         to |-> IF to > inner /\ Inside(text, to) THEN to - 1 ELSE to]]

Window(text, finding) ==
  LET half == SourceBytes \div 2
      last == Len(text) - SourceBytes
      anchored == IF Anchor(text, finding) > half
                  THEN Anchor(text, finding) - half ELSE 0
  IN IF Len(text) <= SourceBytes THEN [from |-> 0, to |-> Len(text)]
     ELSE Trimmed(text)[IF anchored < last THEN anchored ELSE last]

\* The line number that is printed beside the first line shown.
StartLine(text, from) ==
  1 + Cardinality({i \in DOMAIN text : i <= from /\ text[i] = "nl"})

=============================================================================
