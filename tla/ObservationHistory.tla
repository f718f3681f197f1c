------------------------- MODULE ObservationHistory -------------------------
(***************************************************************************)
(* The observation store of the command line: ingest-observation reads a   *)
(* document with a strict reader, writes it without unknown members and    *)
(* without white space as one line of an append-only file, and the history *)
(* commands read the whole file back, choose the two most recent records   *)
(* of a target and compare their inventories.  Beside it, the manifest of  *)
(* targets, a line file read by the same kind of loop.                     *)
(*                                                                         *)
(* An object has the sequence of its member names and how deep the values  *)
(* of its unknown members nest; the values the readers look at are fields. *)
(* A text is a sequence of characters: a quote, a space, a newline, or any *)
(* other.  A line of the file is the sequence of the pieces its writers    *)
(* got to disk.                                                            *)
(***************************************************************************)
EXTENDS Naturals, Sequences, FiniteSets

CONSTANTS
    Documents,      \* the documents somebody may hand to ingest-observation
    ManifestLines,  \* the lines somebody may add to the target manifest
    Targets,        \* target_id values
    MaxIdentity,    \* max_identity_bytes
    MaxDepth,       \* max_nesting_depth of observations and inventories
    MaxSkipDepth,   \* max_skip_depth of the manifest
    MaxTools,       \* max_tools
    MaxRecords,     \* max_records of a history
    MaxTargets,     \* max_targets of a history
    MaxManifest,    \* max_records of a manifest
    MaxInputs,      \* search bound: ingests and manifest lines together
    MaxFailures     \* search bound

ASSUME LimitAssumption ==
    /\ {MaxIdentity, MaxDepth, MaxSkipDepth, MaxTools, MaxRecords,
        MaxTargets, MaxManifest} \subseteq Nat
    /\ {MaxInputs, MaxFailures} \subseteq Nat

\* What a syntax of JSON leaves of a document and of a line of the manifest.
Text == Seq(STRING)
Object == [members : Seq(STRING), nested : Nat]
Tool == [members : Seq(STRING), nested : Nat, name : Nat, definition : Text]
Inventory == [members : Seq(STRING), nested : Nat, version : Nat,
              server : Object, executable : STRING, lead : Text,
              tools : Seq(Tool)]
Document == [members : Seq(STRING), nested : Nat, version : Nat, at : Nat,
             target : Targets, identity : Nat, sensor : Object,
             inventory : Inventory]
ManifestLine == [members : Seq(STRING), nested : Nat, version : Nat,
                 identity : Nat, kind : STRING]

ASSUME InputAssumption ==
    Documents \subseteq Document /\ ManifestLines \subseteq ManifestLine

VARIABLES
    history,       \* the file: the pieces written to it, in order
    writer,        \* the running ingest-observation, or Idle
    acknowledged,  \* records whose command exited with 0 and closed its file
    failed,        \* how many commands were killed or met a full disk
    manifest       \* the lines of the target manifest

vars == <<history, writer, acknowledged, failed, manifest>>

Quote == "quote"
Space == "space"
Newline == "newline"
White == {Space, Newline}
Idle == [status |-> "idle"]

(***************************************************************************)
(* Reading a document.                                                     *)
(***************************************************************************)
ObservationMembers == {"observation_version", "observed_at", "target_id",
                       "source_type", "sensor", "configuration_profile",
                       "inventory"}
SensorMembers == {"name", "version"}
InventoryMembers == {"inventory_version", "server", "tools"}
RecordMembers == {"schema_version", "target_id", "source_type", "kind"}

Count(members, k) == Cardinality({i \in DOMAIN members : members[i] = k})

\* A member that is known comes exactly once; the others are skipped.
Strict(o, known) == \A k \in known : Count(o.members, k) = 1

\* What is skipped, at this depth, holds values nested this deep.  The two
\* readers count alike, the one of the observation from further outside.
skip_value(depth, nested) == depth + nested <= MaxDepth
skip_inventory_value(depth, nested) == depth + nested <= MaxDepth

identity(length) == length \in 1..MaxIdentity

\* A timestamp is its rank; one that has not the fixed shape is 0.
valid_utc_timestamp(at) == at > 0

sensor(o) == Strict(o, SensorMembers) /\ skip_value(1, o.nested)

server(o) ==
    Strict(o, {"downstream_executable"}) /\ skip_inventory_value(1, o.nested)

tool(t) == Strict(t, {"name"}) /\ skip_inventory_value(2, t.nested)

parse_tools(tools) ==
    Len(tools) <= MaxTools /\ \A n \in DOMAIN tools : tool(tools[n])

\* Mutant: the order of the tools is not looked at.
SortedAnyhow(tools) == TRUE

SortedByName(tools) ==
    \A m, n \in DOMAIN tools : m < n => tools[m].name < tools[n].name

read_inventory(i) ==
    /\ Strict(i, InventoryMembers) /\ skip_inventory_value(0, i.nested)
    /\ i.version = 1
    /\ server(i.server)
    /\ parse_tools(i.tools)
    /\ SortedByName(i.tools)

\* The observation's reader first skips the inventory as one value.
SkipsInventory(i) ==
    /\ skip_value(1, i.nested)
    /\ skip_value(2, i.server.nested)
    /\ \A n \in DOMAIN i.tools : skip_value(3, i.tools[n].nested)

read_observation(d) ==
    /\ Strict(d, ObservationMembers) /\ skip_value(0, d.nested)
    /\ d.version = 1
    /\ valid_utc_timestamp(d.at)
    /\ identity(d.identity)
    /\ sensor(d.sensor)
    /\ SkipsInventory(d.inventory)
    /\ read_inventory(d.inventory)

(***************************************************************************)
(* Writing it.  compact_json drops the white space outside strings; it     *)
(* takes every quote for the start or the end of one.  The readers skip an *)
(* unknown scalar up to the next delimiter, whatever it holds: in the text *)
(* before the first tool ("lead") a quote may stand alone.                 *)
(***************************************************************************)
Scan(s, c) ==
    IF c = Quote THEN [out |-> Append(s.out, c), in |-> ~s.in]
    ELSE IF c \in White /\ ~s.in THEN s
    ELSE [out |-> Append(s.out, c), in |-> s.in]

\* What is left of the first characters of a text.
Scanning(text, inString) ==
    LET scanned[n \in 0 .. Len(text)] ==
          IF n = 0 THEN [out |-> <<>>, in |-> inString]
          ELSE Scan(scanned[n - 1], text[n])
    IN  scanned

Scanned(text, inString) == Scanning(text, inString)[Len(text)]

Lead(i) == Scanned(i.lead, FALSE)
Open(text, inString) == Scanned(text, inString).in

\* Whether the scan is in a string after the first tools.
Carried(i) ==
    LET carried[n \in 0 .. Len(i.tools)] ==
          IF n = 0 THEN Lead(i).in
          ELSE Open(i.tools[n].definition, carried[n - 1])
    IN  carried

CompactTool(t, inString) == [t EXCEPT !.definition = Scanned(@, inString).out]

compact_json(i) ==
    [i EXCEPT
       !.lead = Lead(i).out,
       !.tools = [n \in DOMAIN @ |-> CompactTool(@[n], Carried(i)[n - 1])]]

\* The members in the order in which they are written.
WrittenMembers == <<"observation_version", "observed_at", "target_id",
                    "source_type", "sensor", "configuration_profile", "inventory">>
WrittenSensor == [members |-> <<"name", "version">>, nested |-> 0]

\* Mutant: the inventory is written as it came.
NormalizedLoosely(d) ==
    [d EXCEPT !.members = WrittenMembers, !.nested = 0, !.sensor = WrittenSensor]

Normalized(d) ==
    [d EXCEPT !.members = WrittenMembers, !.nested = 0, !.sensor = WrittenSensor,
              !.inventory = compact_json(@)]

Accepted == {d \in Documents : read_observation(d)}
Written == [d \in Accepted |-> Normalized(d)]
Rereadable == {d \in Accepted : read_observation(Written[d])}

Texts(i) == {i.lead} \cup {i.tools[n].definition : n \in DOMAIN i.tools}
HoldsNewline(i) ==
    \E text \in Texts(i) : \E n \in DOMAIN text : text[n] = Newline

\* What append_observation_jsonl sends to its stream for an accepted document:
\* its text, in two lines when a newline was left in it, its closing brace and
\* the newline that ends it.
EndOfLine == [part |-> "newline"]
Piece(part, d) == [part |-> part, of |-> d]
Pieces(d) ==
    IF HoldsNewline(Written[d].inventory)
    THEN <<Piece("begin", d), EndOfLine, Piece("rest", d), Piece("brace", d), EndOfLine>>
    ELSE <<Piece("text", d), Piece("brace", d), EndOfLine>>

(***************************************************************************)
(* Reading the file back.                                                  *)
(***************************************************************************)
Split(s, p) ==
    IF p = EndOfLine THEN [done |-> Append(s.done, s.line), line |-> <<>>]
    ELSE [done |-> s.done, line |-> Append(s.line, p)]

Splitting(file) ==
    LET split[n \in 0 .. Len(file)] ==
          IF n = 0 THEN [done |-> <<>>, line |-> <<>>]
          ELSE Split(split[n - 1], file[n])
    IN  split

\* std::getline: the last line needs no newline, unless it is empty.
Lines(file) ==
    LET s == Splitting(file)[Len(file)]
    IN  IF s.line = <<>> THEN s.done ELSE Append(s.done, s.line)

Readable(line) ==
    /\ Len(line) = 2
    /\ line[1].part = "text" /\ line[2].part = "brace"
    /\ line[1].of = line[2].of
    /\ line[1].of \in Rereadable

Missing == [at |-> 0]
NoHistory == [latest |-> Missing, previous |-> Missing]

\* Mutant: of two records with one time the first is kept.
UpdateStrictly(h, o) ==
    IF h.latest = Missing \/ o.at > h.latest.at
    THEN [latest |-> o, previous |-> h.latest]
    ELSE IF h.previous = Missing \/ o.at > h.previous.at
    THEN [h EXCEPT !.previous = o]
    ELSE h

update_target_history(h, o) ==
    IF h.latest = Missing \/ o.at >= h.latest.at
    THEN [latest |-> o, previous |-> h.latest]
    ELSE IF h.previous = Missing \/ o.at >= h.previous.at
    THEN [h EXCEPT !.previous = o]
    ELSE h

\* Mutant: a malformed line is passed over.
PassOver(r) == [r EXCEPT !.line = @ + 1]

Refuse(r) == [r EXCEPT !.error = r.line + 1, !.line = @ + 1]

\* A record is counted, and kept if it is one of the two most recent.
Accept(r, o, target) ==
    [r EXCEPT !.line = @ + 1, !.records = @ + 1,
              !.earliest = IF @ = 0 \/ o.at < @ THEN o.at ELSE @,
              !.newest = IF o.at > @ THEN o.at ELSE @,
              !.targets = @ \cup {o.target},
              !.history = IF o.target = target
                          THEN update_target_history(@, o) ELSE @]

ReadLine(r, line, target) ==
    IF r.error # 0 THEN r
    ELSE IF line = <<>> THEN [r EXCEPT !.line = @ + 1]
    ELSE IF r.records >= MaxRecords \/ ~Readable(line) THEN Refuse(r)
    ELSE LET next == Accept(r, Written[line[1].of], target)
         IN  IF Cardinality(next.targets) > MaxTargets THEN Refuse(r) ELSE next

ReadingStart ==
    [line |-> 0, error |-> 0, records |-> 0, earliest |-> 0, newest |-> 0,
     targets |-> {}, history |-> NoHistory]

Reading(lines, target) ==
    LET read[n \in 0 .. Len(lines)] ==
          IF n = 0 THEN ReadingStart
          ELSE ReadLine(read[n - 1], lines[n], target)
    IN  read

analyze_history(file, target) ==
    LET lines == Lines(file) IN Reading(lines, target)[Len(lines)]

\* The merge of the two sorted lists of tools.
Merge(s, before, after) ==
    LET more == s.old <= Len(before)
        others == s.new <= Len(after)
        old == before[s.old]
        new == after[s.new]
    IN  CASE ~more /\ ~others -> s
          [] more /\ (others => old.name < new.name) ->
               [s EXCEPT !.removed = @ \cup {old.name}, !.old = @ + 1]
          [] others /\ (more => new.name < old.name) ->
               [s EXCEPT !.added = @ \cup {new.name}, !.new = @ + 1]
          [] OTHER ->
               [s EXCEPT !.modified = IF old.definition # new.definition
                                      THEN @ \cup {old.name} ELSE @,
                         !.old = @ + 1, !.new = @ + 1]

MergingStart ==
    [old |-> 1, new |-> 1, added |-> {}, removed |-> {}, modified |-> {}]

Merging(before, after) ==
    LET merged[n \in 0 .. Len(before) + Len(after)] ==
          IF n = 0 THEN MergingStart
          ELSE Merge(merged[n - 1], before, after)
    IN  merged

compare_inventories(before, after) ==
    LET s == Merging(before.tools, after.tools)[Len(before.tools) + Len(after.tools)]
    IN  [executable |-> before.executable # after.executable,
         added |-> s.added, removed |-> s.removed, modified |-> s.modified]

diff_latest(file, target) ==
    LET h == analyze_history(file, target).history
    IN  compare_inventories(h.previous.inventory, h.latest.inventory)

(***************************************************************************)
(* The target manifest.                                                    *)
(***************************************************************************)
skip_unknown_value(nested) == nested <= MaxSkipDepth

record(l) ==
    /\ Strict(l, RecordMembers) /\ skip_unknown_value(l.nested)
    /\ l.version = 1
    /\ l.identity > 0
    /\ l.kind \in {"local_package", "remote_endpoint"}

\* Mutant: what is no local package is not counted at all.
CountLocal(r, l) ==
    [r EXCEPT !.line = @ + 1, !.records = @ + 1,
              !.local = IF l.kind = "local_package" THEN @ + 1 ELSE @]

CountRecord(r, l) ==
    [r EXCEPT !.line = @ + 1, !.records = @ + 1,
              !.local = IF l.kind = "local_package" THEN @ + 1 ELSE @,
              !.remote = IF l.kind = "local_package" THEN @ ELSE @ + 1]

ReadTarget(r, l) ==
    IF r.error # 0 THEN r
    ELSE IF l.members = <<>> THEN [r EXCEPT !.line = @ + 1]
    ELSE IF r.records >= MaxManifest \/ ~record(l)
    THEN [r EXCEPT !.line = @ + 1, !.error = r.line + 1]
    ELSE CountRecord(r, l)

ManifestStart == [line |-> 0, error |-> 0, records |-> 0, local |-> 0, remote |-> 0]

ReadingTargets(lines) ==
    LET read[n \in 0 .. Len(lines)] ==
          IF n = 0 THEN ManifestStart
          ELSE ReadTarget(read[n - 1], lines[n])
    IN  read

read_target_manifest(lines) == ReadingTargets(lines)[Len(lines)]

(***************************************************************************)
(* ingest-observation, one process after another.                          *)
(***************************************************************************)
Init ==
    /\ history = <<>>
    /\ writer = Idle
    /\ acknowledged = <<>>
    /\ failed = 0
    /\ manifest = <<>>

\* The ingests that have begun and the lines of the manifest.
Inputs ==
    Len(acknowledged) + failed + Len(manifest) + (IF writer = Idle THEN 0 ELSE 1)

\* A document that is not valid is refused and leaves no trace.
Ingest(d) ==
    /\ writer = Idle
    /\ Inputs < MaxInputs
    /\ d \in Accepted
    /\ writer' = [status |-> "open", document |-> d, buffer |-> Pieces(d)]
    /\ UNCHANGED <<history, acknowledged, failed, manifest>>

Flush(n) == history' = history \o SubSeq(writer.buffer, 1, n)

\* Mutant: what was written stays in the buffer, what was not leaves it.
AppendWrongEnd ==
    /\ writer.status = "open"
    /\ \E n \in {0, Len(writer.buffer) - 2} :
          /\ Flush(n)
          /\ writer' = [writer EXCEPT !.status = "closing",
                                      !.buffer = SubSeq(@, 1, Len(@) - n)]
    /\ UNCHANGED <<acknowledged, failed, manifest>>

\* append_observation_jsonl: a record longer than the stream's buffer goes to
\* the file at once, all but its last two characters; a short one stays.
AppendRecord ==
    /\ writer.status = "open"
    /\ \E n \in {0, Len(writer.buffer) - 2} :
          /\ Flush(n)
          /\ writer' = [writer EXCEPT !.status = "closing",
                                      !.buffer = SubSeq(@, n + 1, Len(@))]
    /\ UNCHANGED <<acknowledged, failed, manifest>>

\* The disk is full: the stream is bad, the command exits with 2.
AppendFails ==
    /\ writer.status = "open" /\ failed < MaxFailures
    /\ \E n \in 0..(Len(writer.buffer) - 2) : Flush(n)
    /\ writer' = Idle
    /\ failed' = failed + 1
    /\ UNCHANGED <<acknowledged, manifest>>

\* The destructor of the stream writes what is left; the exit status is 0.
Close ==
    /\ writer.status = "closing"
    /\ Flush(Len(writer.buffer))
    /\ acknowledged' = Append(acknowledged, writer.document)
    /\ writer' = Idle
    /\ UNCHANGED <<failed, manifest>>

\* The same with a full disk: nothing looks at the result, the exit status is 0.
CloseFails ==
    /\ writer.status = "closing" /\ failed < MaxFailures
    /\ \E n \in 0..(Len(writer.buffer) - 1) : Flush(n)
    /\ writer' = Idle
    /\ failed' = failed + 1
    /\ UNCHANGED <<acknowledged, manifest>>

Kill ==
    /\ writer # Idle /\ failed < MaxFailures
    /\ writer' = Idle
    /\ failed' = failed + 1
    /\ UNCHANGED <<history, acknowledged, manifest>>

\* Somebody adds a line to the manifest.
AddTarget(l) ==
    /\ Inputs < MaxInputs
    /\ manifest' = Append(manifest, l)
    /\ UNCHANGED <<history, writer, acknowledged, failed>>

Next ==
    \/ \E d \in Documents : Ingest(d)
    \/ AppendRecord \/ AppendFails \/ Close \/ CloseFails \/ Kill
    \/ \E l \in ManifestLines : AddTarget(l)

Spec == Init /\ [][Next]_vars

(***************************************************************************)
(* Properties.                                                             *)
(***************************************************************************)
\* Character i of a text is in a string: an odd number of quotes precedes it.
Quoted(text, i) ==
    Cardinality({j \in DOMAIN text : j < i /\ text[j] = Quote}) % 2 = 1

\* Every string is closed, and no newline stands in one.  The readers accept
\* documents without either, see Scan; and a newline after a backslash.
WellFormed(d) ==
    \A text \in Texts(d.inventory) :
        /\ ~Quoted(text, Len(text) + 1)
        /\ \A i \in DOMAIN text : text[i] = Newline => ~Quoted(text, i)

\* Every variable has its type: a command is between two of its steps, the file
\* holds pieces of normalized records, and only valid documents get that far.
TypeOK ==
    /\ \A i \in DOMAIN history :
          history[i] = EndOfLine \/ history[i].of \in Accepted
    /\ writer = Idle \/
          /\ writer.status \in {"open", "closing"}
          /\ writer.document \in Accepted
          /\ \E n \in 0 .. Len(Pieces(writer.document)) :
                writer.buffer = SubSeq(Pieces(writer.document), n + 1,
                                       Len(Pieces(writer.document)))
    /\ acknowledged \in Seq(Accepted)
    /\ failed \in 0..MaxFailures
    /\ manifest \in Seq(ManifestLines)

\* The records of the file when every line of it is one.
Records(file) == 
    LET lines == Lines(file) IN [i \in DOMAIN lines |-> Written[lines[i][1].of]]

Answers(file) == analyze_history(file, CHOOSE t \in Targets : TRUE).error = 0

Newer(rs, i, j) == rs[i].at > rs[j].at \/ (rs[i].at = rs[j].at /\ i > j)
Newest(rs, I) ==
    IF I = {} THEN Missing
    ELSE rs[CHOOSE i \in I : \A j \in I \ {i} : Newer(rs, i, j)]

\* A history that is read is read whole and right (history.cpp analyze_history,
\* README.md "selects the two most recent observations for one target even when
\* history records are not stored chronologically"): it is refused unless every
\* line is one whole record and the limits hold, and otherwise the counts, the
\* span and the two records chosen are those of the set of records, the later
\* line winning a tie.
HistoryIsExact ==
    LET lines == Lines(history)
        rs == Records(history)
        whole == \A i \in DOMAIN lines : Readable(lines[i])
        targets == {rs[i].target : i \in DOMAIN rs}
        I(t) == {i \in DOMAIN rs : rs[i].target = t}
        first(t) == CHOOSE i \in I(t) : \A j \in I(t) \ {i} : Newer(rs, i, j)
    IN  \A t \in Targets : LET r == analyze_history(history, t) IN
          /\ r.error = 0 <=> /\ whole
                             /\ Len(lines) <= MaxRecords
                             /\ Cardinality(targets) <= MaxTargets
          /\ r.error = 0 =>
                /\ r.records = Len(lines) /\ r.targets = targets
                /\ \A i \in DOMAIN rs : rs[i].at \in r.earliest..r.newest
                /\ rs # <<>> => {r.earliest, r.newest} \subseteq {rs[i].at : i \in DOMAIN rs}
                /\ r.history =
                     [latest |-> Newest(rs, I(t)),
                      previous |-> IF I(t) = {} THEN Missing
                                   ELSE Newest(rs, I(t) \ {first(t)})]

\* A history that is read holds, in their order, all the records that reached
\* the end of their command, whatever was killed or cut short in between: what
\* is torn makes the file unreadable and is never skipped together with the
\* good record that was appended to it (README.md "A malformed line invalidates
\* the history instead of being skipped silently").
ReadableHoldsAcknowledged ==
    Answers(history) =>
        LET rs == Records(history) IN
        \E place \in [DOMAIN acknowledged -> DOMAIN rs] :
            /\ \A i \in DOMAIN acknowledged :
                  rs[place[i]] = Written[acknowledged[i]]
            /\ \A i, j \in DOMAIN acknowledged : i < j => place[i] < place[j]

\* As long as no command was killed or met a full disk, what well-formed
\* documents left is a history that can be read, up to its limits.
Kept == {acknowledged[i] : i \in DOMAIN acknowledged}
IntactIsReadable ==
    (/\ failed = 0 /\ writer = Idle
     /\ Len(acknowledged) <= MaxRecords
     /\ Cardinality({d.target : d \in Kept}) <= MaxTargets
     /\ \A d \in Kept : WellFormed(d)) => Answers(history)

\* What is more than layout in a text, and how much of it precedes.
Meant(text) ==
    {i \in DOMAIN text : text[i] \in White => Quoted(text, i)}
Rank(text, i) == Cardinality({j \in Meant(text) : j < i})
SameMeaning(t, u) ==
    /\ Cardinality(Meant(t)) = Cardinality(Meant(u))
    /\ \A i \in Meant(t) : \A j \in Meant(u) :
          Rank(t, i) = Rank(u, j) => t[i] = u[j]

\* The drift "history diff-latest" reports is the difference of what the two
\* documents said, by name and whatever white space they were ingested with: a
\* tool is modified when its definition differs outside of its layout.
Names(i) == {i.tools[n].name : n \in DOMAIN i.tools}
Definition(i, name) ==
    i.tools[CHOOSE n \in DOMAIN i.tools : i.tools[n].name = name].definition
DriftIsReal ==
    \A t \in Targets :
        LET r == analyze_history(history, t)
            drift == diff_latest(history, t)
            Source(o) == {d \in Accepted : Written[d] = o /\ WellFormed(d)}
        IN  r.error = 0 =>
              \A p \in Source(r.history.previous) : \A q \in Source(r.history.latest) :
                LET a == p.inventory
                    b == q.inventory
                IN  /\ drift.executable <=> a.executable # b.executable
                    /\ drift.added = Names(b) \ Names(a)
                    /\ drift.removed = Names(a) \ Names(b)
                    /\ drift.modified =
                          {n \in Names(a) \cap Names(b) :
                              ~SameMeaning(Definition(a, n), Definition(b, n))}

\* A manifest is refused at its first line that is no record or one too many,
\* counted with the empty lines, and otherwise its counts are those of its
\* lines (target_manifest.cpp read_target_manifest).
ManifestIsExact ==
    LET r == read_target_manifest(manifest)
        filled == {i \in DOMAIN manifest : manifest[i].members # <<>>}
        bad == {i \in filled : \/ ~record(manifest[i])
                               \/ Cardinality({j \in filled : j < i}) >= MaxManifest}
        of(k) == Cardinality({i \in filled : manifest[i].kind = k})
    IN  IF bad = {}
        THEN /\ r.error = 0 /\ r.records = Cardinality(filled)
             /\ r.local = of("local_package") /\ r.remote = of("remote_endpoint")
        ELSE r.error \in bad /\ \A i \in bad : r.error <= i

=============================================================================
