--------------------------- MODULE PackageAnalysis ---------------------------
(***************************************************************************)
(* The analysis of one package (analyze_package in src/src/analyze.cpp)    *)
(* with the child process it runs, the evidence directory it writes and    *)
(* the catalog rows it commits, beside the two commands that use a         *)
(* finding: read_finding_source, which reads the catalog and the evidence  *)
(* without a lock, and review_finding, which changes the disposition.      *)
(*                                                                         *)
(* Analyzers and reviewers hold the catalog's writer lock from the opening *)
(* of the catalog to their exit.  Evidence lives outside of the catalog in *)
(* a directory named for the artifact alone; each file is truncated and    *)
(* written in place.                                                       *)
(***************************************************************************)
EXTENDS PackageArchive, PackageMetadata

CONSTANTS
  Declarations,   \* server, version and package identifier that are asked for
  Rows,           \* the package rows of each
  Documents,      \* what the package registry may answer for each
  Archives,       \* the headers in each artifact
  Size,           \* the size of each artifact
  Origin,         \* of the PyPI registry that is configured
  Rules,          \* rules documents an operator may name
  Analyzers, Readers, Reviewers,
  Dispositions,   \* review dispositions
  Reviewed,       \* bound: rules whose findings are reviewed
  MaxOutput,      \* maximum_analyzer_output_bytes, in reads
  MaxStarts,      \* bound on analyses
  MaxCommands,    \* bound on analyses, reviews and reads of a source
  MaxFaults       \* bound on kills, failed downloads, failed writes

ASSUME BoundAssumption ==
  {MaxOutput, MaxStarts, MaxCommands, MaxFaults} \subseteq Nat

Artifacts == DOMAIN Archives

IsSequence(seq) == seq \in Seq({seq[i] : i \in DOMAIN seq})

\* An archive is a sequence of headers, and each text one of bytes.
ASSUME ArchiveAssumption ==
  \A a \in Artifacts :
    /\ IsSequence(Archives[a])
    /\ \A i \in DOMAIN Archives[a] : IsSequence(Archives[a][i].text)

\* A rules document lists its rules, and gives a sequence of bytes for each.
ASSUME RulesAssumption ==
  \A document \in Rules : \A rules \in {document.builtins, document.risks} :
    /\ IsSequence(rules)
    /\ \A i \in DOMAIN rules : IsSequence(rules[i].symbol)

Free == "nobody"

ASSUME ActorsAssumption ==
  /\ Analyzers \cap Reviewers = {}
  /\ Free \notin Analyzers \cup Reviewers

\* A file of the evidence directory.
Absent == [kind |-> "absent"]
Torn == [kind |-> "torn"]
Whole(content) == [kind |-> "whole", of |-> content]

\* In the order they are written. The last stands for the seven files that
\* are made from the worker's answer.
EvidenceNames == << "artifact.tgz", "analysis-rules.json",
                    "registry-metadata.json", "findings.jsonl" >>
Names == {EvidenceNames[i] : i \in DOMAIN EvidenceNames}
NoEvidence == [name \in Names |-> Absent]

VARIABLES
  schema,      \* schema_info.schema_version
  runs,        \* analysis_runs with the tables that hang on them
  reviews,     \* analysis_finding_reviews
  lock,        \* who holds <database>.writer.lock
  evidence,    \* the directory of each artifact
  analyzer, child, reader, reviewer,
  shown,       \* what finding-source printed last
  acknowledged,  \* reviews that were reported as completed, with what was seen
  starts, commands, faults

people == <<reader, shown, reviewer, acknowledged, reviews, commands>>
vars == <<schema, runs, reviews, lock, evidence, analyzer, child, reader,
          reviewer, shown, acknowledged, starts, commands, faults>>

Idle == [pc |-> "idle"]
NoChild == [state |-> "none", unread |-> 0, read |-> 0, late |-> FALSE]

Init ==
  /\ schema \in {1, 2, 3}
  /\ runs = << >> /\ reviews = << >>
  /\ lock = Free
  /\ evidence = [a \in Artifacts |-> NoEvidence]
  /\ analyzer = [w \in Analyzers |-> Idle]
  /\ child = [w \in Analyzers |-> NoChild]
  /\ reader = [r \in Readers |-> {}]
  /\ reviewer = [v \in Reviewers |-> Idle]
  /\ shown = {} /\ acknowledged = {}
  /\ starts = 0 /\ commands = 0 /\ faults = 0

Fault == faults < MaxFaults /\ faults' = faults + 1
Command == commands < MaxCommands /\ commands' = commands + 1

-----------------------------------------------------------------------------
(* analyze_package                                                         *)

\* The exit of a process gives up the lock.
Leave(w) ==
  /\ analyzer' = [analyzer EXCEPT ![w] = Idle]
  /\ child' = [child EXCEPT ![w] = NoChild]
  /\ lock' = IF lock = w THEN Free ELSE lock

FailedRun(w, stage, artifact, message) ==
  [package |-> analyzer[w].package, status |-> "failed",
   ruleset |-> analyzer[w].rules.version, artifact |-> artifact,
   stage |-> stage, message |-> message,
   files |-> << >>, disposition |-> << >>, evidence |-> << >>]

insert_failed_run(w, stage, artifact, message) ==
  /\ runs' = Append(runs, FailedRun(w, stage, artifact, message))
  /\ Leave(w)

\* The package is resolved and the rules are loaded before the lock.
Begin(w) ==
  /\ analyzer[w] = Idle /\ starts < MaxStarts /\ Command
  /\ starts' = starts + 1
  /\ \E d \in Declarations, document \in Rules, force \in BOOLEAN :
       LET resolved == resolve_exact_package(Rows[d])
           loaded == load_analysis_rules(document)
       IN IF resolved.ok /\ loaded.ok
          THEN analyzer' = [analyzer EXCEPT ![w] =
                 [pc |-> "lock", declaration |-> d, force |-> force,
                  package |-> resolved.package, rules |-> loaded.rules]]
          ELSE UNCHANGED analyzer
  /\ UNCHANGED <<schema, runs, lock, evidence, child, faults, reader,
                 shown, reviewer, acknowledged, reviews>>

Acquire(w) ==
  /\ analyzer[w].pc = "lock" /\ lock = Free
  /\ lock' = w /\ schema' = 3
  /\ analyzer' = [analyzer EXCEPT ![w].pc = "metadata"]
  /\ UNCHANGED <<runs, evidence, child, starts, faults, people>>

\* Under a name PyPI cannot have there is nothing to ask for.
Nameable(package) ==
  package.registry = "pypi" => normalize_pypi_project_name(package.name).ok

\* A name that cannot be asked for, or an artifact on another origin than an
\* insecure registry, ends the analysis without a row.
FetchMetadata(w) ==
  /\ analyzer[w].pc = "metadata"
  /\ IF ~Nameable(analyzer[w].package) THEN Leave(w) /\ UNCHANGED runs
     ELSE \E document \in Documents[analyzer[w].declaration] :
       LET package == analyzer[w].package
           release == ReleaseMetadata(package.registry, document, package.name,
                                      package.version)
       IN IF ~release.ok THEN insert_failed_run(w, "parse_metadata", {}, "")
          ELSE IF ForeignLoopback(package.registry, release, Origin)
            THEN Leave(w) /\ UNCHANGED runs
          ELSE /\ analyzer' = [analyzer EXCEPT ![w] =
                    [pc |-> "artifact", document |-> document,
                     release |-> release, force |-> @.force,
                     package |-> @.package, rules |-> @.rules]]
               /\ UNCHANGED <<runs, lock, child>>
  /\ UNCHANGED <<schema, evidence, starts, faults, people>>

DownloadFails(w) ==
  /\ Fault
  /\ \/ /\ analyzer[w].pc = "metadata" /\ Nameable(analyzer[w].package)
        /\ insert_failed_run(w, "download_metadata", {}, "")
     \/ /\ analyzer[w].pc = "artifact"
        /\ insert_failed_run(w, "download_tarball", {}, "")
  /\ UNCHANGED <<schema, evidence, starts, people>>

\* The look for a run to reuse comes before the integrity is verified, and asks
\* for no package.
Reusable(w, artifact) ==
  {n \in DOMAIN runs : /\ runs[n].status = "completed"
                       /\ runs[n].artifact = {artifact}
                       /\ runs[n].ruleset = analyzer[w].rules.version}

FetchArtifact(w) ==
  /\ analyzer[w].pc = "artifact"
  /\ LET state == analyzer[w]
         artifact == state.release.url.artifact
     IN IF ~state.force /\ Reusable(w, artifact) # {}
        THEN Leave(w) /\ UNCHANGED runs
        ELSE IF ~Verified(state.package.registry, artifact, Size[artifact],
                          state.release.integrity)
          THEN insert_failed_run(w, "integrity", {artifact}, "")
        ELSE /\ analyzer' = [analyzer EXCEPT ![w] =
                  [pc |-> "await", artifact |-> artifact,
                   document |-> @.document, package |-> @.package,
                   rules |-> @.rules]]
             /\ child' = [child EXCEPT ![w].state = "running"]
             /\ UNCHANGED <<runs, lock>>
  /\ UNCHANGED <<schema, evidence, starts, faults, people>>

-----------------------------------------------------------------------------
(* The worker in its container, and run_command                            *)

Working(w) == analyzer[w].pc = "await" /\ child[w].state = "running"

ChildWrites(w) ==
  /\ Working(w) /\ child[w].unread + child[w].read <= MaxOutput
  /\ child' = [child EXCEPT ![w].unread = @ + 1]
  /\ UNCHANGED <<schema, runs, lock, evidence, analyzer, starts, faults, people>>

ChildCloses(w) ==
  /\ Working(w) /\ Fault
  /\ child' = [child EXCEPT ![w].state = "closed"]
  /\ UNCHANGED <<schema, runs, lock, evidence, analyzer, starts, people>>

\* The worker prints its answer before it exits; the container may fail for
\* reasons of its own.
ChildExits(w) ==
  /\ Working(w)
  /\ \/ /\ child[w].unread + child[w].read > 0
        /\ child' = [child EXCEPT ![w].state = "exited"]
        /\ UNCHANGED faults
     \/ /\ Fault
        /\ child' = [child EXCEPT ![w].state = "broken"]
  /\ UNCHANGED <<schema, runs, lock, evidence, analyzer, starts, people>>

DeadlinePasses(w) ==
  /\ analyzer[w].pc = "await" /\ ~child[w].late
  /\ child' = [child EXCEPT ![w].late = TRUE]
  /\ UNCHANGED <<schema, runs, lock, evidence, analyzer, starts, faults, people>>

\* What the loop finds after the read that blocked.
Exited(w) == child[w].state \in {"exited", "broken"}
TooMuchBefore(w) == child[w].read > MaxOutput
TooMuch(w) == child[w].read + child[w].unread > MaxOutput
GivesUpOnOutput(w) == TooMuch(w)
GivesUp(w) == TooMuch(w) \/ (~Exited(w) /\ child[w].late)

\* One turn of the loop. The read blocks while the child lives, holds its end
\* of the pipe and writes nothing, past the deadline too.
run_command(w) ==
  /\ analyzer[w].pc = "await"
  /\ child[w].unread > 0 \/ child[w].state # "running"
  /\ IF GivesUp(w)
     THEN insert_failed_run(w, "analyze_container", {analyzer[w].artifact},
                            "child")
     ELSE /\ child' = [child EXCEPT ![w].read = @ + child[w].unread,
                                    ![w].unread = 0]
          /\ analyzer' = IF Exited(w)
                         THEN [analyzer EXCEPT ![w].pc = "answer"] ELSE analyzer
          /\ UNCHANGED <<runs, lock>>
  /\ UNCHANGED <<schema, evidence, starts, faults, people>>

\* What the worker makes of each archive, by the rules that were staged for it.
Answers ==
  {[registry |-> registry, artifact |-> a, rules |-> document,
    result |-> analyze_package_tarball_bytes(registry, Archives[a], document)] :
     registry \in {"npm", "pypi"}, a \in Artifacts, document \in Rules}

Worked(w) ==
  {answer.result : answer \in {x \in Answers :
                                 /\ x.registry = analyzer[w].package.registry
                                 /\ x.artifact = analyzer[w].artifact
                                 /\ x.rules = analyzer[w].rules}}

\* The answer of a worker that succeeded must parse; rules or an identity other
\* than the expected end the analysis without a row.
docker_worker(w) ==
  /\ analyzer[w].pc = "answer"
  /\ \E result \in Worked(w) :
     \E answer \in {parse_analyzer_worker_json(result)} :
       IF child[w].state = "broken" \/ ~result.ok
       THEN insert_failed_run(w, "analyze_container", {analyzer[w].artifact},
                              "child")
       ELSE IF ~answer.ok
         THEN insert_failed_run(w, "analyze_container",
                                {analyzer[w].artifact}, "answer")
       ELSE IF \/ answer.ruleset # analyzer[w].rules.version
               \/ ~SameIdentity(analyzer[w].package, answer.name,
                                answer.version)
         THEN Leave(w) /\ UNCHANGED runs
       ELSE /\ analyzer' = [analyzer EXCEPT ![w] =
                 [pc |-> "truncate", next |-> 1, answer |-> answer,
                  artifact |-> @.artifact, document |-> @.document,
                  package |-> @.package, rules |-> @.rules]]
            /\ child' = [child EXCEPT ![w] = NoChild]
            /\ UNCHANGED <<runs, lock>>
  /\ UNCHANGED <<schema, evidence, starts, faults, people>>

-----------------------------------------------------------------------------
(* Evidence and commit                                                     *)

ContentOf(w, name) ==
  CASE name = "artifact.tgz"           -> analyzer[w].artifact
    [] name = "analysis-rules.json"    -> analyzer[w].rules.version
    [] name = "registry-metadata.json" -> analyzer[w].document
    [] name = "findings.jsonl"         -> analyzer[w].answer.findings

Current(w) == EvidenceNames[analyzer[w].next]

Written(w) ==
  analyzer' = IF analyzer[w].next = Len(EvidenceNames)
              THEN [analyzer EXCEPT ![w].pc = "commit"]
              ELSE [analyzer EXCEPT ![w].pc = "truncate", ![w].next = @ + 1]

TruncateUnlessThere(w) ==
  /\ analyzer[w].pc = "truncate"
  /\ IF evidence[analyzer[w].artifact][Current(w)].kind = "whole"
     THEN Written(w) /\ UNCHANGED evidence
     ELSE /\ evidence' = [evidence EXCEPT ![analyzer[w].artifact][Current(w)] = Torn]
          /\ analyzer' = [analyzer EXCEPT ![w].pc = "fill"]
  /\ UNCHANGED <<schema, runs, lock, child, starts, faults, people>>

Truncate(w) ==
  /\ analyzer[w].pc = "truncate"
  /\ evidence' = [evidence EXCEPT ![analyzer[w].artifact][Current(w)] = Torn]
  /\ analyzer' = [analyzer EXCEPT ![w].pc = "fill"]
  /\ UNCHANGED <<schema, runs, lock, child, starts, faults, people>>

write_file_bytes(w) ==
  /\ analyzer[w].pc = "fill"
  /\ evidence' = [evidence EXCEPT ![analyzer[w].artifact][Current(w)] =
                    Whole(ContentOf(w, Current(w)))]
  /\ Written(w)
  /\ UNCHANGED <<schema, runs, lock, child, starts, faults, people>>

\* A full disk ends the analysis without a row, or is noticed by nobody when
\* the bytes are only flushed by the stream's destructor.
WriteFails(w) ==
  /\ analyzer[w].pc = "fill" /\ Fault
  /\ \/ Leave(w)
     \/ Written(w) /\ UNCHANGED <<child, lock>>
  /\ UNCHANGED <<schema, runs, evidence, starts, people>>

\* UNIQUE(analysis_run_id, archive_path)
Duplicate(files) ==
  \E i, j \in DOMAIN files : i # j /\ files[i].path = files[j].path

\* One transaction; the files are read back and recorded as they are then.
Commit(w) ==
  /\ analyzer[w].pc = "commit"
  /\ LET answer == analyzer[w].answer
     IN runs' = IF Duplicate(answer.files) THEN runs
                ELSE Append(runs,
                  [package |-> analyzer[w].package, status |-> "completed",
                   ruleset |-> answer.ruleset,
                   artifact |-> {analyzer[w].artifact},
                   stage |-> "", message |-> "", files |-> answer.files,
                   disposition |-> [f \in answer.findings |-> "unreviewed"],
                   evidence |-> evidence[analyzer[w].artifact]])
  /\ Leave(w)
  /\ UNCHANGED <<schema, evidence, starts, faults, people>>

Kill(w) ==
  /\ analyzer[w] # Idle /\ Fault /\ Leave(w)
  /\ UNCHANGED <<schema, runs, evidence, starts, people>>

-----------------------------------------------------------------------------
(* read_finding_source                                                     *)

Findings == UNION {{<< n, f >> : f \in DOMAIN runs[n].disposition} :
                     n \in DOMAIN runs}

\* The row of a finding is complete when a file record has its path and the
\* artifact was recorded under its digest.
RecordOf(n, f) == {i \in DOMAIN runs[n].files : runs[n].files[i].path = f.path}
Backed(n, f) ==
  /\ RecordOf(n, f) # {}
  /\ runs[n].evidence["artifact.tgz"] \in {Whole(a) : a \in runs[n].artifact}

SelectFinding(r) ==
  /\ reader[r] = {} /\ schema \in {2, 3} /\ Command
  /\ \E id \in Findings :
       /\ Backed(id[1], id[2])
       /\ reader' = [reader EXCEPT ![r] =
            {[id |-> id, artifact |-> runs[id[1]].artifact,
              record |-> runs[id[1]].files[First(RecordOf(id[1], id[2]))]]}]
  /\ UNCHANGED <<schema, runs, lock, evidence, analyzer, child, starts, faults,
                 reviews, reviewer, shown, acknowledged>>

\* The member must be the only one of its path, a file, and the one recorded.
Displayable(record, headers) ==
  LET tar == parse_ustar(headers)
      named == {i \in DOMAIN tar.members : tar.members[i].path = record.path}
  IN /\ tar.ok /\ Cardinality(named) = 1
     /\ \A i \in named : /\ Regular(tar.members[i])
                         /\ tar.members[i].text = record.text
     /\ valid_utf8(record.text)
     /\ "nul" \notin {record.text[i] : i \in DOMAIN record.text}

Shown(row) ==
  LET window == Window(row.record.text, row.id[2])
  IN [id |-> row.id, from |-> window.from, to |-> window.to,
      line |-> StartLine(row.record.text, window.from)]

ReadArtifact(r) ==
  /\ \E row \in reader[r], a \in Artifacts :
       /\ row.artifact = {a}
       /\ shown' = IF /\ evidence[a]["artifact.tgz"] = Whole(a)
                      /\ Displayable(row.record, Archives[a])
                   THEN {Shown(row)} ELSE {}
  /\ reader' = [reader EXCEPT ![r] = {}]
  /\ UNCHANGED <<schema, runs, lock, evidence, analyzer, child, starts, faults,
                 reviews, reviewer, acknowledged, commands>>

-----------------------------------------------------------------------------
(* review_finding                                                          *)

\* Somebody decides from the disposition they see.
Look(v) ==
  /\ reviewer[v] = Idle /\ Command
  /\ \E id \in {x \in Findings : x[2].rule \in Reviewed},
        disposition \in Dispositions :
       reviewer' = [reviewer EXCEPT ![v] =
         [pc |-> "lock", id |-> id, disposition |-> disposition,
          expected |-> runs[id[1]].disposition[id[2]]]]
  /\ UNCHANGED <<schema, runs, lock, evidence, analyzer, child, starts, faults,
                 reader, shown, reviews, acknowledged>>

OpenCatalog(v) ==
  /\ reviewer[v].pc = "lock" /\ lock = Free
  /\ lock' = v
  /\ reviewer' = [reviewer EXCEPT ![v].pc = "review"]
  /\ UNCHANGED <<schema, runs, evidence, analyzer, child, starts, faults,
                 reader, shown, reviews, acknowledged, commands>>

LeaveReview(v) ==
  /\ reviewer' = [reviewer EXCEPT ![v] = Idle]
  /\ lock' = IF lock = v THEN Free ELSE lock

\* A review is refused when the disposition is not the expected one, or is the
\* requested one already.
ConflictUnexpected(previous, expected, requested) == previous = requested
Conflict(previous, expected, requested) ==
  previous # expected \/ previous = requested

review_finding(v) ==
  /\ reviewer[v].pc = "review"
  /\ LET n == reviewer[v].id[1]
         f == reviewer[v].id[2]
         previous == runs[n].disposition[f]
         requested == reviewer[v].disposition
     IN IF Conflict(previous, reviewer[v].expected, requested)
        THEN LeaveReview(v) /\ UNCHANGED <<schema, runs, reviews>>
        ELSE /\ schema' = 3
             /\ reviews' = Append(reviews,
                  [id |-> reviewer[v].id, previous |-> previous,
                   disposition |-> requested])
             /\ runs' = [runs EXCEPT ![n].disposition[f] = requested]
             /\ reviewer' = [reviewer EXCEPT ![v].pc = "print"]
             /\ UNCHANGED lock
  /\ UNCHANGED <<evidence, analyzer, child, starts, faults, reader, shown,
                 acknowledged, commands>>

\* The review's own id is printed.
AcknowledgeReview(v) ==
  /\ reviewer[v].pc = "print"
  /\ acknowledged' = acknowledged \cup
       {[review |-> Len(reviews), id |-> reviewer[v].id,
         seen |-> reviewer[v].expected,
         disposition |-> reviewer[v].disposition]}
  /\ LeaveReview(v)
  /\ UNCHANGED <<schema, runs, evidence, analyzer, child, starts, faults,
                 reader, shown, reviews, commands>>

KillReview(v) ==
  /\ reviewer[v] # Idle /\ Fault /\ LeaveReview(v)
  /\ UNCHANGED <<schema, runs, evidence, analyzer, child, starts, reader,
                 shown, reviews, acknowledged, commands>>

-----------------------------------------------------------------------------

ChildStep(w) == ChildWrites(w) \/ ChildCloses(w) \/ ChildExits(w)

HostStep(w) ==
  \/ Acquire(w) \/ FetchMetadata(w) \/ FetchArtifact(w)
  \/ run_command(w) \/ docker_worker(w)
  \/ Truncate(w) \/ write_file_bytes(w) \/ Commit(w)

ReviewStep(v) == OpenCatalog(v) \/ review_finding(v) \/ AcknowledgeReview(v)

Next ==
  \/ \E w \in Analyzers :
       \/ Begin(w) \/ HostStep(w) \/ ChildStep(w) \/ DeadlinePasses(w)
       \/ DownloadFails(w) \/ WriteFails(w) \/ Kill(w)
  \/ \E r \in Readers : SelectFinding(r) \/ ReadArtifact(r)
  \/ \E v \in Reviewers : Look(v) \/ ReviewStep(v) \/ KillReview(v)

\* The operating system runs a process that can go on, time passes, and a
\* worker that neither writes nor closes its output nor exits is not one of the
\* workers this analyzer has.
Spec ==
  /\ Init /\ [][Next]_vars
  /\ \A w \in Analyzers : /\ WF_vars(HostStep(w)) /\ WF_vars(ChildStep(w))
                          /\ WF_vars(DeadlinePasses(w))
  /\ \A v \in Reviewers : WF_vars(ReviewStep(v))

-----------------------------------------------------------------------------
(* Properties                                                              *)

States == {"idle", "lock", "metadata", "artifact", "await", "answer",
           "truncate", "fill", "commit"}

\* Every variable has its type, whoever holds the lock is a process that runs,
\* and a run is completed with everything that belongs to it or failed with
\* nothing (Transaction and insert_failed_run).
TypeOK ==
  /\ schema \in {1, 2, 3} /\ (runs # << >> => schema = 3)
  /\ \A n \in DOMAIN runs :
       /\ runs[n].status \in {"completed", "failed"}
       /\ Cardinality(runs[n].artifact) <= 1
       /\ runs[n].status = "failed" <=> runs[n].stage # ""
       /\ runs[n].status = "completed" <=> DOMAIN runs[n].evidence = Names
  /\ \A i \in DOMAIN reviews : reviews[i].id \in Findings
  /\ \A w \in Analyzers :
       /\ analyzer[w].pc \in States
       /\ lock = w <=> analyzer[w].pc \notin {"idle", "lock"}
       /\ child[w].state # "none" <=> analyzer[w].pc \in {"await", "answer"}
       /\ child[w].read <= MaxOutput
  /\ \A v \in Reviewers :
       lock = v <=> reviewer[v].pc \in {"review", "print"}
  /\ \A a \in Artifacts : DOMAIN evidence[a] = Names
  /\ faults \in 0 .. MaxFaults /\ starts \in 0 .. MaxStarts

\* The disposition that the first n reviews leave a finding in.
Leaves(audit, n, id, disposition) ==
  \/ /\ disposition = "unreviewed"
     /\ \A i \in 1 .. n : audit[i].id # id
  \/ \E i \in 1 .. n :
       /\ audit[i].id = id /\ audit[i].disposition = disposition
       /\ \A j \in (i + 1) .. n : audit[j].id # id

\* However reviewers decide from dispositions they saw earlier, wait for each
\* other and are killed: each review starts where the last one of its finding
\* ended, the first one from unreviewed, the current disposition is where the
\* last one ended, and an acknowledged review is in the trail with the
\* disposition its reviewer saw (review_finding).
ReviewsAreAChain ==
  /\ \A i \in DOMAIN reviews :
       Leaves(reviews, i - 1, reviews[i].id, reviews[i].previous)
  /\ \A id \in Findings :
       Leaves(reviews, Len(reviews), id, runs[id[1]].disposition[id[2]])
  /\ \A ack \in acknowledged :
       /\ ack.review \in DOMAIN reviews
       /\ reviews[ack.review] = [id |-> ack.id, previous |-> ack.seen,
                                 disposition |-> ack.disposition]

\* The line of text with that number, counted from its start.
NewlinesBefore(text, i) == Cardinality({j \in DOMAIN text : j < i /\ text[j] = "nl"})

\* Of a completed run: each file is recorded once, and a finding with a line
\* number cites a recorded file whose line of that number is the one its
\* evidence was cut from (scan_javascript_text, the UNIQUE constraint).
FindingsAreLocated ==
  \A n \in DOMAIN runs : \A f \in DOMAIN runs[n].disposition :
    f.line # NoLine =>
      /\ Cardinality(RecordOf(n, f)) = 1
      /\ LET text == runs[n].files[First(RecordOf(n, f))].text
             snippet == WithoutDots(f.evidence)
         IN \E i \in DOMAIN text :
              /\ NewlinesBefore(text, i) = f.line - 1
              /\ i = 1 \/ text[i - 1] = "nl"
              /\ SubSeq(text, i, i + Len(snippet) - 1) = snippet

\* Whatever is written or torn in the evidence meanwhile: what finding-source
\* prints is part of the file the analyzer saw, begins and ends between
\* characters, is no longer than the limit, and a reader who counts lines from
\* the printed start line finds the finding's symbol on the finding's line when
\* the line has it and the limit is large enough for it. A symbol that ends in
\* dots is not what is looked for.
ShownSourceIsTrue ==
  \A s \in shown :
    LET f == s.id[2]
        artifact == CHOOSE a \in runs[s.id[1]].artifact : TRUE
        members == parse_ustar(Archives[artifact]).members
        text == members[CHOOSE i \in DOMAIN members : members[i].path = f.path].text
        excerpt == SubSeq(text, s.from + 1, s.to)
        cited(i) == /\ NewlinesBefore(text, i) = f.line - 1 /\ text[i] # "nl"
                    /\ i \in Found(text, f.symbol)
    IN /\ valid_utf8(excerpt) /\ Len(excerpt) <= SourceBytes
       /\ (f.symbol # << >> /\ Needle(f) = f.symbol
            /\ Len(f.symbol) + 2 <= SourceBytes /\ \E i \in DOMAIN text : cited(i))
            => \E k \in Found(excerpt, f.symbol) :
                 s.line + NewlinesBefore(excerpt, k) = f.line

\* The evidence of the last completed run of an artifact is what that run
\* recorded, the artifact, the rules and the findings among it, whatever runs
\* the directory served before, unless an analysis of the artifact is writing
\* now or a fault cut one short (analyze_package).
NewestIsBacked ==
  \A a \in Artifacts :
    LET completed == {n \in DOMAIN runs : /\ runs[n].status = "completed"
                                          /\ runs[n].artifact = {a}}
        writing == \E w \in Analyzers :
                     /\ analyzer[w].pc \in {"truncate", "fill", "commit"}
                     /\ analyzer[w].artifact = a
        newest == runs[CHOOSE n \in completed : \A m \in completed : m <= n]
    IN (completed # {} /\ ~writing /\ faults = 0) =>
         /\ evidence[a] = newest.evidence
         /\ evidence[a]["artifact.tgz"] = Whole(a)
         /\ evidence[a]["analysis-rules.json"] = Whole(newest.ruleset)
         /\ evidence[a]["findings.jsonl"] = Whole(DOMAIN newest.disposition)

\* An analysis ends, and with it the hold on the writer lock, though workers
\* write too much, close their output and live on, or miss the deadline
\* (run_command).
AnalysesEnd ==
  \A w \in Analyzers : analyzer[w] # Idle ~> analyzer[w] = Idle

\* docs/artifact-static-analysis-v1.md:14 "The container emits bounded JSON on
\* stdout": no answer of a worker that succeeded is refused by the host.
WorkerAnswersAreJson ==
  \A n \in DOMAIN runs : runs[n].message # "answer"

=============================================================================
