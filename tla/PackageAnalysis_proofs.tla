------------------------ MODULE PackageAnalysis_proofs ------------------------
(***************************************************************************)
(* Types, the trail of reviews and the evidence of the newest run, for any *)
(* number of analyzers, readers and reviewers, any archives, rules,        *)
(* registry answers and faults.                                            *)
(*                                                                         *)
(* A reviewer compares the disposition it decided from, writes the audit   *)
(* row and the new disposition and reports the row's id while it holds the *)
(* writer lock; whatever others do in between leaves reviews alone and     *)
(* only appends runs whose findings are unreviewed.  An analysis holds the *)
(* same lock while it writes the directory of its artifact, so what it     *)
(* records is what it wrote.                                               *)
(***************************************************************************)
EXTENDS PackageAnalysis, FiniteSetTheorems, TLAPS

-----------------------------------------------------------------------------
(* The inductive invariant                                                 *)

\* Tables are sequences of rows, a review is of a finding there is.
TablesTyped ==
  /\ \E S : runs \in Seq(S)
  /\ \E S : reviews \in Seq(S)
  /\ \A n \in DOMAIN runs : "disposition" \in DOMAIN runs[n]
  /\ \A i \in DOMAIN reviews : reviews[i].id \in Findings

Waiting(v) == reviewer[v] =
  [pc |-> reviewer[v].pc, id |-> reviewer[v].id,
   disposition |-> reviewer[v].disposition, expected |-> reviewer[v].expected]

\* A reviewer is idle, or has a finding there is and holds the lock from the
\* opening of the catalog to its exit.
ReviewersTyped ==
  /\ reviewer = [v \in Reviewers |-> reviewer[v]]
  /\ \A v \in Reviewers :
       \/ reviewer[v] = Idle
       \/ /\ Waiting(v)
          /\ reviewer[v].pc \in {"lock", "review", "print"}
          /\ reviewer[v].id \in Findings
          /\ reviewer[v].pc # "lock" => lock = v

\* Until a reviewer has reported its review, it is the last one.
PrintsItsReview ==
  \A v \in Reviewers :
    reviewer[v].pc = "print" =>
      /\ Len(reviews) \in DOMAIN reviews
      /\ reviews[Len(reviews)] =
           [id |-> reviewer[v].id, previous |-> reviewer[v].expected,
            disposition |-> reviewer[v].disposition]

IInv == TablesTyped /\ ReviewersTyped /\ PrintsItsReview /\ ReviewsAreAChain

-----------------------------------------------------------------------------
(* What analyzers and readers do to the reviews: nothing                   *)

Unreviewed(run) ==
  /\ "disposition" \in DOMAIN run
  /\ \A f \in DOMAIN run.disposition : run.disposition[f] = "unreviewed"

\* A step that leaves reviews and their reviewers alone, takes the lock from no
\* reviewer, and inserts at most one run.
Apart ==
  /\ UNCHANGED <<reviews, reviewer, acknowledged>>
  /\ \A v \in Reviewers : lock = v => lock' = v
  /\ \/ runs' = runs
     \/ \E run : Unreviewed(run) /\ runs' = Append(runs, run)

LEMMA LeaveIsApart ==
  ASSUME NEW w \in Analyzers, Leave(w), NEW v \in Reviewers, lock = v
  PROVE  lock' = v
BY ActorsAssumption DEF Leave

LEMMA FailedRunIsUnreviewed ==
  ASSUME NEW w, NEW stage, NEW artifact, NEW message
  PROVE  Unreviewed(FailedRun(w, stage, artifact, message))
BY DEF Unreviewed, FailedRun

LEMMA FailureIsApart ==
  ASSUME NEW w \in Analyzers, NEW stage, NEW artifact, NEW message,
         insert_failed_run(w, stage, artifact, message),
         UNCHANGED <<reviews, reviewer, acknowledged>>
  PROVE  Apart
<1>1. \A v \in Reviewers : lock = v => lock' = v
  BY LeaveIsApart DEF insert_failed_run
<1>2. Unreviewed(FailedRun(w, stage, artifact, message))
  BY FailedRunIsUnreviewed
<1>3. runs' = Append(runs, FailedRun(w, stage, artifact, message))
  BY DEF insert_failed_run
<1> QED BY <1>1, <1>2, <1>3 DEF Apart

LEMMA LeavingIsApart ==
  ASSUME NEW w \in Analyzers, Leave(w),
         UNCHANGED <<runs, reviews, reviewer, acknowledged>>
  PROVE  Apart
BY LeaveIsApart DEF Apart

LEMMA KeepingIsApart ==
  ASSUME UNCHANGED <<runs, lock, reviews, reviewer, acknowledged>>
  PROVE  Apart
BY DEF Apart

LEMMA BeginIsApart ==
  ASSUME NEW w \in Analyzers, Begin(w) PROVE Apart
BY KeepingIsApart DEF Begin

LEMMA AcquireIsApart ==
  ASSUME NEW w \in Analyzers, Acquire(w) PROVE Apart
BY ActorsAssumption DEF Acquire, Apart, people

LEMMA FetchMetadataIsApart ==
  ASSUME NEW w \in Analyzers, FetchMetadata(w) PROVE Apart
<1> USE DEF people
<1>1. CASE ~Nameable(analyzer[w].package)
  BY <1>1, LeavingIsApart DEF FetchMetadata
<1>2. CASE Nameable(analyzer[w].package)
  <2>1. PICK document \in Documents[analyzer[w].declaration] :
          LET package == analyzer[w].package
              release == ReleaseMetadata(package.registry, document,
                                         package.name, package.version)
          IN \/ insert_failed_run(w, "parse_metadata", {}, "")
             \/ Leave(w) /\ UNCHANGED runs
             \/ UNCHANGED <<runs, lock, child>>
    BY <1>2 DEF FetchMetadata
  <2>2. UNCHANGED <<reviews, reviewer, acknowledged>>
    BY DEF FetchMetadata
  <2> QED BY <2>1, <2>2, FailureIsApart, LeavingIsApart, KeepingIsApart
<1> QED BY <1>1, <1>2

LEMMA DownloadFailsIsApart ==
  ASSUME NEW w \in Analyzers, DownloadFails(w) PROVE Apart
BY FailureIsApart DEF DownloadFails, people

LEMMA FetchArtifactIsApart ==
  ASSUME NEW w \in Analyzers, FetchArtifact(w) PROVE Apart
<1>1. UNCHANGED <<reviews, reviewer, acknowledged>>
  BY DEF FetchArtifact, people
<1>2. \/ Leave(w) /\ UNCHANGED runs
      \/ \E artifact : insert_failed_run(w, "integrity", artifact, "")
      \/ UNCHANGED <<runs, lock>>
  BY DEF FetchArtifact
<1> QED BY <1>1, <1>2, FailureIsApart, LeavingIsApart, KeepingIsApart

LEMMA RunCommandIsApart ==
  ASSUME NEW w \in Analyzers, run_command(w) PROVE Apart
<1>1. UNCHANGED <<reviews, reviewer, acknowledged>>
  BY DEF run_command, people
<1>2. \/ insert_failed_run(w, "analyze_container", {analyzer[w].artifact}, "child")
      \/ UNCHANGED <<runs, lock>>
  BY DEF run_command
<1> QED BY <1>1, <1>2, FailureIsApart, KeepingIsApart

LEMMA DockerWorkerIsApart ==
  ASSUME NEW w \in Analyzers, docker_worker(w) PROVE Apart
<1>1. UNCHANGED <<reviews, reviewer, acknowledged>>
  BY DEF docker_worker, people
<1>2. \/ \E message :
           insert_failed_run(w, "analyze_container", {analyzer[w].artifact}, message)
      \/ Leave(w) /\ UNCHANGED runs
      \/ UNCHANGED <<runs, lock>>
  BY DEF docker_worker
<1> QED BY <1>1, <1>2, FailureIsApart, LeavingIsApart, KeepingIsApart

LEMMA WritingIsApart ==
  ASSUME NEW w \in Analyzers,
         Truncate(w) \/ write_file_bytes(w) \/ WriteFails(w)
  PROVE  Apart
<1> USE DEF people
<1>1. CASE Truncate(w)         BY <1>1, KeepingIsApart DEF Truncate
<1>2. CASE write_file_bytes(w) BY <1>2, KeepingIsApart DEF write_file_bytes
<1>3. CASE WriteFails(w)
  BY <1>3, KeepingIsApart, LeavingIsApart DEF WriteFails
<1> QED BY <1>1, <1>2, <1>3

LEMMA CommitIsApart ==
  ASSUME NEW w \in Analyzers, Commit(w) PROVE Apart
<1>1. UNCHANGED <<reviews, reviewer, acknowledged>>
  BY DEF Commit, people
<1>2. CASE runs' = runs
  BY <1>1, <1>2, LeavingIsApart DEF Commit
<1>3. CASE runs' # runs
  <2> DEFINE run ==
        [package |-> analyzer[w].package, status |-> "completed",
         ruleset |-> analyzer[w].answer.ruleset,
         artifact |-> {analyzer[w].artifact},
         stage |-> "", message |-> "", files |-> analyzer[w].answer.files,
         disposition |-> [f \in analyzer[w].answer.findings |-> "unreviewed"],
         evidence |-> evidence[analyzer[w].artifact]]
  <2>1. runs' = Append(runs, run)
    BY <1>3 DEF Commit
  <2>2. Unreviewed(run)
    BY DEF Unreviewed
  <2>3. \A v \in Reviewers : lock = v => lock' = v
    BY LeaveIsApart DEF Commit
  <2> HIDE DEF run
  <2> QED BY <1>1, <2>1, <2>2, <2>3 DEF Apart
<1> QED BY <1>2, <1>3

LEMMA ChildIsApart ==
  ASSUME NEW w \in Analyzers, ChildStep(w) \/ DeadlinePasses(w) PROVE Apart
BY KeepingIsApart
  DEF ChildStep, ChildWrites, ChildCloses, ChildExits, DeadlinePasses, people

LEMMA KillIsApart ==
  ASSUME NEW w \in Analyzers, Kill(w) PROVE Apart
BY LeavingIsApart DEF Kill, people

LEMMA ReaderIsApart ==
  ASSUME NEW r \in Readers, SelectFinding(r) \/ ReadArtifact(r) PROVE Apart
BY KeepingIsApart DEF SelectFinding, ReadArtifact

LEMMA AnalyzerIsApart ==
  ASSUME NEW w \in Analyzers,
         \/ Begin(w) \/ HostStep(w) \/ ChildStep(w) \/ DeadlinePasses(w)
         \/ DownloadFails(w) \/ WriteFails(w) \/ Kill(w)
  PROVE  Apart
BY BeginIsApart, AcquireIsApart, FetchMetadataIsApart, FetchArtifactIsApart,
   RunCommandIsApart, DockerWorkerIsApart, WritingIsApart, CommitIsApart,
   ChildIsApart, DownloadFailsIsApart, KillIsApart DEF HostStep

-----------------------------------------------------------------------------
(* Rows                                                                    *)

LEMMA Appending ==
  ASSUME NEW S, NEW seq \in Seq(S), NEW row
  PROVE  /\ Append(seq, row) \in Seq(S \cup {row})
         /\ Len(seq) \in Nat /\ DOMAIN seq = 1 .. Len(seq)
         /\ Len(Append(seq, row)) = Len(seq) + 1
         /\ DOMAIN Append(seq, row) = 1 .. (Len(seq) + 1)
         /\ \A i \in DOMAIN seq : Append(seq, row)[i] = seq[i]
         /\ Append(seq, row)[Len(seq) + 1] = row
OBVIOUS

LEMMA FindingIs ==
  ASSUME NEW id
  PROVE  id \in Findings <=>
           \E n \in DOMAIN runs : \E f \in DOMAIN runs[n].disposition : id = << n, f >>
BY DEF Findings

LEMMA FindingWas ==
  ASSUME NEW id
  PROVE  id \in Findings' <=>
           \E n \in DOMAIN runs' : \E f \in DOMAIN runs'[n].disposition : id = << n, f >>
BY DEF Findings

\* A new run has findings of its own, all of them unreviewed.
LEMMA FindingsGrow ==
  ASSUME TablesTyped, Apart
  PROVE  /\ TablesTyped'
         /\ Findings \subseteq Findings'
         /\ \A id \in Findings : runs'[id[1]].disposition[id[2]]
                                   = runs[id[1]].disposition[id[2]]
         /\ \A id \in Findings' \ Findings :
              runs'[id[1]].disposition[id[2]] = "unreviewed"
<1>1. CASE runs' = runs
  BY <1>1 DEF TablesTyped, Findings, Apart
<1>2. ASSUME NEW run, Unreviewed(run), runs' = Append(runs, run)
      PROVE  /\ TablesTyped'
             /\ Findings \subseteq Findings'
             /\ \A id \in Findings : runs'[id[1]].disposition[id[2]]
                                       = runs[id[1]].disposition[id[2]]
             /\ \A id \in Findings' \ Findings :
                  runs'[id[1]].disposition[id[2]] = "unreviewed"
  <2>1. PICK S : runs \in Seq(S) BY DEF TablesTyped
  <2>2. /\ runs' \in Seq(S \cup {run})
        /\ Len(runs) \in Nat /\ DOMAIN runs = 1 .. Len(runs)
        /\ DOMAIN runs' = 1 .. (Len(runs) + 1)
        /\ \A n \in DOMAIN runs : runs'[n] = runs[n]
        /\ runs'[Len(runs) + 1] = run
    BY <1>2, <2>1, Appending
  <2>3. Findings \subseteq Findings'
    BY <2>2, FindingIs, FindingWas
  <2>4. \A id \in Findings : runs'[id[1]].disposition[id[2]]
                               = runs[id[1]].disposition[id[2]]
    BY <2>2, FindingIs
  <2>5. ASSUME NEW id \in Findings', id \notin Findings
        PROVE  runs'[id[1]].disposition[id[2]] = "unreviewed"
    <3>1. PICK n \in DOMAIN runs' :
            \E f \in DOMAIN runs'[n].disposition : id = << n, f >>
      BY FindingWas
    <3>2. n = Len(runs) + 1
      BY <2>2, <2>5, <3>1, FindingIs
    <3> QED BY <1>2, <2>2, <3>1, <3>2 DEF Unreviewed
  <2>6. TablesTyped'
    <3>1. reviews' = reviews
      BY DEF Apart
    <3>2. \A n \in DOMAIN runs' : "disposition" \in DOMAIN runs'[n]
      BY <1>2, <2>2 DEF TablesTyped, Unreviewed
    <3>3. \A i \in DOMAIN reviews' : reviews'[i].id \in Findings'
      BY <2>3, <3>1 DEF TablesTyped
    <3>4. (\E T : runs' \in Seq(T)) /\ (\E T : reviews' \in Seq(T))
      BY <2>2, <3>1 DEF TablesTyped
    <3> QED BY <3>2, <3>3, <3>4 DEF TablesTyped
  <2> QED BY <2>3, <2>4, <2>5, <2>6
<1> QED BY <1>1, <1>2 DEF Apart

LEMMA Unreferenced ==
  ASSUME TablesTyped, NEW id, id \notin Findings
  PROVE  Leaves(reviews, Len(reviews), id, "unreviewed")
<1>1. PICK S : reviews \in Seq(S) BY DEF TablesTyped
<1>2. DOMAIN reviews = 1 .. Len(reviews) BY <1>1
<1> QED BY <1>2 DEF TablesTyped, Leaves

LEMMA ApartKeeps ==
  ASSUME IInv, Apart PROVE IInv'
<1>1. /\ TablesTyped'
      /\ Findings \subseteq Findings'
      /\ \A id \in Findings : runs'[id[1]].disposition[id[2]]
                                = runs[id[1]].disposition[id[2]]
      /\ \A id \in Findings' \ Findings :
           runs'[id[1]].disposition[id[2]] = "unreviewed"
  BY FindingsGrow DEF IInv
<1>2. /\ UNCHANGED <<reviews, reviewer, acknowledged>>
      /\ \A v \in Reviewers : lock = v => lock' = v
  BY DEF Apart
<1>3. ReviewersTyped'
  BY <1>1, <1>2 DEF IInv, ReviewersTyped, Waiting
<1>4. PrintsItsReview'
  BY <1>2 DEF IInv, PrintsItsReview
<1>5. ASSUME NEW id \in Findings'
      PROVE  Leaves(reviews, Len(reviews), id, runs'[id[1]].disposition[id[2]])
  <2>1. CASE id \in Findings
    BY <1>1, <2>1 DEF IInv, ReviewsAreAChain
  <2>2. CASE id \notin Findings
    BY <1>1, <2>2, Unreferenced DEF IInv
  <2> QED BY <2>1, <2>2
<1>6. ReviewsAreAChain'
  BY <1>2, <1>5 DEF IInv, ReviewsAreAChain
<1> QED BY <1>1, <1>3, <1>4, <1>6 DEF IInv

-----------------------------------------------------------------------------
(* What a review adds to the trail                                         *)

LEMMA SamePrefix ==
  ASSUME NEW a, NEW b, NEW n \in Nat, NEW id, NEW disposition,
         \A i \in 1 .. n : a[i] = b[i], Leaves(a, n, id, disposition)
  PROVE  Leaves(b, n, id, disposition)
<1>1. CASE \A i \in 1 .. n : a[i].id # id
  BY <1>1 DEF Leaves
<1>2. CASE \E i \in 1 .. n :
             /\ a[i].id = id /\ a[i].disposition = disposition
             /\ \A j \in (i + 1) .. n : a[j].id # id
  <2>1. PICK i \in 1 .. n : /\ a[i].id = id /\ a[i].disposition = disposition
                            /\ \A j \in (i + 1) .. n : a[j].id # id
    BY <1>2
  <2>2. \A j \in (i + 1) .. n : j \in 1 .. n
    OBVIOUS
  <2>3. /\ b[i].id = id /\ b[i].disposition = disposition
        /\ \A j \in (i + 1) .. n : b[j].id # id
    BY <2>1, <2>2
  <2> QED BY <2>3 DEF Leaves
<1> QED BY <1>1, <1>2 DEF Leaves

LEMMA OtherReview ==
  ASSUME NEW b, NEW n \in Nat, NEW id, NEW disposition,
         b[n + 1].id # id, Leaves(b, n, id, disposition)
  PROVE  Leaves(b, n + 1, id, disposition)
<1>1. CASE disposition = "unreviewed" /\ \A i \in 1 .. n : b[i].id # id
  <2>1. \A i \in 1 .. (n + 1) : i \in 1 .. n \/ i = n + 1
    OBVIOUS
  <2>2. \A i \in 1 .. (n + 1) : b[i].id # id
    BY <1>1, <2>1
  <2> QED BY <1>1, <2>2 DEF Leaves
<1>2. CASE \E i \in 1 .. n :
             /\ b[i].id = id /\ b[i].disposition = disposition
             /\ \A j \in (i + 1) .. n : b[j].id # id
  <2>1. PICK i \in 1 .. n : /\ b[i].id = id /\ b[i].disposition = disposition
                            /\ \A j \in (i + 1) .. n : b[j].id # id
    BY <1>2
  <2>2. \A j \in (i + 1) .. (n + 1) : j \in (i + 1) .. n \/ j = n + 1
    OBVIOUS
  <2>3. i \in 1 .. (n + 1) /\ \A j \in (i + 1) .. (n + 1) : b[j].id # id
    BY <2>1, <2>2
  <2> QED BY <2>1, <2>3 DEF Leaves
<1> QED BY <1>1, <1>2 DEF Leaves

LEMMA OwnReview ==
  ASSUME NEW b, NEW n \in Nat
  PROVE  Leaves(b, n + 1, b[n + 1].id, b[n + 1].disposition)
<1>1. n + 1 \in 1 .. (n + 1) /\ ((n + 1) + 1) .. (n + 1) = {}
  OBVIOUS
<1> QED BY <1>1 DEF Leaves

-----------------------------------------------------------------------------
(* The steps of a reviewer                                                 *)

LEMMA ReviewersOnly ==
  ASSUME IInv, NEW v \in Reviewers, NEW state,
         reviewer' = [reviewer EXCEPT ![v] = state],
         UNCHANGED <<runs, reviews>>,
         \A u \in Reviewers : u # v /\ lock = u => lock' = u,
         \/ state = Idle
         \/ /\ state = [pc |-> state.pc, id |-> state.id,
                        disposition |-> state.disposition,
                        expected |-> state.expected]
            /\ state.pc \in {"lock", "review"} /\ state.id \in Findings
            /\ state.pc # "lock" => lock' = v,
         \A ack \in acknowledged' :
           /\ ack.review \in DOMAIN reviews
           /\ reviews[ack.review] = [id |-> ack.id, previous |-> ack.seen,
                                     disposition |-> ack.disposition]
  PROVE  IInv'
<1>1. reviewer'[v] = state /\ \A u \in Reviewers : u # v => reviewer'[u] = reviewer[u]
  BY DEF IInv, ReviewersTyped
<1>2. Findings' = Findings
  BY DEF Findings
<1>3. TablesTyped'
  BY <1>2 DEF IInv, TablesTyped
<1>4. reviewer' = [u \in Reviewers |-> reviewer'[u]]
  BY DEF IInv, ReviewersTyped
<1>5. ASSUME NEW u \in Reviewers
      PROVE  \/ reviewer'[u] = Idle
             \/ /\ Waiting(u)'
                /\ reviewer'[u].pc \in {"lock", "review", "print"}
                /\ reviewer'[u].id \in Findings
                /\ reviewer'[u].pc # "lock" => lock' = u
  <2>1. CASE u = v
    BY <1>1, <2>1 DEF Waiting
  <2>2. CASE u # v
    BY <1>1, <2>2 DEF IInv, ReviewersTyped, Waiting
  <2> QED BY <2>1, <2>2
<1>6. ReviewersTyped'
  BY <1>2, <1>4, <1>5 DEF ReviewersTyped
<1>7. reviewer'[v].pc # "print"
  BY <1>1 DEF Idle
<1>8. PrintsItsReview'
  BY <1>1, <1>7 DEF IInv, PrintsItsReview
<1>9. ReviewsAreAChain'
  BY <1>2 DEF IInv, ReviewsAreAChain
<1> QED BY <1>3, <1>6, <1>8, <1>9 DEF IInv

LEMMA LeaveReviewKeeps ==
  ASSUME IInv, NEW v \in Reviewers, LeaveReview(v),
         UNCHANGED <<runs, reviews>>,
         \A ack \in acknowledged' :
           /\ ack.review \in DOMAIN reviews
           /\ reviews[ack.review] = [id |-> ack.id, previous |-> ack.seen,
                                     disposition |-> ack.disposition]
  PROVE  IInv'
<1>1. reviewer' = [reviewer EXCEPT ![v] = Idle]
  BY DEF LeaveReview
<1>2. \A u \in Reviewers : u # v /\ lock = u => lock' = u
  BY DEF LeaveReview
<1> QED BY <1>1, <1>2, ReviewersOnly

LEMMA AcknowledgedBefore ==
  ASSUME IInv, acknowledged' = acknowledged
  PROVE  \A ack \in acknowledged' :
           /\ ack.review \in DOMAIN reviews
           /\ reviews[ack.review] = [id |-> ack.id, previous |-> ack.seen,
                                     disposition |-> ack.disposition]
BY DEF IInv, ReviewsAreAChain

LEMMA LookKeeps ==
  ASSUME IInv, NEW v \in Reviewers, Look(v) PROVE IInv'
<1>1. PICK id \in Findings, disposition \in Dispositions :
        reviewer' = [reviewer EXCEPT ![v] =
          [pc |-> "lock", id |-> id, disposition |-> disposition,
           expected |-> runs[id[1]].disposition[id[2]]]]
  BY DEF Look
<1>2. UNCHANGED <<runs, reviews, lock, acknowledged>>
  BY DEF Look
<1> DEFINE state == [pc |-> "lock", id |-> id, disposition |-> disposition,
                     expected |-> runs[id[1]].disposition[id[2]]]
<1>3. /\ state = [pc |-> state.pc, id |-> state.id,
                  disposition |-> state.disposition,
                  expected |-> state.expected]
      /\ state.pc = "lock" /\ state.id \in Findings
  OBVIOUS
<1>4. reviewer' = [reviewer EXCEPT ![v] = state]
  BY <1>1
<1> HIDE DEF state
<1> QED BY <1>2, <1>3, <1>4, AcknowledgedBefore, ReviewersOnly

LEMMA Critical ==
  ASSUME IInv, NEW v \in Reviewers, reviewer[v].pc \in {"lock", "review", "print"}
  PROVE  /\ Waiting(v) /\ reviewer[v].id \in Findings
         /\ reviewer[v].pc # "lock" => lock = v
BY DEF IInv, ReviewersTyped, Idle

LEMMA OpenCatalogKeeps ==
  ASSUME IInv, NEW v \in Reviewers, OpenCatalog(v) PROVE IInv'
<1>1. Waiting(v) /\ reviewer[v].id \in Findings
  BY Critical DEF OpenCatalog
<1>2. /\ lock = Free /\ lock' = v
      /\ reviewer' = [reviewer EXCEPT ![v] = [reviewer[v] EXCEPT !.pc = "review"]]
      /\ UNCHANGED <<runs, reviews, acknowledged>>
  BY DEF OpenCatalog
<1> DEFINE state == [reviewer[v] EXCEPT !.pc = "review"]
<1>3. state = [pc |-> "review", id |-> reviewer[v].id,
               disposition |-> reviewer[v].disposition,
               expected |-> reviewer[v].expected]
  BY <1>1 DEF Waiting
<1>4. /\ state = [pc |-> state.pc, id |-> state.id,
                  disposition |-> state.disposition,
                  expected |-> state.expected]
      /\ state.pc = "review" /\ state.id \in Findings
  BY <1>1, <1>3
<1>5. \A u \in Reviewers : u # v /\ lock = u => lock' = u
  BY <1>2, ActorsAssumption
<1>6. reviewer' = [reviewer EXCEPT ![v] = state]
  BY <1>2
<1> HIDE DEF state
<1> QED BY <1>2, <1>4, <1>5, <1>6, AcknowledgedBefore, ReviewersOnly

\* A review that is not refused: the row and the new disposition.
Reviews(v, n, f) ==
  /\ reviewer[v].id = << n, f >>
  /\ reviews' = Append(reviews,
       [id |-> reviewer[v].id, previous |-> reviewer[v].expected,
        disposition |-> reviewer[v].disposition])
  /\ runs' = [runs EXCEPT ![n].disposition[f] = reviewer[v].disposition]
  /\ runs[n].disposition[f] = reviewer[v].expected
  /\ reviewer' = [reviewer EXCEPT ![v].pc = "print"]
  /\ UNCHANGED <<lock, acknowledged>>

\* Only the finding that is reviewed changes.
LEMMA ReviewedRuns ==
  ASSUME TablesTyped, NEW v \in Reviewers, NEW n \in DOMAIN runs,
         NEW f \in DOMAIN runs[n].disposition, Reviews(v, n, f)
  PROVE  /\ \E S : runs' \in Seq(S)
         /\ \A m \in DOMAIN runs' : "disposition" \in DOMAIN runs'[m]
         /\ Findings' = Findings
         /\ runs'[n].disposition[f] = reviewer[v].disposition
         /\ \A id \in Findings : id # << n, f >> =>
              runs'[id[1]].disposition[id[2]] = runs[id[1]].disposition[id[2]]
<1> DEFINE changed == [runs[n].disposition EXCEPT ![f] = reviewer[v].disposition]
           run == [runs[n] EXCEPT !.disposition = changed]
<1>1. runs' = [runs EXCEPT ![n] = run]
  BY DEF Reviews
<1>2. run.disposition = changed /\ "disposition" \in DOMAIN run
  BY DEF TablesTyped
<1>3. /\ DOMAIN changed = DOMAIN runs[n].disposition
      /\ changed[f] = reviewer[v].disposition
      /\ \A g \in DOMAIN changed : g # f => changed[g] = runs[n].disposition[g]
  OBVIOUS
<1> HIDE DEF changed, run
<1>4. PICK S : runs \in Seq(S) BY DEF TablesTyped
<1>5. runs' \in Seq(S \cup {run}) BY <1>1, <1>4
<1>6. /\ DOMAIN runs' = DOMAIN runs /\ runs'[n] = run
      /\ \A m \in DOMAIN runs : m # n => runs'[m] = runs[m]
  BY <1>1
<1>7. \A m \in DOMAIN runs' : "disposition" \in DOMAIN runs'[m]
  BY <1>2, <1>6 DEF TablesTyped
<1>8. \A m \in DOMAIN runs :
        DOMAIN runs'[m].disposition = DOMAIN runs[m].disposition
  BY <1>2, <1>3, <1>6
<1>9. Findings' = Findings
  <2>1. ASSUME NEW id PROVE id \in Findings' <=> id \in Findings
    BY <1>6, <1>8, FindingIs, FindingWas
  <2> QED BY <2>1
<1>10. runs'[n].disposition[f] = reviewer[v].disposition
  BY <1>2, <1>3, <1>6
<1>11. ASSUME NEW id \in Findings, id # << n, f >>
       PROVE  runs'[id[1]].disposition[id[2]] = runs[id[1]].disposition[id[2]]
  <2>1. PICK m \in DOMAIN runs :
          \E g \in DOMAIN runs[m].disposition : id = << m, g >>
    BY FindingIs
  <2>2. PICK g \in DOMAIN runs[m].disposition : id = << m, g >>
    BY <2>1
  <2>3. CASE m # n
    BY <1>6, <2>2, <2>3
  <2>4. CASE m = n
    BY <1>2, <1>3, <1>6, <1>11, <2>2, <2>4
  <2> QED BY <2>3, <2>4
<1> QED BY <1>5, <1>7, <1>9, <1>10, <1>11

LEMMA ReviewsKeep ==
  ASSUME IInv, NEW v \in Reviewers, reviewer[v].pc = "review",
         NEW n \in DOMAIN runs, NEW f \in DOMAIN runs[n].disposition,
         Reviews(v, n, f)
  PROVE  IInv'
<1>1. /\ \E S : runs' \in Seq(S)
      /\ \A m \in DOMAIN runs' : "disposition" \in DOMAIN runs'[m]
      /\ Findings' = Findings
      /\ runs'[n].disposition[f] = reviewer[v].disposition
      /\ \A id \in Findings : id # << n, f >> =>
           runs'[id[1]].disposition[id[2]] = runs[id[1]].disposition[id[2]]
  BY ReviewedRuns DEF IInv
<1> DEFINE row == [id |-> reviewer[v].id, previous |-> reviewer[v].expected,
                   disposition |-> reviewer[v].disposition]
<1>2. PICK S : reviews \in Seq(S) BY DEF IInv, TablesTyped
<1>3. /\ reviews' \in Seq(S \cup {row})
      /\ Len(reviews) \in Nat /\ DOMAIN reviews = 1 .. Len(reviews)
      /\ Len(reviews') = Len(reviews) + 1
      /\ DOMAIN reviews' = 1 .. (Len(reviews) + 1)
      /\ \A i \in DOMAIN reviews : reviews'[i] = reviews[i]
      /\ reviews'[Len(reviews) + 1] = row
  BY <1>2, Appending DEF Reviews
<1>4. /\ row.id = << n, f >> /\ row.previous = runs[n].disposition[f]
      /\ row.disposition = reviewer[v].disposition
      /\ << n, f >> \in Findings
  BY FindingIs DEF Reviews
<1>5. Waiting(v) /\ lock = v /\ lock' = lock /\ acknowledged' = acknowledged
  BY Critical DEF Reviews
<1>6. TablesTyped'
  <2>1. ASSUME NEW i \in DOMAIN reviews' PROVE reviews'[i].id \in Findings'
    <3>1. CASE i \in DOMAIN reviews
      BY <1>1, <1>3, <3>1 DEF IInv, TablesTyped
    <3>2. CASE i = Len(reviews) + 1
      BY <1>1, <1>3, <1>4, <3>2
    <3> QED BY <1>3, <3>1, <3>2
  <2> HIDE DEF row
  <2>2. \E T : reviews' \in Seq(T)
    BY <1>3
  <2> QED BY <1>1, <2>1, <2>2 DEF TablesTyped
<1>7. reviewer' = [reviewer EXCEPT ![v] = [reviewer[v] EXCEPT !.pc = "print"]]
  BY DEF Reviews
<1>8. /\ reviewer'[v] = [pc |-> "print", id |-> reviewer[v].id,
                         disposition |-> reviewer[v].disposition,
                         expected |-> reviewer[v].expected]
      /\ reviewer' = [u \in Reviewers |-> reviewer'[u]]
      /\ \A u \in Reviewers : u # v => reviewer'[u] = reviewer[u]
  BY <1>5, <1>7 DEF IInv, ReviewersTyped, Waiting
<1>9. ReviewersTyped'
  <2>1. ASSUME NEW u \in Reviewers
        PROVE  \/ reviewer'[u] = Idle
               \/ /\ Waiting(u)'
                  /\ reviewer'[u].pc \in {"lock", "review", "print"}
                  /\ reviewer'[u].id \in Findings
                  /\ reviewer'[u].pc # "lock" => lock' = u
    <3>1. CASE u = v
      BY <1>4, <1>5, <1>8, <3>1 DEF Waiting, Reviews
    <3>2. CASE u # v
      BY <1>5, <1>8, <3>2 DEF IInv, ReviewersTyped, Waiting
    <3> QED BY <3>1, <3>2
  <2> QED BY <1>1, <1>8, <2>1 DEF ReviewersTyped
<1>10. PrintsItsReview'
  <2>1. ASSUME NEW u \in Reviewers, reviewer'[u].pc = "print" PROVE u = v
    BY <1>5, <1>8, <2>1, Critical
  <2> QED BY <1>3, <1>8, <2>1 DEF PrintsItsReview
<1>11. ASSUME NEW i \in DOMAIN reviews'
       PROVE  Leaves(reviews', i - 1, reviews'[i].id, reviews'[i].previous)
  <2>1. CASE i \in DOMAIN reviews
    <3>1. Leaves(reviews, i - 1, reviews[i].id, reviews[i].previous)
      BY <2>1 DEF IInv, ReviewsAreAChain
    <3>2. i - 1 \in Nat /\ \A j \in 1 .. (i - 1) : reviews[j] = reviews'[j]
      BY <1>3, <2>1
    <3> QED BY <1>3, <2>1, <3>1, <3>2, SamePrefix
  <2>2. CASE i = Len(reviews) + 1
    <3>1. Leaves(reviews, Len(reviews), << n, f >>, runs[n].disposition[f])
      BY <1>4 DEF IInv, ReviewsAreAChain
    <3>2. \A j \in 1 .. Len(reviews) : reviews[j] = reviews'[j]
      BY <1>3
    <3>3. Leaves(reviews', Len(reviews), << n, f >>, runs[n].disposition[f])
      BY <1>3, <3>1, <3>2, SamePrefix
    <3>4. i - 1 = Len(reviews)
      BY <1>3, <2>2
    <3> HIDE DEF row
    <3> QED BY <1>3, <1>4, <2>2, <3>3, <3>4
  <2> QED BY <1>3, <2>1, <2>2
<1>12. ASSUME NEW id \in Findings
       PROVE  Leaves(reviews', Len(reviews'), id, runs'[id[1]].disposition[id[2]])
  <2>1. CASE id = << n, f >>
    <3>1. Leaves(reviews', Len(reviews) + 1, row.id, row.disposition)
      BY <1>3, OwnReview
    <3> HIDE DEF row
    <3> QED BY <1>1, <1>3, <1>4, <2>1, <3>1
  <2>2. CASE id # << n, f >>
    <3>1. Leaves(reviews, Len(reviews), id, runs'[id[1]].disposition[id[2]])
      BY <1>1, <2>2 DEF IInv, ReviewsAreAChain
    <3>2. \A j \in 1 .. Len(reviews) : reviews[j] = reviews'[j]
      BY <1>3
    <3>3. Leaves(reviews', Len(reviews), id, runs'[id[1]].disposition[id[2]])
      <4>1. Len(reviews) \in Nat
        BY <1>3
      <4>2. QED
        BY <3>1, <3>2, <4>1, SamePrefix
    <3>4. reviews'[Len(reviews) + 1].id # id
      BY <1>3, <1>4, <2>2
    <3> QED BY <1>3, <3>3, <3>4, OtherReview
  <2> QED BY <2>1, <2>2
<1>13. ASSUME NEW ack \in acknowledged'
       PROVE  /\ ack.review \in DOMAIN reviews'
              /\ reviews'[ack.review] = [id |-> ack.id, previous |-> ack.seen,
                                         disposition |-> ack.disposition]
  <2>1. /\ ack.review \in DOMAIN reviews
        /\ reviews[ack.review] = [id |-> ack.id, previous |-> ack.seen,
                                  disposition |-> ack.disposition]
    BY <1>5, AcknowledgedBefore
  <2> QED BY <1>3, <2>1
<1>14. ReviewsAreAChain'
  BY <1>1, <1>11, <1>12, <1>13 DEF ReviewsAreAChain
<1> QED BY <1>6, <1>9, <1>10, <1>14 DEF IInv

LEMMA ReviewFindingKeeps ==
  ASSUME IInv, NEW v \in Reviewers, review_finding(v) PROVE IInv'
<1>1. reviewer[v].pc = "review" /\ reviewer[v].id \in Findings
  BY Critical DEF review_finding
<1>2. PICK n \in DOMAIN runs :
        \E f \in DOMAIN runs[n].disposition : reviewer[v].id = << n, f >>
  BY <1>1, FindingIs
<1>3. PICK f \in DOMAIN runs[n].disposition : reviewer[v].id = << n, f >>
  BY <1>2
<1>4. CASE Conflict(runs[n].disposition[f], reviewer[v].expected,
                    reviewer[v].disposition)
  <2>1. LeaveReview(v) /\ UNCHANGED <<runs, reviews, acknowledged>>
    BY <1>3, <1>4 DEF review_finding
  <2> QED BY <2>1, AcknowledgedBefore, LeaveReviewKeeps
<1>5. CASE ~Conflict(runs[n].disposition[f], reviewer[v].expected,
                     reviewer[v].disposition)
  <2>1. runs[n].disposition[f] = reviewer[v].expected
    BY <1>5 DEF Conflict
  <2>2. Reviews(v, n, f)
    BY <1>3, <1>5, <2>1 DEF review_finding, Reviews
  <2> QED BY <1>1, <2>2, ReviewsKeep
<1> QED BY <1>4, <1>5

LEMMA AcknowledgeReviewKeeps ==
  ASSUME IInv, NEW v \in Reviewers, AcknowledgeReview(v) PROVE IInv'
<1> DEFINE ack == [review |-> Len(reviews), id |-> reviewer[v].id,
                   seen |-> reviewer[v].expected,
                   disposition |-> reviewer[v].disposition]
<1>1. /\ LeaveReview(v) /\ UNCHANGED <<runs, reviews>>
      /\ acknowledged' = acknowledged \cup {ack}
  BY DEF AcknowledgeReview
<1>2. /\ ack.review \in DOMAIN reviews
      /\ reviews[ack.review] = [id |-> ack.id, previous |-> ack.seen,
                                disposition |-> ack.disposition]
  BY DEF IInv, PrintsItsReview, AcknowledgeReview
<1> HIDE DEF ack
<1>3. \A a \in acknowledged' :
        /\ a.review \in DOMAIN reviews
        /\ reviews[a.review] = [id |-> a.id, previous |-> a.seen,
                                disposition |-> a.disposition]
  BY <1>1, <1>2 DEF IInv, ReviewsAreAChain
<1> QED BY <1>1, <1>3, LeaveReviewKeeps

LEMMA KillReviewKeeps ==
  ASSUME IInv, NEW v \in Reviewers, KillReview(v) PROVE IInv'
BY AcknowledgedBefore, LeaveReviewKeeps DEF KillReview

-----------------------------------------------------------------------------
(* The theorem                                                             *)

LEMMA InitIInv == Init => IInv
<1> SUFFICES ASSUME Init PROVE IInv
  OBVIOUS
<1>1. runs = << >> /\ reviews = << >> /\ acknowledged = {}
  BY DEF Init
<1>2. runs \in Seq({}) /\ reviews \in Seq({}) /\ DOMAIN runs = {} /\ DOMAIN reviews = {}
  BY <1>1
<1>3. Findings = {}
  BY <1>2, FindingIs
<1>4. TablesTyped
  BY <1>2 DEF TablesTyped
<1>5. ReviewersTyped
  BY DEF Init, ReviewersTyped
<1>6. PrintsItsReview
  BY DEF Init, PrintsItsReview, Idle
<1>7. ReviewsAreAChain
  BY <1>1, <1>2, <1>3 DEF ReviewsAreAChain
<1> QED BY <1>4, <1>5, <1>6, <1>7 DEF IInv

LEMMA NextIInv == IInv /\ [Next]_vars => IInv'
<1> SUFFICES ASSUME IInv, [Next]_vars PROVE IInv'
  OBVIOUS
<1>1. ASSUME NEW w \in Analyzers,
             \/ Begin(w) \/ HostStep(w) \/ ChildStep(w) \/ DeadlinePasses(w)
             \/ DownloadFails(w) \/ WriteFails(w) \/ Kill(w)
      PROVE  IInv'
  BY <1>1, AnalyzerIsApart, ApartKeeps
<1>2. ASSUME NEW r \in Readers, SelectFinding(r) \/ ReadArtifact(r) PROVE IInv'
  BY <1>2, ReaderIsApart, ApartKeeps
<1>3. ASSUME NEW v \in Reviewers, Look(v) \/ ReviewStep(v) \/ KillReview(v)
      PROVE  IInv'
  BY <1>3, LookKeeps, OpenCatalogKeeps, ReviewFindingKeeps,
     AcknowledgeReviewKeeps, KillReviewKeeps DEF ReviewStep
<1>4. CASE UNCHANGED vars
  <2>1. Apart
    BY <1>4, KeepingIsApart DEF vars
  <2> QED BY <2>1, ApartKeeps
<1> QED BY <1>1, <1>2, <1>3, <1>4 DEF Next

\* However analyzers, readers and reviewers interleave and are killed, the audit
\* trail of every finding is a chain from unreviewed to its disposition, and
\* every review that was reported is in it (review_finding).
THEOREM ReviewsFormAChain == Spec => []ReviewsAreAChain
<1>1. IInv => ReviewsAreAChain
  BY DEF IInv
<1> QED BY InitIInv, NextIInv, <1>1, PTL DEF Spec

-----------------------------------------------------------------------------
(* Types, the lock and the evidence: the inductive invariant               *)

\* The members of an analysis's state at each step, between its start and end.
Members(pc) ==
  IF pc = "idle" THEN {"pc"}
  ELSE IF pc \in {"lock", "metadata"}
    THEN {"pc", "declaration", "force", "package", "rules"}
  ELSE IF pc = "artifact"
    THEN {"pc", "document", "release", "force", "package", "rules"}
  ELSE IF pc \in {"await", "answer"}
    THEN {"pc", "artifact", "document", "package", "rules"}
  ELSE {"pc", "next", "answer", "artifact", "document", "package", "rules"}

Child == [state : {"none", "running", "closed", "exited", "broken"},
          unread : Nat, read : 0 .. MaxOutput, late : BOOLEAN]

Outside == {"idle", "lock"}
Attached == {"await", "answer"}
Writing == {"truncate", "fill", "commit"}

\* What the worker answers for an archive by some rules.
Answered(registry, a, document, result) ==
  /\ a \in Artifacts /\ document \in Rules
  /\ result = analyze_package_tarball_bytes(registry, Archives[a], document)
  /\ result.ok

\* An analysis that writes has an answer for its artifact by the rules it
\* loaded.
Holds(r) ==
  r.pc \in Writing =>
    /\ \E registry : Answered(registry, r.artifact, r.rules, r.answer)
    /\ r.answer.ruleset = r.rules.version
    /\ r.next \in DOMAIN EvidenceNames
    /\ r.pc = "commit" => r.next = Len(EvidenceNames)

\* A state r of an analysis with what it has of its worker.
Placed(r, c) ==
  /\ r.pc \in States /\ Members(r.pc) \subseteq DOMAIN r
  /\ c \in Child
  /\ c.state # "none" <=> r.pc \in Attached
  /\ Holds(r)

AnalyzersTyped ==
  /\ analyzer = [w \in Analyzers |-> analyzer[w]]
  /\ child = [w \in Analyzers |-> child[w]]
  /\ \A w \in Analyzers : Placed(analyzer[w], child[w])

\* Who holds the lock is past waiting for it, and has set the schema version.
Locking ==
  /\ \A w \in Analyzers : lock = w <=> analyzer[w].pc \notin Outside
  /\ \A v \in Reviewers : lock = v <=> reviewer[v].pc \in {"review", "print"}
  /\ schema \in {1, 2, 3}
  /\ runs # << >> \/ lock \in Analyzers => schema = 3

EvidenceTyped ==
  /\ evidence = [a \in Artifacts |-> evidence[a]]
  /\ \A a \in Artifacts : DOMAIN evidence[a] = Names

Counted == faults \in 0 .. MaxFaults /\ starts \in 0 .. MaxStarts

\* A completed run is what a worker answered for its artifact, without a path
\* twice; a failed one holds nothing.
Completed(run) ==
  /\ run.status = "completed" /\ run.stage = ""
  /\ DOMAIN run.evidence = Names
  /\ ~Duplicate(run.files)
  /\ \E registry, a, document, result :
       /\ Answered(registry, a, document, result)
       /\ run.artifact = {a} /\ run.ruleset = document.version
       /\ run.files = result.files
       /\ DOMAIN run.disposition = result.findings

Failed(run) ==
  /\ run.status = "failed" /\ run.stage # ""
  /\ run.evidence = << >> /\ run.files = << >>
  /\ DOMAIN run.disposition = {}
  /\ run.artifact = {} \/ \E a : run.artifact = {a}

RunMembers == {"package", "status", "ruleset", "artifact", "stage", "message",
               "files", "disposition", "evidence"}
Row(run) == RunMembers \subseteq DOMAIN run /\ (Completed(run) \/ Failed(run))

RowsTyped == \A n \in DOMAIN runs : Row(runs[n])

TypeInv ==
  AnalyzersTyped /\ Locking /\ EvidenceTyped /\ Counted /\ RowsTyped

-----------------------------------------------------------------------------
(* The steps of an analysis                                                *)

Moves(w, r, c) ==
  /\ analyzer' = [analyzer EXCEPT ![w] = r]
  /\ child' = [child EXCEPT ![w] = c]
  /\ Placed(r, c)

\* At most one run more.
Inserts(w) ==
  \/ runs' = runs
  \/ lock = w /\ \E run : Row(run) /\ runs' = Append(runs, run)

LEMMA RowsKept ==
  ASSUME TablesTyped, RowsTyped, NEW w, Inserts(w)
  PROVE  RowsTyped' /\ (runs' # << >> => runs # << >> \/ lock = w)
<1>1. CASE runs' = runs
  BY <1>1 DEF RowsTyped
<1>2. ASSUME NEW run, Row(run), lock = w, runs' = Append(runs, run)
      PROVE  RowsTyped'
  <2>1. PICK S : runs \in Seq(S)
    BY DEF TablesTyped
  <2>2. /\ DOMAIN runs = 1 .. Len(runs) /\ Len(runs) \in Nat
        /\ DOMAIN runs' = 1 .. (Len(runs) + 1)
        /\ \A n \in DOMAIN runs : runs'[n] = runs[n]
        /\ runs'[Len(runs) + 1] = run
    BY <1>2, <2>1, Appending
  <2>3. \A n \in DOMAIN runs' : n \in DOMAIN runs \/ n = Len(runs) + 1
    BY <2>2
  <2> QED BY <1>2, <2>2, <2>3 DEF RowsTyped
<1> QED BY <1>1, <1>2 DEF Inserts

\* A step of one analysis, which has the lock outside of idle and lock.
LEMMA AnalyzerStep ==
  ASSUME TypeInv, TablesTyped, NEW w \in Analyzers, NEW r, NEW c, Moves(w, r, c),
         lock' = IF r.pc \in Outside THEN IF lock = w THEN Free ELSE lock ELSE w,
         r.pc \notin Outside => lock \in {Free, w},
         schema' \in {schema, 3}, lock = w \/ lock' # w \/ schema' = 3,
         reviewer' = reviewer, Inserts(w), EvidenceTyped', Counted'
  PROVE  TypeInv'
<1>1. /\ analyzer = [u \in Analyzers |-> analyzer[u]]
      /\ child = [u \in Analyzers |-> child[u]]
      /\ \A u \in Analyzers : Placed(analyzer[u], child[u])
  BY DEF TypeInv, AnalyzersTyped
<1>2. /\ analyzer' = [u \in Analyzers |-> analyzer'[u]] /\ analyzer'[w] = r
      /\ child' = [u \in Analyzers |-> child'[u]] /\ child'[w] = c
      /\ \A u \in Analyzers : u # w =>
           analyzer'[u] = analyzer[u] /\ child'[u] = child[u]
  BY <1>1 DEF Moves
<1>3. AnalyzersTyped'
  <2>1. \A u \in Analyzers : Placed(analyzer'[u], child'[u])
    BY <1>1, <1>2 DEF Moves
  <2> QED BY <1>2, <2>1 DEF AnalyzersTyped
<1>4. w # Free /\ Free \notin Reviewers /\ w \notin Reviewers /\ Free \notin Analyzers
  BY ActorsAssumption
<1>5. /\ \A u \in Analyzers : lock = u <=> analyzer[u].pc \notin Outside
      /\ \A v \in Reviewers : lock = v <=> reviewer[v].pc \in {"review", "print"}
      /\ schema \in {1, 2, 3}
      /\ runs # << >> \/ lock \in Analyzers => schema = 3
  BY DEF TypeInv, Locking
<1>6. \A u \in Analyzers : lock' = u <=> analyzer'[u].pc \notin Outside
  <2>1. ASSUME NEW u \in Analyzers, u # w
        PROVE  lock' = u <=> lock = u
    BY <1>4, <2>1
  <2> QED BY <1>2, <1>4, <1>5, <2>1
<1>7. \A v \in Reviewers : lock' = v <=> lock = v
  BY <1>4
<1>8. schema' \in {1, 2, 3}
  BY <1>5
<1>9. runs' # << >> \/ lock' \in Analyzers => schema' = 3
  <2>1. lock' \in Analyzers => lock \in Analyzers \/ schema' = 3
    BY <1>4
  <2>2. runs' # << >> => runs # << >> \/ lock \in Analyzers
    BY RowsKept DEF TypeInv
  <2> QED BY <1>5, <2>1, <2>2
<1>10. Locking'
  BY <1>5, <1>6, <1>7, <1>8, <1>9 DEF Locking
<1>11. RowsTyped'
  BY RowsKept DEF TypeInv
<1> QED BY <1>3, <1>10, <1>11 DEF TypeInv

\* The end of an analysis gives the lock up if it has it.
LEMMA LeaveStep ==
  ASSUME TypeInv, TablesTyped, NEW w \in Analyzers, Leave(w),
         reviewer' = reviewer, schema' = schema, Inserts(w),
         EvidenceTyped', Counted'
  PROVE  TypeInv'
<1>1. Moves(w, Idle, NoChild)
  <2>1. NoChild \in Child
    BY BoundAssumption DEF NoChild, Child
  <2>2. Idle.pc = "idle" /\ NoChild.state = "none"
    BY DEF Idle, NoChild
  <2>3. Placed(Idle, NoChild)
    BY <2>1, <2>2 DEF Placed, Idle, States, Members, Attached, Holds, Writing
  <2> QED BY <2>3 DEF Leave, Moves
<1>2. Idle.pc \in Outside
  BY DEF Idle, Outside
<1>3. lock' = IF lock = w THEN Free ELSE lock
  BY DEF Leave
<1>4. lock = w \/ lock' # w
  BY <1>3
<1> QED BY <1>1, <1>2, <1>3, <1>4, AnalyzerStep

\* An analysis past the wait has the lock.
LEMMA InItsPlace ==
  ASSUME TypeInv, NEW w \in Analyzers
  PROVE  /\ Placed(analyzer[w], child[w])
         /\ lock = w <=> analyzer[w].pc \notin Outside
         /\ analyzer = [u \in Analyzers |-> analyzer[u]]
         /\ child = [u \in Analyzers |-> child[u]]
BY DEF TypeInv, AnalyzersTyped, Locking

LEMMA Empty ==
  ASSUME NEW seq, seq = << >> PROVE DOMAIN seq = {}
<1>1. seq \in Seq({}) /\ DOMAIN seq = {}
  OBVIOUS
<1> QED BY <1>1

LEMMA FailedRow ==
  ASSUME NEW w, NEW stage, stage # "", NEW artifact, NEW message,
         artifact = {} \/ \E a : artifact = {a}
  PROVE  Row(FailedRun(w, stage, artifact, message))
<1> DEFINE run == FailedRun(w, stage, artifact, message)
<1>1. /\ DOMAIN run = RunMembers /\ run.status = "failed" /\ run.stage = stage
      /\ run.evidence = << >> /\ run.files = << >> /\ run.disposition = << >>
      /\ run.artifact = artifact
  BY DEF FailedRun, RunMembers
<1> HIDE DEF run
<1>3. DOMAIN run.disposition = {}
  BY <1>1, Empty
<1>4. Row(run)
  BY <1>1, <1>3 DEF Row, Failed
<1> QED BY <1>4 DEF run

LEMMA FailureStep ==
  ASSUME TypeInv, TablesTyped, NEW w \in Analyzers, analyzer[w].pc \notin Outside,
         NEW stage, stage # "", NEW artifact, NEW message,
         artifact = {} \/ \E a : artifact = {a},
         insert_failed_run(w, stage, artifact, message),
         reviewer' = reviewer, schema' = schema, EvidenceTyped', Counted'
  PROVE  TypeInv'
<1>1. lock = w
  BY InItsPlace
<1>2. Row(FailedRun(w, stage, artifact, message))
  BY FailedRow
<1>3. Inserts(w)
  BY <1>1, <1>2 DEF insert_failed_run, Inserts
<1> QED BY <1>3, LeaveStep DEF insert_failed_run

LEMMA EvidenceKept ==
  ASSUME TypeInv, evidence' = evidence PROVE EvidenceTyped'
BY DEF TypeInv, EvidenceTyped

LEMMA CountersKept ==
  ASSUME TypeInv,
         \/ faults' = faults
         \/ Fault,
         starts' = starts
  PROVE  Counted'
BY BoundAssumption DEF TypeInv, Counted, Fault

\* A step within an analysis that has the lock, before and after.
LEMMA InsideStep ==
  ASSUME TypeInv, TablesTyped, NEW w \in Analyzers, NEW r, NEW c,
         analyzer[w].pc \notin Outside, r.pc \notin Outside, Moves(w, r, c),
         UNCHANGED <<lock, schema, reviewer, runs>>, EvidenceTyped', Counted'
  PROVE  TypeInv'
<1>1. lock = w
  BY InItsPlace
<1> QED BY <1>1, AnalyzerStep DEF Inserts

LEMMA BeginTyped ==
  ASSUME TypeInv, TablesTyped, NEW w \in Analyzers, Begin(w) PROVE TypeInv'
<1>1. PICK d \in Declarations, document \in Rules, force \in BOOLEAN :
        LET resolved == resolve_exact_package(Rows[d])
            loaded == load_analysis_rules(document)
        IN \/ analyzer' = [analyzer EXCEPT ![w] =
                [pc |-> "lock", declaration |-> d, force |-> force,
                 package |-> resolved.package, rules |-> loaded.rules]]
           \/ analyzer' = analyzer
  BY DEF Begin
<1>2. EvidenceTyped' /\ Counted'
  BY EvidenceKept, BoundAssumption DEF Begin, Counted, TypeInv
<1>3. /\ analyzer[w] = Idle /\ lock # w
      /\ UNCHANGED <<lock, schema, reviewer, runs, child>>
  BY InItsPlace DEF Begin, Outside, Idle
<1>4. CASE analyzer' = analyzer
  <2>1. Moves(w, Idle, child[w])
    BY <1>3, <1>4, InItsPlace DEF Moves
  <2> QED BY <1>2, <1>3, <2>1, AnalyzerStep DEF Inserts, Idle, Outside
<1>5. ASSUME NEW package, NEW rules,
             analyzer' = [analyzer EXCEPT ![w] =
               [pc |-> "lock", declaration |-> d, force |-> force,
                package |-> package, rules |-> rules]]
      PROVE  TypeInv'
  <2> DEFINE r == [pc |-> "lock", declaration |-> d, force |-> force,
                   package |-> package, rules |-> rules]
  <2>1. r.pc = "lock" /\ Members("lock") \subseteq DOMAIN r
    BY DEF Members
  <2>2. analyzer' = [analyzer EXCEPT ![w] = r]
    BY <1>5
  <2> HIDE DEF r
  <2>3. child[w] \in Child /\ child[w].state = "none"
    BY <1>3, InItsPlace DEF Placed, Idle, Attached
  <2>4. Placed(r, child[w])
    BY <2>1, <2>3 DEF Placed, States, Attached, Holds, Writing
  <2>5. Moves(w, r, child[w])
    BY <1>3, <2>2, <2>4, InItsPlace DEF Moves
  <2> QED BY <1>2, <1>3, <2>1, <2>5, AnalyzerStep DEF Inserts, Outside
<1> QED BY <1>1, <1>4, <1>5

LEMMA AcquireTyped ==
  ASSUME TypeInv, TablesTyped, NEW w \in Analyzers, Acquire(w) PROVE TypeInv'
<1> DEFINE r == [analyzer[w] EXCEPT !.pc = "metadata"]
<1>1. analyzer[w].pc = "lock" /\ Placed(analyzer[w], child[w])
  BY InItsPlace DEF Acquire
<1>2. r.pc = "metadata" /\ DOMAIN r = DOMAIN analyzer[w]
  BY <1>1 DEF Placed, Members
<1>3. analyzer' = [analyzer EXCEPT ![w] = r]
  BY DEF Acquire
<1> HIDE DEF r
<1>4. Placed(r, child[w])
  BY <1>1, <1>2 DEF Placed, States, Members, Attached, Holds, Writing
<1>5. Moves(w, r, child[w])
  BY <1>3, <1>4, InItsPlace DEF Acquire, Moves
<1>6. EvidenceTyped' /\ Counted'
  BY EvidenceKept, CountersKept DEF Acquire
<1>7. lock = Free /\ lock' = w /\ schema' = 3 /\ UNCHANGED <<reviewer, runs>>
  BY DEF Acquire, people
<1> QED BY <1>2, <1>5, <1>6, <1>7, AnalyzerStep DEF Inserts, Outside

LEMMA FetchMetadataTyped ==
  ASSUME TypeInv, TablesTyped, NEW w \in Analyzers, FetchMetadata(w)
  PROVE  TypeInv'
<1>1. /\ analyzer[w].pc = "metadata" /\ analyzer[w].pc \notin Outside
      /\ UNCHANGED <<schema, reviewer>>
  BY DEF FetchMetadata, people, Outside
<1>2. EvidenceTyped' /\ Counted'
  BY EvidenceKept, CountersKept DEF FetchMetadata
<1>3. CASE Leave(w) /\ UNCHANGED runs
  BY <1>1, <1>2, <1>3, LeaveStep DEF Inserts
<1>4. CASE insert_failed_run(w, "parse_metadata", {}, "")
  BY <1>1, <1>2, <1>4, FailureStep
<1>5. ASSUME NEW document, NEW release,
             analyzer' = [analyzer EXCEPT ![w] =
               [pc |-> "artifact", document |-> document, release |-> release,
                force |-> @.force, package |-> @.package, rules |-> @.rules]],
             UNCHANGED <<runs, lock, child>>
      PROVE  TypeInv'
  <2> DEFINE r == [pc |-> "artifact", document |-> document, release |-> release,
                   force |-> analyzer[w].force, package |-> analyzer[w].package,
                   rules |-> analyzer[w].rules]
  <2>1. r.pc = "artifact" /\ Members("artifact") \subseteq DOMAIN r
    BY DEF Members
  <2>2. analyzer' = [analyzer EXCEPT ![w] = r]
    BY <1>5
  <2> HIDE DEF r
  <2>3. child[w] \in Child /\ child[w].state = "none"
    BY <1>1, InItsPlace DEF Placed, Attached
  <2>4. Placed(r, child[w])
    BY <2>1, <2>3 DEF Placed, States, Attached, Holds, Writing
  <2>5. Moves(w, r, child[w])
    BY <1>5, <2>2, <2>4, InItsPlace DEF Moves
  <2> QED BY <1>1, <1>2, <1>5, <2>1, <2>5, InsideStep DEF Outside
<1> QED
  <2>1. CASE ~Nameable(analyzer[w].package)
    BY <1>3, <2>1 DEF FetchMetadata
  <2>2. CASE Nameable(analyzer[w].package)
    BY <1>3, <1>4, <1>5, <2>2 DEF FetchMetadata
  <2> QED BY <2>1, <2>2

LEMMA DownloadFailsTyped ==
  ASSUME TypeInv, TablesTyped, NEW w \in Analyzers, DownloadFails(w)
  PROVE  TypeInv'
<1>1. EvidenceTyped' /\ Counted' /\ UNCHANGED <<schema, reviewer>>
  BY EvidenceKept, CountersKept DEF DownloadFails, people
<1>2. analyzer[w].pc \notin Outside
  BY DEF DownloadFails, Outside
<1> QED BY <1>1, <1>2, FailureStep DEF DownloadFails

LEMMA FetchArtifactTyped ==
  ASSUME TypeInv, TablesTyped, NEW w \in Analyzers, FetchArtifact(w)
  PROVE  TypeInv'
<1> DEFINE artifact == analyzer[w].release.url.artifact
<1>1. /\ analyzer[w].pc = "artifact" /\ analyzer[w].pc \notin Outside
      /\ UNCHANGED <<schema, reviewer>>
  BY DEF FetchArtifact, people, Outside
<1>2. EvidenceTyped' /\ Counted'
  BY EvidenceKept, CountersKept DEF FetchArtifact
<1>3. CASE Leave(w) /\ UNCHANGED runs
  BY <1>1, <1>2, <1>3, LeaveStep DEF Inserts
<1>4. CASE insert_failed_run(w, "integrity", {artifact}, "")
  BY <1>1, <1>2, <1>4, FailureStep
<1>5. CASE /\ analyzer' = [analyzer EXCEPT ![w] =
                [pc |-> "await", artifact |-> artifact, document |-> @.document,
                 package |-> @.package, rules |-> @.rules]]
           /\ child' = [child EXCEPT ![w].state = "running"]
           /\ UNCHANGED <<runs, lock>>
  <2> DEFINE r == [pc |-> "await", artifact |-> artifact,
                   document |-> analyzer[w].document,
                   package |-> analyzer[w].package, rules |-> analyzer[w].rules]
             c == [child[w] EXCEPT !.state = "running"]
  <2>1. r.pc = "await" /\ Members("await") \subseteq DOMAIN r
    BY DEF Members
  <2>2. analyzer' = [analyzer EXCEPT ![w] = r] /\ child' = [child EXCEPT ![w] = c]
    BY <1>5
  <2>3. c \in Child /\ c.state = "running"
    BY InItsPlace DEF Placed, Child
  <2> HIDE DEF r, c
  <2>4. Placed(r, c)
    BY <2>1, <2>3 DEF Placed, States, Attached, Holds, Writing
  <2>5. Moves(w, r, c)
    BY <2>2, <2>4 DEF Moves
  <2> QED BY <1>1, <1>2, <1>5, <2>1, <2>5, InsideStep DEF Outside
<1> QED BY <1>3, <1>4, <1>5 DEF FetchArtifact

-----------------------------------------------------------------------------
(* The worker, the wait for it and its answer                              *)

LEMMA ChildMoves ==
  ASSUME TypeInv, TablesTyped, NEW w \in Analyzers, NEW c,
         analyzer[w].pc \in Attached, c \in Child, c.state # "none",
         child' = [child EXCEPT ![w] = c],
         UNCHANGED <<analyzer, lock, schema, reviewer, runs>>,
         EvidenceTyped', Counted'
  PROVE  TypeInv'
<1>1. Placed(analyzer[w], c)
  BY InItsPlace DEF Placed
<1>2. Moves(w, analyzer[w], c)
  BY <1>1, InItsPlace DEF Moves
<1> QED BY <1>2, InsideStep DEF Attached, Outside

LEMMA ChildTyped ==
  ASSUME TypeInv, TablesTyped, NEW w \in Analyzers,
         ChildStep(w) \/ DeadlinePasses(w)
  PROVE  TypeInv'
<1>1. /\ analyzer[w].pc \in Attached
      /\ UNCHANGED <<analyzer, lock, schema, reviewer, runs>>
  BY DEF ChildStep, ChildWrites, ChildCloses, ChildExits, DeadlinePasses,
         Working, Attached, people
<1>2. EvidenceTyped'
  BY EvidenceKept DEF ChildStep, ChildWrites, ChildCloses, ChildExits, DeadlinePasses
<1>3. Counted'
  BY CountersKept DEF ChildStep, ChildWrites, ChildCloses, ChildExits, DeadlinePasses
<1>4. child[w] \in Child /\ child[w].state # "none"
  BY <1>1, InItsPlace DEF Placed
<1>5. PICK c : child' = [child EXCEPT ![w] = c] /\ c \in Child /\ c.state # "none"
  <2>1. /\ [child[w] EXCEPT !.unread = @ + 1] \in Child
        /\ [child[w] EXCEPT !.unread = @ + 1].state = child[w].state
    BY <1>4 DEF Child
  <2>2. ASSUME NEW state \in {"closed", "exited", "broken"}
        PROVE  /\ [child[w] EXCEPT !.state = state] \in Child
               /\ [child[w] EXCEPT !.state = state].state # "none"
    BY <1>4, <2>2 DEF Child
  <2>3. /\ [child[w] EXCEPT !.late = TRUE] \in Child
        /\ [child[w] EXCEPT !.late = TRUE].state = child[w].state
    BY <1>4 DEF Child
  <2>4. CASE ChildWrites(w)    BY <1>4, <2>1, <2>4 DEF ChildWrites
  <2>5. CASE ChildCloses(w)    BY <2>2, <2>5 DEF ChildCloses
  <2>6. CASE ChildExits(w)     BY <2>2, <2>6 DEF ChildExits
  <2>7. CASE DeadlinePasses(w) BY <1>4, <2>3, <2>7 DEF DeadlinePasses
  <2> QED BY <2>4, <2>5, <2>6, <2>7 DEF ChildStep
<1> QED BY <1>1, <1>2, <1>3, <1>5, ChildMoves

LEMMA RunCommandTyped ==
  ASSUME TypeInv, TablesTyped, NEW w \in Analyzers, run_command(w)
  PROVE  TypeInv'
<1>1. /\ analyzer[w].pc = "await" /\ analyzer[w].pc \notin Outside
      /\ UNCHANGED <<schema, reviewer>>
  BY DEF run_command, people, Outside
<1>2. EvidenceTyped' /\ Counted'
  BY EvidenceKept, CountersKept DEF run_command
<1>3. CASE GivesUp(w)
  BY <1>1, <1>2, <1>3, FailureStep DEF run_command
<1>4. CASE ~GivesUp(w)
  <2> DEFINE c == [child[w] EXCEPT !.read = @ + child[w].unread, !.unread = 0]
             r == [analyzer[w] EXCEPT !.pc = "answer"]
  <2>1. /\ child[w] \in Child /\ child[w].state # "none"
        /\ Members("await") \subseteq DOMAIN analyzer[w]
    BY <1>1, InItsPlace DEF Placed, Attached
  <2>2. c \in Child /\ c.state = child[w].state
    <3>1. MaxOutput \in Nat /\ child[w].read \in Nat /\ child[w].unread \in Nat
      BY <2>1, BoundAssumption DEF Child
    <3>2. child[w].read + child[w].unread \in 0 .. MaxOutput
      BY <1>4, <3>1 DEF GivesUp, TooMuch
    <3> QED BY <2>1, <3>2 DEF Child
  <2>3. r.pc = "answer" /\ DOMAIN r = DOMAIN analyzer[w]
    BY <2>1 DEF Members
  <2>4. /\ child' = [child EXCEPT ![w] = c] /\ UNCHANGED <<runs, lock>>
        /\ analyzer' = [analyzer EXCEPT ![w] = r] \/ analyzer' = analyzer
    BY <1>4 DEF run_command
  <2> HIDE DEF c, r
  <2>5. CASE analyzer' = analyzer
    <3>1. analyzer[w].pc \in Attached
      BY <1>1 DEF Attached
    <3> QED BY <1>1, <1>2, <2>1, <2>2, <2>4, <2>5, <3>1, ChildMoves
  <2>6. CASE analyzer' = [analyzer EXCEPT ![w] = r]
    <3>1. Placed(r, c)
      BY <2>1, <2>2, <2>3 DEF Placed, States, Members, Attached, Holds, Writing
    <3>2. Moves(w, r, c)
      BY <2>4, <2>6, <3>1 DEF Moves
    <3> QED BY <1>1, <1>2, <2>3, <2>4, <3>2, InsideStep DEF Outside
  <2> QED BY <2>4, <2>5, <2>6
<1> QED BY <1>3, <1>4

LEMMA WorkerAnswered ==
  ASSUME NEW w, NEW result \in Worked(w), result.ok
  PROVE  \E registry : Answered(registry, analyzer[w].artifact, analyzer[w].rules, result)
<1>1. PICK x \in Answers : /\ x.artifact = analyzer[w].artifact
                           /\ x.rules = analyzer[w].rules
                           /\ x.result = result
  BY DEF Worked
<1>2. PICK registry \in {"npm", "pypi"}, a \in Artifacts, document \in Rules :
        x = [registry |-> registry, artifact |-> a, rules |-> document,
             result |-> analyze_package_tarball_bytes(registry, Archives[a], document)]
  BY DEF Answers
<1>3. /\ analyzer[w].artifact = a /\ analyzer[w].rules = document
      /\ result = analyze_package_tarball_bytes(registry, Archives[a], document)
  BY <1>1, <1>2
<1> QED BY <1>3 DEF Answered

LEMMA DockerWorkerTyped ==
  ASSUME TypeInv, TablesTyped, NEW w \in Analyzers, docker_worker(w)
  PROVE  TypeInv'
<1>1. /\ analyzer[w].pc = "answer" /\ analyzer[w].pc \notin Outside
      /\ UNCHANGED <<schema, reviewer>>
  BY DEF docker_worker, people, Outside
<1>2. EvidenceTyped' /\ Counted'
  BY EvidenceKept, CountersKept DEF docker_worker
<1>3. ASSUME NEW message,
             insert_failed_run(w, "analyze_container", {analyzer[w].artifact}, message)
      PROVE  TypeInv'
  BY <1>1, <1>2, <1>3, FailureStep
<1>4. CASE Leave(w) /\ UNCHANGED runs
  BY <1>1, <1>2, <1>4, LeaveStep DEF Inserts
<1>5. ASSUME NEW answer \in Worked(w), answer.ok,
             answer.ruleset = analyzer[w].rules.version,
             analyzer' = [analyzer EXCEPT ![w] =
               [pc |-> "truncate", next |-> 1, answer |-> answer,
                artifact |-> @.artifact, document |-> @.document,
                package |-> @.package, rules |-> @.rules]],
             child' = [child EXCEPT ![w] = NoChild], UNCHANGED <<runs, lock>>
      PROVE  TypeInv'
  <2> DEFINE r == [pc |-> "truncate", next |-> 1, answer |-> answer,
                   artifact |-> analyzer[w].artifact,
                   document |-> analyzer[w].document,
                   package |-> analyzer[w].package, rules |-> analyzer[w].rules]
  <2>1. /\ r.pc = "truncate" /\ Members("truncate") \subseteq DOMAIN r
        /\ r.next = 1 /\ r.answer = answer /\ r.artifact = analyzer[w].artifact
        /\ r.rules = analyzer[w].rules
    BY DEF Members
  <2>2. analyzer' = [analyzer EXCEPT ![w] = r]
    BY <1>5
  <2> HIDE DEF r
  <2>3. NoChild \in Child /\ NoChild.state = "none"
    BY BoundAssumption DEF NoChild, Child
  <2>4. 1 \in DOMAIN EvidenceNames
    BY DEF EvidenceNames
  <2>5. \E registry : Answered(registry, r.artifact, r.rules, r.answer)
    BY <1>5, <2>1, WorkerAnswered
  <2>6. Placed(r, NoChild)
    BY <1>5, <2>1, <2>3, <2>4, <2>5 DEF Placed, States, Attached, Holds
  <2>7. Moves(w, r, NoChild)
    BY <1>5, <2>2, <2>6 DEF Moves
  <2> QED BY <1>1, <1>2, <1>5, <2>1, <2>7, InsideStep DEF Outside
<1> QED
  <2>1. PICK result \in Worked(w) :
          LET answer == parse_analyzer_worker_json(result)
          IN \/ \E message : insert_failed_run(w, "analyze_container",
                               {analyzer[w].artifact}, message)
             \/ Leave(w) /\ UNCHANGED runs
             \/ /\ answer.ok /\ result.ok
                /\ answer.ruleset = analyzer[w].rules.version
                /\ analyzer' = [analyzer EXCEPT ![w] =
                     [pc |-> "truncate", next |-> 1, answer |-> answer,
                      artifact |-> @.artifact, document |-> @.document,
                      package |-> @.package, rules |-> @.rules]]
                /\ child' = [child EXCEPT ![w] = NoChild]
                /\ UNCHANGED <<runs, lock>>
    BY DEF docker_worker
  <2>2. parse_analyzer_worker_json(result).ok =>
          parse_analyzer_worker_json(result) = result
    BY DEF parse_analyzer_worker_json, Bad
  <2> QED BY <1>3, <1>4, <1>5, <2>1, <2>2

-----------------------------------------------------------------------------
(* Evidence and commit                                                     *)

LEMMA NamesAre ==
  /\ DOMAIN EvidenceNames = 1 .. 4 /\ Len(EvidenceNames) = 4
  /\ \A i \in 1 .. 4 : EvidenceNames[i] \in Names
BY DEF EvidenceNames, Names

\* What an analysis that writes knows.
LEMMA Writer ==
  ASSUME TypeInv, NEW w \in Analyzers, analyzer[w].pc \in Writing
  PROVE  /\ analyzer[w].pc \notin Outside
         /\ Members("truncate") \subseteq DOMAIN analyzer[w]
         /\ child[w].state = "none" /\ child[w] \in Child
         /\ analyzer[w].artifact \in Artifacts
         /\ analyzer[w].next \in 1 .. 4 /\ Current(w) \in Names
         /\ Holds(analyzer[w])
<1>1. Placed(analyzer[w], child[w])
  BY InItsPlace
<1>2. /\ analyzer[w].pc \notin Outside /\ analyzer[w].pc \notin Attached
      /\ Members(analyzer[w].pc) = Members("truncate")
  BY DEF Writing, Outside, Attached, Members
<1>3. Holds(analyzer[w])
  BY <1>1 DEF Placed
<1>4. analyzer[w].artifact \in Artifacts /\ analyzer[w].next \in 1 .. 4
  BY <1>3, NamesAre DEF Holds, Answered
<1>5. Current(w) \in Names
  BY <1>4, NamesAre DEF Current
<1> QED BY <1>1, <1>2, <1>3, <1>4, <1>5 DEF Placed

LEMMA OneFile ==
  ASSUME TypeInv, NEW a \in Artifacts, NEW name \in Names, NEW file,
         evidence' = [evidence EXCEPT ![a][name] = file]
  PROVE  /\ EvidenceTyped'
         /\ evidence'[a][name] = file
         /\ \A other \in Names \ {name} : evidence'[a][other] = evidence[a][other]
         /\ \A b \in Artifacts \ {a} : evidence'[b] = evidence[b]
<1> DEFINE files == [evidence[a] EXCEPT ![name] = file]
<1>1. /\ evidence = [b \in Artifacts |-> evidence[b]]
      /\ \A b \in Artifacts : DOMAIN evidence[b] = Names
  BY DEF TypeInv, EvidenceTyped
<1>2. /\ DOMAIN files = Names /\ files[name] = file
      /\ \A other \in Names \ {name} : files[other] = evidence[a][other]
  BY <1>1
<1>3. evidence' = [evidence EXCEPT ![a] = files]
  OBVIOUS
<1> HIDE DEF files
<1>4. /\ evidence' = [b \in Artifacts |-> evidence'[b]] /\ evidence'[a] = files
      /\ \A b \in Artifacts \ {a} : evidence'[b] = evidence[b]
  BY <1>1, <1>3
<1>5. \A b \in Artifacts : DOMAIN evidence'[b] = Names
  BY <1>1, <1>2, <1>4
<1> QED BY <1>2, <1>4, <1>5 DEF EvidenceTyped

\* A step within the writing of the evidence: the answer stays.
Continues(w, r) ==
  /\ r.pc \in Writing /\ Members("truncate") \subseteq DOMAIN r
  /\ r.next \in 1 .. 4 /\ (r.pc = "commit" => r.next = 4)
  /\ r.answer = analyzer[w].answer /\ r.artifact = analyzer[w].artifact
  /\ r.rules = analyzer[w].rules /\ r.document = analyzer[w].document

LEMMA WritingStep ==
  ASSUME TypeInv, TablesTyped, NEW w \in Analyzers, analyzer[w].pc \in Writing,
         NEW r, Continues(w, r), analyzer' = [analyzer EXCEPT ![w] = r],
         UNCHANGED <<child, lock, schema, reviewer, runs>>,
         EvidenceTyped', Counted'
  PROVE  TypeInv'
<1>1. Holds(r)
  BY Writer, NamesAre DEF Holds, Continues
<1>2. /\ Members(r.pc) = Members("truncate") /\ r.pc \in States
      /\ r.pc \notin Attached /\ r.pc \notin Outside
  BY DEF Continues, Writing, Members, States, Attached, Outside
<1>3. Placed(r, child[w])
  BY <1>1, <1>2, Writer DEF Placed, Continues
<1>4. Moves(w, r, child[w])
  BY <1>3, InItsPlace DEF Moves
<1> QED BY <1>2, <1>4, Writer, InsideStep

\* To the next file, or to the commit after the last.
LEMMA WrittenMoves ==
  ASSUME TypeInv, NEW w \in Analyzers, analyzer[w].pc \in Writing, Written(w)
  PROVE  \E r : /\ Continues(w, r) /\ analyzer' = [analyzer EXCEPT ![w] = r]
                /\ IF analyzer[w].next = 4 THEN r.pc = "commit"
                   ELSE r.pc = "truncate" /\ r.next = analyzer[w].next + 1
<1> DEFINE done == [analyzer[w] EXCEPT !.pc = "commit"]
           on == [analyzer[w] EXCEPT !.pc = "truncate", !.next = @ + 1]
<1>1. Members("truncate") \subseteq DOMAIN analyzer[w] /\ analyzer[w].next \in 1 .. 4
  BY Writer
<1>2. CASE analyzer[w].next = 4
  <2>1. Continues(w, done) /\ done.pc = "commit"
    BY <1>1, <1>2 DEF Continues, Members, Writing
  <2>2. analyzer' = [analyzer EXCEPT ![w] = done]
    BY <1>2, NamesAre DEF Written
  <2> HIDE DEF done
  <2> QED BY <1>2, <2>1, <2>2
<1>3. CASE analyzer[w].next # 4
  <2>1. Continues(w, on) /\ on.pc = "truncate" /\ on.next = analyzer[w].next + 1
    BY <1>1, <1>3 DEF Continues, Members, Writing
  <2>2. analyzer' = [analyzer EXCEPT ![w] = on]
    BY <1>3, NamesAre DEF Written
  <2> HIDE DEF on
  <2> QED BY <1>3, <2>1, <2>2
<1> QED BY <1>2, <1>3

LEMMA TruncateMoves ==
  ASSUME TypeInv, NEW w \in Analyzers, Truncate(w)
  PROVE  \E r : /\ Continues(w, r) /\ analyzer' = [analyzer EXCEPT ![w] = r]
                /\ r.pc = "fill" /\ r.next = analyzer[w].next
<1> DEFINE r == [analyzer[w] EXCEPT !.pc = "fill"]
<1>1. analyzer[w].pc = "truncate" /\ analyzer[w].pc \in Writing
  BY DEF Truncate, Writing
<1>2. Members("truncate") \subseteq DOMAIN analyzer[w] /\ analyzer[w].next \in 1 .. 4
  BY <1>1, Writer
<1>3. Continues(w, r) /\ r.pc = "fill" /\ r.next = analyzer[w].next
  BY <1>1, <1>2 DEF Continues, Members, Writing
<1>4. analyzer' = [analyzer EXCEPT ![w] = r]
  BY DEF Truncate
<1> HIDE DEF r
<1> QED BY <1>3, <1>4

LEMMA TruncateTyped ==
  ASSUME TypeInv, TablesTyped, NEW w \in Analyzers, Truncate(w)
  PROVE  TypeInv'
<1>1. analyzer[w].pc \in Writing /\ UNCHANGED <<child, lock, schema, reviewer, runs>>
  BY DEF Truncate, Writing, people
<1>2. EvidenceTyped'
  BY <1>1, Writer, OneFile DEF Truncate
<1>3. Counted'
  BY CountersKept DEF Truncate
<1> QED BY <1>1, <1>2, <1>3, TruncateMoves, WritingStep

LEMMA WriteFileBytesTyped ==
  ASSUME TypeInv, TablesTyped, NEW w \in Analyzers, write_file_bytes(w)
  PROVE  TypeInv'
<1>1. /\ analyzer[w].pc \in Writing /\ Written(w)
      /\ UNCHANGED <<child, lock, schema, reviewer, runs>>
  BY DEF write_file_bytes, Writing, people
<1>2. EvidenceTyped'
  BY <1>1, Writer, OneFile DEF write_file_bytes
<1>3. Counted'
  BY CountersKept DEF write_file_bytes
<1> QED BY <1>1, <1>2, <1>3, WrittenMoves, WritingStep

LEMMA WriteFailsTyped ==
  ASSUME TypeInv, TablesTyped, NEW w \in Analyzers, WriteFails(w)
  PROVE  TypeInv'
<1>1. analyzer[w].pc \in Writing /\ UNCHANGED <<schema, reviewer, runs>>
  BY DEF WriteFails, Writing, people
<1>2. EvidenceTyped' /\ Counted'
  BY EvidenceKept, CountersKept DEF WriteFails
<1>3. CASE Leave(w)
  BY <1>1, <1>2, <1>3, LeaveStep DEF Inserts
<1>4. CASE Written(w) /\ UNCHANGED <<child, lock>>
  BY <1>1, <1>2, <1>4, WrittenMoves, WritingStep
<1> QED BY <1>3, <1>4 DEF WriteFails

LEMMA CompletedRow ==
  ASSUME TypeInv, NEW w \in Analyzers, analyzer[w].pc \in Writing,
         ~Duplicate(analyzer[w].answer.files), NEW run,
         run = [package |-> analyzer[w].package, status |-> "completed",
                ruleset |-> analyzer[w].answer.ruleset,
                artifact |-> {analyzer[w].artifact},
                stage |-> "", message |-> "", files |-> analyzer[w].answer.files,
                disposition |-> [f \in analyzer[w].answer.findings |-> "unreviewed"],
                evidence |-> evidence[analyzer[w].artifact]]
  PROVE  Row(run)
<1>1. /\ DOMAIN run = RunMembers /\ run.status = "completed" /\ run.stage = ""
      /\ run.ruleset = analyzer[w].answer.ruleset
      /\ run.artifact = {analyzer[w].artifact}
      /\ run.files = analyzer[w].answer.files
      /\ DOMAIN run.disposition = analyzer[w].answer.findings
      /\ run.evidence = evidence[analyzer[w].artifact]
  BY DEF RunMembers
<1>2. Holds(analyzer[w]) /\ analyzer[w].artifact \in Artifacts
  BY Writer
<1>3. DOMAIN run.evidence = Names
  BY <1>1, <1>2 DEF TypeInv, EvidenceTyped
<1>4. PICK registry : Answered(registry, analyzer[w].artifact, analyzer[w].rules,
                               analyzer[w].answer)
  BY <1>2 DEF Holds
<1>5. analyzer[w].answer.ruleset = analyzer[w].rules.version
  BY <1>2 DEF Holds
<1>6. Completed(run)
  BY <1>1, <1>3, <1>4, <1>5 DEF Completed
<1> QED BY <1>1, <1>6 DEF Row

LEMMA CommitTyped ==
  ASSUME TypeInv, TablesTyped, NEW w \in Analyzers, Commit(w)
  PROVE  TypeInv'
<1>1. /\ analyzer[w].pc \in Writing /\ Leave(w)
      /\ UNCHANGED <<schema, reviewer>>
  BY DEF Commit, Writing, people
<1>2. EvidenceTyped' /\ Counted'
  BY EvidenceKept, CountersKept DEF Commit
<1>3. lock = w
  BY <1>1, Writer, InItsPlace
<1>4. CASE Duplicate(analyzer[w].answer.files)
  BY <1>1, <1>2, <1>4, LeaveStep DEF Commit, Inserts
<1>5. CASE ~Duplicate(analyzer[w].answer.files)
  <2>1. \E run : Row(run) /\ runs' = Append(runs, run)
    BY <1>1, <1>5, CompletedRow DEF Commit
  <2> QED BY <1>1, <1>2, <1>3, <2>1, LeaveStep DEF Inserts
<1> QED BY <1>4, <1>5

LEMMA KillTyped ==
  ASSUME TypeInv, TablesTyped, NEW w \in Analyzers, Kill(w)
  PROVE  TypeInv'
<1>1. EvidenceTyped' /\ Counted'
  BY EvidenceKept, CountersKept DEF Kill
<1> QED BY <1>1, LeaveStep DEF Kill, Inserts, people

-----------------------------------------------------------------------------
(* Readers and reviewers                                                   *)

LEMMA ReaderTyped ==
  ASSUME TypeInv, NEW r \in Readers, SelectFinding(r) \/ ReadArtifact(r)
  PROVE  TypeInv'
<1>1. UNCHANGED <<schema, runs, lock, evidence, analyzer, child, starts, faults,
                  reviewer>>
  BY DEF SelectFinding, ReadArtifact
<1> QED BY <1>1 DEF TypeInv, AnalyzersTyped, Locking, EvidenceTyped, Counted, RowsTyped

InReview == {"review", "print"}

LEMMA ReviewerStep ==
  ASSUME TypeInv, ReviewersTyped, NEW v \in Reviewers, NEW r,
         reviewer' = [reviewer EXCEPT ![v] = r],
         lock' = IF r.pc \in InReview THEN v ELSE IF lock = v THEN Free ELSE lock,
         r.pc \in InReview => lock \in {Free, v},
         schema' \in {schema, 3},
         runs' # << >> => runs # << >> \/ schema' = 3,
         UNCHANGED <<evidence, analyzer, child>>, Counted', RowsTyped'
  PROVE  TypeInv'
<1>1. v # Free /\ Free \notin Analyzers /\ v \notin Analyzers /\ Free \notin Reviewers
  BY ActorsAssumption
<1>2. /\ \A w \in Analyzers : lock = w <=> analyzer[w].pc \notin Outside
      /\ \A u \in Reviewers : lock = u <=> reviewer[u].pc \in InReview
      /\ schema \in {1, 2, 3}
      /\ runs # << >> \/ lock \in Analyzers => schema = 3
  BY DEF TypeInv, Locking, InReview
<1>3. /\ reviewer'[v] = r
      /\ \A u \in Reviewers : u # v => reviewer'[u] = reviewer[u]
  BY DEF ReviewersTyped
<1>4. \A w \in Analyzers : lock' = w <=> lock = w
  BY <1>1
<1>5. \A u \in Reviewers : lock' = u <=> reviewer'[u].pc \in InReview
  <2>1. ASSUME NEW u \in Reviewers, u # v PROVE lock' = u <=> lock = u
    BY <1>1, <2>1
  <2> QED BY <1>1, <1>2, <1>3, <2>1
<1>6. runs' # << >> \/ lock' \in Analyzers => schema' = 3
  BY <1>2, <1>4
<1>7. Locking'
  BY <1>2, <1>4, <1>5, <1>6 DEF Locking, InReview
<1>8. AnalyzersTyped' /\ EvidenceTyped'
  BY DEF TypeInv, AnalyzersTyped, EvidenceTyped
<1> QED BY <1>7, <1>8 DEF TypeInv

LEMMA SameRows ==
  ASSUME TypeInv, runs' = runs PROVE RowsTyped'
BY DEF TypeInv, RowsTyped

LEMMA LeaveReviewTyped ==
  ASSUME TypeInv, ReviewersTyped, NEW v \in Reviewers, LeaveReview(v),
         UNCHANGED <<schema, runs, evidence, analyzer, child>>, Counted'
  PROVE  TypeInv'
<1>1. Idle.pc \notin InReview
  BY DEF Idle, InReview
<1> QED BY <1>1, ReviewerStep, SameRows DEF LeaveReview

LEMMA LookTyped ==
  ASSUME TypeInv, ReviewersTyped, NEW v \in Reviewers, Look(v)
  PROVE  TypeInv'
<1>1. PICK id \in Findings, disposition \in Dispositions :
        reviewer' = [reviewer EXCEPT ![v] =
          [pc |-> "lock", id |-> id, disposition |-> disposition,
           expected |-> runs[id[1]].disposition[id[2]]]]
  BY DEF Look
<1> DEFINE r == [pc |-> "lock", id |-> id, disposition |-> disposition,
                 expected |-> runs[id[1]].disposition[id[2]]]
<1>2. reviewer' = [reviewer EXCEPT ![v] = r] /\ r.pc \notin InReview
  BY <1>1 DEF InReview
<1> HIDE DEF r
<1>3. UNCHANGED <<schema, runs, lock, evidence, analyzer, child, starts, faults>>
  BY DEF Look
<1>4. Counted'
  BY <1>3, CountersKept
<1>5. lock # v
  BY DEF Look, TypeInv, Locking, Idle
<1> QED BY <1>2, <1>3, <1>4, <1>5, ReviewerStep, SameRows

LEMMA OpenCatalogTyped ==
  ASSUME TypeInv, ReviewersTyped, NEW v \in Reviewers, OpenCatalog(v)
  PROVE  TypeInv'
<1> DEFINE r == [reviewer[v] EXCEPT !.pc = "review"]
<1>1. Waiting(v)
  BY DEF ReviewersTyped, OpenCatalog, Idle
<1>2. r.pc = "review" /\ r.pc \in InReview
  BY <1>1 DEF Waiting, InReview
<1>3. reviewer' = [reviewer EXCEPT ![v] = r] /\ lock = Free /\ lock' = v
  BY DEF OpenCatalog
<1>4. UNCHANGED <<schema, runs, evidence, analyzer, child, starts, faults>>
  BY DEF OpenCatalog
<1> HIDE DEF r
<1>5. Counted'
  BY <1>4, CountersKept
<1> QED BY <1>2, <1>3, <1>4, <1>5, ReviewerStep, SameRows

\* A review changes the disposition of one finding and no other member of a row.
LEMMA ReviewedRows ==
  ASSUME TypeInv, NEW n \in DOMAIN runs, NEW f, NEW value,
         runs' = [runs EXCEPT ![n].disposition[f] = value]
  PROVE  /\ DOMAIN runs' = DOMAIN runs
         /\ \A m \in DOMAIN runs :
              /\ DOMAIN runs'[m] = DOMAIN runs[m]
              /\ \A x \in RunMembers \ {"disposition"} : runs'[m][x] = runs[m][x]
              /\ DOMAIN runs'[m].disposition = DOMAIN runs[m].disposition
<1> DEFINE changed == [runs[n].disposition EXCEPT ![f] = value]
           run == [runs[n] EXCEPT !.disposition = changed]
<1>1. runs' = [runs EXCEPT ![n] = run]
  OBVIOUS
<1>2. RunMembers \subseteq DOMAIN runs[n] /\ "disposition" \in RunMembers
  BY DEF TypeInv, RowsTyped, Row, RunMembers
<1>3. DOMAIN changed = DOMAIN runs[n].disposition
  OBVIOUS
<1> HIDE DEF changed
<1>4. /\ run.disposition = changed /\ DOMAIN run = DOMAIN runs[n]
      /\ \A x \in RunMembers \ {"disposition"} : run[x] = runs[n][x]
  BY <1>2
<1> HIDE DEF run
<1>5. /\ DOMAIN runs' = DOMAIN runs /\ runs'[n] = run
      /\ \A m \in DOMAIN runs : m # n => runs'[m] = runs[m]
  BY <1>1
<1> QED BY <1>3, <1>4, <1>5

LEMMA SameMembers ==
  ASSUME NEW run, NEW other, Row(run), DOMAIN other = DOMAIN run,
         \A x \in RunMembers \ {"disposition"} : other[x] = run[x],
         DOMAIN other.disposition = DOMAIN run.disposition
  PROVE  Row(other)
<1>1. /\ other.status = run.status /\ other.stage = run.stage
      /\ other.evidence = run.evidence /\ other.files = run.files
      /\ other.artifact = run.artifact /\ other.ruleset = run.ruleset
  BY DEF RunMembers
<1>2. CASE Completed(run)
  BY <1>1, <1>2 DEF Row, Completed
<1>3. CASE Failed(run)
  BY <1>1, <1>3 DEF Row, Failed
<1> QED BY <1>2, <1>3 DEF Row

LEMMA ReviewFindingTyped ==
  ASSUME TypeInv, IInv, NEW v \in Reviewers, review_finding(v)
  PROVE  TypeInv'
<1>1. UNCHANGED <<evidence, analyzer, child, starts, faults>>
  BY DEF review_finding
<1>2. Counted' /\ ReviewersTyped
  BY <1>1, CountersKept DEF IInv
<1>3. CASE LeaveReview(v) /\ UNCHANGED <<schema, runs>>
  BY <1>1, <1>2, <1>3, LeaveReviewTyped
<1>4. CASE ~(LeaveReview(v) /\ UNCHANGED <<schema, runs>>)
  <2> DEFINE r == [reviewer[v] EXCEPT !.pc = "print"]
  <2>1. /\ reviewer[v].pc = "review" /\ reviewer[v].id \in Findings
        /\ Waiting(v) /\ lock = v
    BY Critical DEF review_finding
  <2>2. PICK n \in DOMAIN runs :
          \E f \in DOMAIN runs[n].disposition : reviewer[v].id = << n, f >>
    BY <2>1, FindingIs
  <2>3. PICK f \in DOMAIN runs[n].disposition : reviewer[v].id = << n, f >>
    BY <2>2
  <2>4. /\ runs' = [runs EXCEPT ![n].disposition[f] = reviewer[v].disposition]
        /\ schema' = 3 /\ lock' = lock
        /\ reviewer' = [reviewer EXCEPT ![v] = r]
    BY <1>4, <2>3 DEF review_finding
  <2>5. r.pc \in InReview
    BY <2>1 DEF Waiting, InReview
  <2> HIDE DEF r
  <2>6. RowsTyped'
    BY <2>4, ReviewedRows, SameMembers DEF TypeInv, RowsTyped
  <2> QED BY <1>1, <1>2, <2>1, <2>4, <2>5, <2>6, ReviewerStep
<1> QED BY <1>3, <1>4

LEMMA AcknowledgeReviewTyped ==
  ASSUME TypeInv, ReviewersTyped, NEW v \in Reviewers, AcknowledgeReview(v)
  PROVE  TypeInv'
BY LeaveReviewTyped, CountersKept DEF AcknowledgeReview

LEMMA KillReviewTyped ==
  ASSUME TypeInv, ReviewersTyped, NEW v \in Reviewers, KillReview(v)
  PROVE  TypeInv'
BY LeaveReviewTyped, CountersKept DEF KillReview

-----------------------------------------------------------------------------
(* The theorem on types                                                    *)

LEMMA InitTypeInv == Init => TypeInv
<1> SUFFICES ASSUME Init PROVE TypeInv
  OBVIOUS
<1>1. NoChild \in Child /\ NoChild.state = "none" /\ Idle.pc = "idle"
  BY BoundAssumption DEF NoChild, Child, Idle
<1>2. Placed(Idle, NoChild)
  BY <1>1 DEF Placed, States, Members, Attached, Holds, Writing, Idle
<1>3. AnalyzersTyped
  BY <1>2 DEF Init, AnalyzersTyped
<1>4. Free \notin Analyzers /\ Free \notin Reviewers
  BY ActorsAssumption
<1>5. Locking
  BY <1>1, <1>4 DEF Init, Locking, Outside
<1>6. EvidenceTyped
  BY DEF Init, EvidenceTyped, NoEvidence
<1>7. Counted
  BY BoundAssumption DEF Init, Counted
<1>8. DOMAIN runs = {}
  BY Empty DEF Init
<1> QED BY <1>3, <1>5, <1>6, <1>7, <1>8 DEF TypeInv, RowsTyped

LEMMA NextTypeInv == IInv /\ TypeInv /\ [Next]_vars => TypeInv'
<1> SUFFICES ASSUME IInv, TypeInv, [Next]_vars PROVE TypeInv'
  OBVIOUS
<1>1. TablesTyped /\ ReviewersTyped
  BY DEF IInv
<1>2. ASSUME NEW w \in Analyzers, HostStep(w) PROVE TypeInv'
  BY <1>1, <1>2, AcquireTyped, FetchMetadataTyped, FetchArtifactTyped,
     RunCommandTyped, DockerWorkerTyped, TruncateTyped, WriteFileBytesTyped,
     CommitTyped DEF HostStep
<1>3. ASSUME NEW w \in Analyzers,
             \/ Begin(w) \/ ChildStep(w) \/ DeadlinePasses(w)
             \/ DownloadFails(w) \/ WriteFails(w) \/ Kill(w)
      PROVE  TypeInv'
  BY <1>1, <1>3, BeginTyped, ChildTyped, DownloadFailsTyped, WriteFailsTyped,
     KillTyped
<1>4. ASSUME NEW r \in Readers, SelectFinding(r) \/ ReadArtifact(r) PROVE TypeInv'
  BY <1>4, ReaderTyped
<1>5. ASSUME NEW v \in Reviewers, Look(v) \/ ReviewStep(v) \/ KillReview(v)
      PROVE  TypeInv'
  BY <1>1, <1>5, LookTyped, OpenCatalogTyped, ReviewFindingTyped,
     AcknowledgeReviewTyped, KillReviewTyped DEF ReviewStep
<1>6. CASE UNCHANGED vars
  BY <1>6 DEF vars, TypeInv, AnalyzersTyped, Locking, EvidenceTyped, Counted,
              RowsTyped
<1> QED BY <1>2, <1>3, <1>4, <1>5, <1>6 DEF Next

LEMMA TypesHold == IInv /\ TypeInv => TypeOK
<1> SUFFICES ASSUME IInv, TypeInv PROVE TypeOK
  OBVIOUS
<1>1. ASSUME NEW n \in DOMAIN runs
      PROVE  /\ runs[n].status \in {"completed", "failed"}
             /\ Cardinality(runs[n].artifact) <= 1
             /\ runs[n].status = "failed" <=> runs[n].stage # ""
             /\ runs[n].status = "completed" <=> DOMAIN runs[n].evidence = Names
  <2>1. Completed(runs[n]) \/ Failed(runs[n])
    BY DEF TypeInv, RowsTyped, Row
  <2>2. Names # {}
    BY NamesAre
  <2>3. DOMAIN << >> = {}
    BY Empty
  <2>4. runs[n].artifact = {} \/ \E a : runs[n].artifact = {a}
    BY <2>1 DEF Completed, Failed
  <2>5. Cardinality(runs[n].artifact) <= 1
    <3>1. Cardinality(runs[n].artifact) \in {0, 1}
      BY <2>4, FS_EmptySet, FS_Singleton
    <3> QED BY <3>1
  <2>6. CASE Completed(runs[n])
    <3>1. /\ runs[n].status = "completed" /\ runs[n].stage = ""
          /\ DOMAIN runs[n].evidence = Names
      BY <2>6 DEF Completed
    <3> QED BY <2>5, <3>1
  <2>7. CASE Failed(runs[n])
    <3>1. /\ runs[n].status = "failed" /\ runs[n].stage # ""
          /\ DOMAIN runs[n].evidence = {}
      BY <2>3, <2>7 DEF Failed
    <3> QED BY <2>2, <2>5, <3>1
  <2> QED BY <2>1, <2>6, <2>7
<1>2. ASSUME NEW w \in Analyzers
      PROVE  /\ analyzer[w].pc \in States
             /\ lock = w <=> analyzer[w].pc \notin {"idle", "lock"}
             /\ child[w].state # "none" <=> analyzer[w].pc \in {"await", "answer"}
             /\ child[w].read <= MaxOutput
  BY InItsPlace, BoundAssumption DEF Placed, Outside, Attached, Child
<1>3. \A i \in DOMAIN reviews : reviews[i].id \in Findings
  BY DEF IInv, TablesTyped
<1> QED BY <1>1, <1>2, <1>3 DEF TypeOK, TypeInv, Locking, EvidenceTyped, Counted

\* Types, the lock and the rows hold for any number of analyzers, readers and
\* reviewers, any registry answers, archives and rules, and any kills: who holds
\* the lock is one process past its wait, a worker is attached exactly while it
\* is awaited or read, and a completed run has all of its evidence (Transaction,
\* CatalogWriterLock).
THEOREM TypeCorrect == Spec => []TypeOK
<1>1. IInv /\ TypeInv /\ [Next]_vars => (IInv /\ TypeInv)'
  BY NextIInv, NextTypeInv
<1>2. Init => IInv /\ TypeInv
  BY InitIInv, InitTypeInv
<1> QED BY <1>1, <1>2, TypesHold, PTL DEF Spec

-----------------------------------------------------------------------------
(* The evidence of the newest run: the inductive invariant                 *)

CompletedOf(a) ==
  {n \in DOMAIN runs : runs[n].status = "completed" /\ runs[n].artifact = {a}}
Newest(a, n) == n \in CompletedOf(a) /\ \A m \in CompletedOf(a) : m <= n

Content(r, name) ==
  CASE name = "artifact.tgz"           -> r.artifact
    [] name = "analysis-rules.json"    -> r.rules.version
    [] name = "registry-metadata.json" -> r.document
    [] name = "findings.jsonl"         -> r.answer.findings

\* What an analysis in state r has written so far, in the directory it writes.
HasWritten(r, files) ==
  r.pc \in Writing =>
    \A i \in 1 .. 4 : i < r.next \/ r.pc = "commit" =>
      files[r.artifact][EvidenceNames[i]] = Whole(Content(r, EvidenceNames[i]))

WritesTo(r, a) == r.pc \in Writing /\ r.artifact = a

\* A directory is what a run recorded of its own.
Bears(files, run, a) ==
  /\ files = run.evidence
  /\ files["artifact.tgz"] = Whole(a)
  /\ files["analysis-rules.json"] = Whole(run.ruleset)
  /\ files["findings.jsonl"] = Whole(DOMAIN run.disposition)

HasNewest ==
  \A a \in Artifacts : CompletedOf(a) # {} => \E n \in CompletedOf(a) : Newest(a, n)
AllWritten ==
  \A w \in Analyzers : HasWritten(analyzer[w], evidence)
NewestBears ==
  \A a \in Artifacts :
    (\A w \in Analyzers : ~WritesTo(analyzer[w], a)) =>
      \A n \in CompletedOf(a) : Newest(a, n) => Bears(evidence[a], runs[n], a)

EvidenceInv == HasNewest /\ (faults = 0 => AllWritten /\ NewestBears)

-----------------------------------------------------------------------------
(* Steps that write no evidence                                            *)

\* What the invariant sees of two runs is the same.
Alike(run, other) ==
  /\ other.status = run.status /\ other.artifact = run.artifact
  /\ other.evidence = run.evidence /\ other.ruleset = run.ruleset
  /\ DOMAIN other.disposition = DOMAIN run.disposition

\* No completed run more, and the old ones alike.
NoneCompleted ==
  /\ DOMAIN runs \subseteq DOMAIN runs'
  /\ \A n \in DOMAIN runs : Alike(runs[n], runs'[n])
  /\ \A n \in DOMAIN runs' \ DOMAIN runs : runs'[n].status # "completed"

LEMMA SameNewest ==
  ASSUME NoneCompleted, NEW a
  PROVE  /\ CompletedOf(a)' = CompletedOf(a)
         /\ \A n : Newest(a, n)' <=> Newest(a, n)
<1>1. CompletedOf(a)' = CompletedOf(a)
  BY DEF NoneCompleted, Alike, CompletedOf
<1> QED BY <1>1 DEF Newest

LEMMA FailedAppended ==
  ASSUME TablesTyped, NEW run, run.status # "completed", runs' = Append(runs, run)
  PROVE  NoneCompleted
<1>1. PICK S : runs \in Seq(S)
  BY DEF TablesTyped
<1>2. /\ DOMAIN runs = 1 .. Len(runs) /\ Len(runs) \in Nat
      /\ DOMAIN runs' = 1 .. (Len(runs) + 1)
      /\ \A n \in DOMAIN runs : runs'[n] = runs[n]
      /\ runs'[Len(runs) + 1] = run
  BY <1>1, Appending
<1>3. \A n \in DOMAIN runs' \ DOMAIN runs : n = Len(runs) + 1
  BY <1>2
<1>4. DOMAIN runs \subseteq DOMAIN runs'
  BY <1>2
<1>5. \A n \in DOMAIN runs : Alike(runs[n], runs'[n])
  BY <1>2 DEF Alike
<1> QED BY <1>2, <1>3, <1>4, <1>5 DEF NoneCompleted

\* Writers stay or go through a fault, and who starts to write has written
\* nothing.
LEMMA Beside ==
  ASSUME EvidenceInv, NoneCompleted, evidence' = evidence,
         faults' = 0 => faults = 0,
         \A w \in Analyzers :
           \/ analyzer'[w] = analyzer[w]
           \/ /\ faults' = 0 => analyzer[w].pc \notin Writing
              /\ analyzer'[w].pc \in Writing =>
                   analyzer'[w].pc = "truncate" /\ analyzer'[w].next = 1
  PROVE  EvidenceInv'
<1>1. HasNewest'
  BY SameNewest DEF EvidenceInv, HasNewest
<1>2. ASSUME faults' = 0 PROVE AllWritten'
  <2>1. ASSUME NEW w \in Analyzers PROVE HasWritten(analyzer'[w], evidence')
    <3>1. CASE analyzer'[w] = analyzer[w]
      BY <1>2, <3>1 DEF EvidenceInv, AllWritten
    <3>2. CASE analyzer'[w].pc \in Writing =>
                 analyzer'[w].pc = "truncate" /\ analyzer'[w].next = 1
      BY <3>2 DEF HasWritten
    <3> QED BY <3>1, <3>2
  <2> QED BY <2>1 DEF AllWritten
<1>3. ASSUME faults' = 0 PROVE NewestBears'
  <2>1. SUFFICES ASSUME NEW a \in Artifacts,
                        \A w \in Analyzers : ~WritesTo(analyzer'[w], a),
                        NEW n \in CompletedOf(a)', Newest(a, n)'
                 PROVE  Bears(evidence'[a], runs'[n], a)
    BY DEF NewestBears
  <2>2. ASSUME NEW w \in Analyzers PROVE ~WritesTo(analyzer[w], a)
    BY <1>3, <2>1 DEF WritesTo
  <2>3. n \in CompletedOf(a) /\ Newest(a, n)
    BY <2>1, SameNewest
  <2>4. Bears(evidence[a], runs[n], a)
    BY <1>3, <2>2, <2>3 DEF EvidenceInv, NewestBears
  <2>5. Alike(runs[n], runs'[n])
    BY <2>3 DEF NoneCompleted, CompletedOf
  <2> QED BY <2>4, <2>5 DEF Bears, Alike
<1> QED BY <1>1, <1>2, <1>3 DEF EvidenceInv

\* One analysis moves from state to state.
LEMMA BesideOne ==
  ASSUME EvidenceInv, TypeInv, NoneCompleted, evidence' = evidence,
         faults' = faults \/ Fault,
         NEW w \in Analyzers, NEW r,
         analyzer' = [analyzer EXCEPT ![w] = r],
         Fault \/ analyzer[w].pc \notin Writing,
         r.pc \notin Writing \/ (r.pc = "truncate" /\ r.next = 1)
  PROVE  EvidenceInv'
<1>1. faults \in Nat /\ (Fault => faults' # 0)
  BY BoundAssumption DEF TypeInv, Counted, Fault
<1>2. faults' = 0 => faults = 0 /\ ~Fault
  BY <1>1
<1>3. /\ analyzer'[w] = r
      /\ \A u \in Analyzers : u # w => analyzer'[u] = analyzer[u]
  BY InItsPlace
<1> QED BY <1>2, <1>3, Beside

LEMMA Unmoved ==
  ASSUME EvidenceInv, TypeInv, NoneCompleted, UNCHANGED <<evidence, analyzer>>,
         faults' = faults \/ Fault
  PROVE  EvidenceInv'
<1>1. faults' = 0 => faults = 0
  BY BoundAssumption DEF TypeInv, Counted, Fault
<1> QED BY <1>1, Beside

LEMMA SameRuns ==
  ASSUME runs' = runs PROVE NoneCompleted
BY DEF NoneCompleted, Alike

LEMMA LeaveBeside ==
  ASSUME EvidenceInv, TypeInv, NoneCompleted, evidence' = evidence,
         faults' = faults \/ Fault, NEW w \in Analyzers, Leave(w),
         Fault \/ analyzer[w].pc \notin Writing
  PROVE  EvidenceInv'
<1>1. Idle.pc \notin Writing
  BY DEF Idle, Writing
<1> QED BY <1>1, BesideOne DEF Leave

LEMMA FailureBeside ==
  ASSUME EvidenceInv, TypeInv, TablesTyped, evidence' = evidence,
         faults' = faults \/ Fault,
         NEW w \in Analyzers, NEW stage, NEW artifact, NEW message,
         insert_failed_run(w, stage, artifact, message),
         analyzer[w].pc \notin Writing
  PROVE  EvidenceInv'
<1>1. FailedRun(w, stage, artifact, message).status # "completed"
  BY DEF FailedRun
<1>2. NoneCompleted
  BY <1>1, FailedAppended DEF insert_failed_run
<1> QED BY <1>2, LeaveBeside DEF insert_failed_run

LEMMA EarlyBears ==
  ASSUME EvidenceInv, TypeInv, TablesTyped, NEW w \in Analyzers,
         Begin(w) \/ Acquire(w) \/ FetchMetadata(w) \/ FetchArtifact(w)
  PROVE  EvidenceInv'
<1>1. UNCHANGED <<evidence, faults>> /\ analyzer[w].pc \notin Writing
  <2>1. UNCHANGED <<evidence, faults>>
    BY DEF Begin, Acquire, FetchMetadata, FetchArtifact
  <2>2. analyzer[w].pc \in {"idle", "lock", "metadata", "artifact"}
    <3>1. Begin(w) => analyzer[w].pc = "idle"
      BY DEF Begin, Idle
    <3>2. ~Begin(w) => analyzer[w].pc \in {"lock", "metadata", "artifact"}
      BY DEF Acquire, FetchMetadata, FetchArtifact
    <3> QED BY <3>1, <3>2
  <2> QED BY <2>1, <2>2 DEF Writing
<1>2. CASE Leave(w) /\ UNCHANGED runs
  BY <1>1, <1>2, SameRuns, LeaveBeside
<1>3. ASSUME NEW stage, NEW artifact, insert_failed_run(w, stage, artifact, "")
      PROVE  EvidenceInv'
  BY <1>1, <1>3, FailureBeside
<1>4. ASSUME runs' = runs, NEW r, analyzer' = [analyzer EXCEPT ![w] = r],
             r.pc \notin Writing
      PROVE  EvidenceInv'
  BY <1>1, <1>4, SameRuns, BesideOne
<1>5. CASE UNCHANGED <<runs, analyzer>>
  BY <1>1, <1>5, SameRuns, Unmoved
<1>6. CASE Begin(w)
  <2>1. ASSUME NEW d, NEW force, NEW package, NEW rules,
               analyzer' = [analyzer EXCEPT ![w] =
                 [pc |-> "lock", declaration |-> d, force |-> force,
                  package |-> package, rules |-> rules]]
        PROVE  EvidenceInv'
    BY <1>4, <1>6, <2>1 DEF Begin, Writing
  <2> QED BY <1>5, <1>6, <2>1 DEF Begin
<1>7. CASE Acquire(w)
  <2>1. [analyzer[w] EXCEPT !.pc = "metadata"].pc \notin Writing
    BY <1>7, InItsPlace DEF Acquire, Writing, Placed, Members
  <2> QED BY <1>4, <1>7, <2>1 DEF Acquire
<1>8. CASE FetchMetadata(w)
  <2>1. ASSUME runs' = runs, NEW document, NEW release,
               analyzer' = [analyzer EXCEPT ![w] =
                 [pc |-> "artifact", document |-> document, release |-> release,
                  force |-> @.force, package |-> @.package, rules |-> @.rules]]
        PROVE  EvidenceInv'
    BY <1>4, <2>1 DEF Writing
  <2>2. CASE ~Nameable(analyzer[w].package)
    BY <1>2, <1>8, <2>2 DEF FetchMetadata
  <2>3. CASE Nameable(analyzer[w].package)
    BY <1>2, <1>3, <1>8, <2>1, <2>3 DEF FetchMetadata
  <2> QED BY <2>2, <2>3
<1>9. CASE FetchArtifact(w)
  <2>1. ASSUME runs' = runs, NEW artifact,
               analyzer' = [analyzer EXCEPT ![w] =
                 [pc |-> "await", artifact |-> artifact, document |-> @.document,
                  package |-> @.package, rules |-> @.rules]]
        PROVE  EvidenceInv'
    BY <1>4, <2>1 DEF Writing
  <2> QED BY <1>2, <1>3, <1>9, <2>1 DEF FetchArtifact
<1> QED BY <1>6, <1>7, <1>8, <1>9

LEMMA FaultBears ==
  ASSUME EvidenceInv, TypeInv, TablesTyped, NEW w \in Analyzers,
         DownloadFails(w) \/ WriteFails(w) \/ Kill(w)
  PROVE  EvidenceInv'
<1>1. Fault /\ evidence' = evidence
  BY DEF DownloadFails, WriteFails, Kill
<1>2. CASE DownloadFails(w)
  <2>1. analyzer[w].pc \notin Writing
    BY <1>2 DEF DownloadFails, Writing
  <2> QED BY <1>1, <1>2, <2>1, FailureBeside DEF DownloadFails
<1>3. CASE Kill(w)
  BY <1>1, <1>3, SameRuns, LeaveBeside DEF Kill
<1>4. CASE WriteFails(w)
  <2>1. faults' # 0 /\ runs' = runs
    BY <1>1, <1>4, BoundAssumption DEF WriteFails, Fault, TypeInv, Counted
  <2>2. HasNewest'
    BY <2>1, SameRuns, SameNewest DEF EvidenceInv, HasNewest
  <2> QED BY <2>1, <2>2 DEF EvidenceInv
<1> QED BY <1>2, <1>3, <1>4

LEMMA WorkerBears ==
  ASSUME EvidenceInv, TypeInv, TablesTyped, NEW w \in Analyzers,
         \/ ChildStep(w) \/ DeadlinePasses(w) \/ run_command(w) \/ docker_worker(w)
  PROVE  EvidenceInv'
<1>1. CASE ChildStep(w) \/ DeadlinePasses(w)
  <2>1. UNCHANGED <<evidence, analyzer, runs>> /\ (faults' = faults \/ Fault)
    BY <1>1 DEF ChildStep, ChildWrites, ChildCloses, ChildExits, DeadlinePasses
  <2> QED BY <2>1, SameRuns, Unmoved
<1>2. CASE run_command(w)
  <2>1. UNCHANGED <<evidence, faults>> /\ analyzer[w].pc \notin Writing
    BY <1>2 DEF run_command, Writing
  <2>2. CASE insert_failed_run(w, "analyze_container", {analyzer[w].artifact}, "child")
    BY <2>1, <2>2, FailureBeside
  <2>3. CASE UNCHANGED <<runs, analyzer>>
    BY <2>1, <2>3, SameRuns, Unmoved
  <2>4. CASE runs' = runs /\ analyzer' = [analyzer EXCEPT ![w].pc = "answer"]
    <3>1. [analyzer[w] EXCEPT !.pc = "answer"].pc \notin Writing
      BY <1>2, InItsPlace DEF run_command, Writing, Placed, Members
    <3> QED BY <2>1, <2>4, <3>1, SameRuns, BesideOne
  <2> QED BY <1>2, <2>2, <2>3, <2>4 DEF run_command
<1>3. CASE docker_worker(w)
  <2>1. UNCHANGED <<evidence, faults>> /\ analyzer[w].pc \notin Writing
    BY <1>3 DEF docker_worker, Writing
  <2>2. ASSUME NEW message,
               insert_failed_run(w, "analyze_container", {analyzer[w].artifact}, message)
        PROVE  EvidenceInv'
    BY <2>1, <2>2, FailureBeside
  <2>3. CASE Leave(w) /\ UNCHANGED runs
    BY <2>1, <2>3, SameRuns, LeaveBeside
  <2>4. ASSUME runs' = runs, NEW answer,
               analyzer' = [analyzer EXCEPT ![w] =
                 [pc |-> "truncate", next |-> 1, answer |-> answer,
                  artifact |-> @.artifact, document |-> @.document,
                  package |-> @.package, rules |-> @.rules]]
        PROVE  EvidenceInv'
    BY <2>1, <2>4, SameRuns, BesideOne
  <2> QED BY <1>3, <2>2, <2>3, <2>4 DEF docker_worker
<1> QED BY <1>1, <1>2, <1>3

LEMMA ReviewerBears ==
  ASSUME EvidenceInv, TypeInv, IInv, NEW v \in Reviewers,
         Look(v) \/ ReviewStep(v) \/ KillReview(v)
  PROVE  EvidenceInv'
<1>1. UNCHANGED <<evidence, analyzer>> /\ (faults' = faults \/ Fault)
  BY DEF Look, ReviewStep, OpenCatalog, review_finding, AcknowledgeReview, KillReview
<1>2. CASE runs' = runs
  BY <1>1, <1>2, SameRuns, Unmoved
<1>3. CASE runs' # runs
  <2>1. review_finding(v)
    BY <1>3 DEF Look, ReviewStep, OpenCatalog, AcknowledgeReview, KillReview
  <2>2. reviewer[v].id \in Findings
    BY <2>1, Critical DEF review_finding
  <2>3. PICK n \in DOMAIN runs :
          \E f \in DOMAIN runs[n].disposition : reviewer[v].id = << n, f >>
    BY <2>2, FindingIs
  <2>4. PICK f : reviewer[v].id = << n, f >>
    BY <2>3
  <2>5. runs' = [runs EXCEPT ![n].disposition[f] = reviewer[v].disposition]
    BY <1>3, <2>1, <2>4 DEF review_finding
  <2>6. /\ DOMAIN runs' = DOMAIN runs
        /\ \A m \in DOMAIN runs :
             /\ \A x \in RunMembers \ {"disposition"} : runs'[m][x] = runs[m][x]
             /\ DOMAIN runs'[m].disposition = DOMAIN runs[m].disposition
    BY <2>5, ReviewedRows
  <2>7. \A m \in DOMAIN runs : Alike(runs[m], runs'[m])
    BY <2>6 DEF Alike, RunMembers
  <2>8. NoneCompleted
    BY <2>6, <2>7 DEF NoneCompleted
  <2> QED BY <1>1, <2>8, Unmoved
<1> QED BY <1>2, <1>3

LEMMA ReaderBears ==
  ASSUME EvidenceInv, TypeInv, NEW r \in Readers, SelectFinding(r) \/ ReadArtifact(r)
  PROVE  EvidenceInv'
<1>1. UNCHANGED <<evidence, analyzer, runs, faults>>
  BY DEF SelectFinding, ReadArtifact
<1> QED BY <1>1, SameRuns, Unmoved

-----------------------------------------------------------------------------
(* Writing the evidence, and the run that records it                       *)

LEMMA FourNames ==
  /\ EvidenceNames[1] = "artifact.tgz"
  /\ EvidenceNames[2] = "analysis-rules.json"
  /\ EvidenceNames[3] = "registry-metadata.json"
  /\ EvidenceNames[4] = "findings.jsonl"
  /\ \A i, j \in 1 .. 4 : i # j => EvidenceNames[i] # EvidenceNames[j]
BY DEF EvidenceNames

\* A writer has the lock, so there is no other.
LEMMA OneWriter ==
  ASSUME TypeInv, NEW w \in Analyzers, analyzer[w].pc \in Writing,
         NEW u \in Analyzers, analyzer[u].pc \in Writing
  PROVE  u = w
BY Writer, InItsPlace

LEMMA FileStep ==
  ASSUME EvidenceInv, TypeInv, NEW w \in Analyzers, analyzer[w].pc \in Writing,
         NEW r, Continues(w, r), analyzer' = [analyzer EXCEPT ![w] = r],
         NEW file,
         evidence' = [evidence EXCEPT ![analyzer[w].artifact][Current(w)] = file],
         \/ r.pc # "commit" /\ r.next = analyzer[w].next
         \/ /\ file = Whole(Content(analyzer[w], Current(w)))
            /\ IF analyzer[w].next = 4 THEN r.pc = "commit"
               ELSE r.pc # "commit" /\ r.next = analyzer[w].next + 1,
         analyzer[w].pc # "commit", UNCHANGED <<runs, faults>>
  PROVE  EvidenceInv'
<1> DEFINE a == analyzer[w].artifact
           next == analyzer[w].next
<1>1. a \in Artifacts /\ next \in 1 .. 4 /\ Current(w) \in Names
  BY Writer
<1>2. /\ evidence'[a][Current(w)] = file
      /\ \A name \in Names \ {Current(w)} : evidence'[a][name] = evidence[a][name]
      /\ \A b \in Artifacts \ {a} : evidence'[b] = evidence[b]
  <2>1. PICK d, current : d = a /\ current = Current(w)
    OBVIOUS
  <2>2. evidence' = [evidence EXCEPT ![d][current] = file]
    BY <2>1
  <2>3. /\ evidence'[d][current] = file
        /\ \A name \in Names \ {current} : evidence'[d][name] = evidence[d][name]
        /\ \A b \in Artifacts \ {d} : evidence'[b] = evidence[b]
    <3>1. d \in Artifacts /\ current \in Names
      BY <1>1, <2>1
    <3> HIDE DEF a, next
    <3>2. evidence'[d][current] = file
      BY <2>2, <3>1 DEF TypeInv, EvidenceTyped
    <3>3. \A name \in Names \ {current} : evidence'[d][name] = evidence[d][name]
      BY <2>2, <3>1, OneFile
    <3>4. \A b \in Artifacts \ {d} : evidence'[b] = evidence[b]
      BY <2>2, <3>1, OneFile
    <3> QED BY <3>2, <3>3, <3>4
  <2> QED BY <2>1, <2>3
<1>3. /\ analyzer'[w] = r
      /\ \A u \in Analyzers : u # w => analyzer'[u] = analyzer[u]
  BY InItsPlace
<1>4. \A u \in Analyzers : u # w => analyzer'[u].pc \notin Writing
  BY <1>3, OneWriter
<1>5. HasNewest'
  BY SameRuns, SameNewest DEF EvidenceInv, HasNewest
<1>6. \A name : Content(r, name) = Content(analyzer[w], name)
  BY DEF Content, Continues
<1>7. r.artifact = a /\ r.next \in 1 .. 4 /\ (r.pc = "commit" => r.next = 4)
  BY DEF Continues
<1>8. Current(w) = EvidenceNames[next]
  BY DEF Current
<1>9. ASSUME faults = 0 PROVE AllWritten'
  <2>1. ASSUME NEW i \in 1 .. 4, i < r.next \/ r.pc = "commit"
        PROVE  evidence'[a][EvidenceNames[i]]
                 = Whole(Content(analyzer[w], EvidenceNames[i]))
    <3>1. CASE i < next
      <4>1. EvidenceNames[i] \in Names \ {Current(w)}
        BY <1>1, <1>8, <3>1, FourNames, NamesAre
      <4>2. evidence[a][EvidenceNames[i]]
              = Whole(Content(analyzer[w], EvidenceNames[i]))
        BY <1>9, <3>1 DEF EvidenceInv, AllWritten, HasWritten
      <4> QED BY <1>2, <4>1, <4>2
    <3>2. CASE ~(i < next)
      <4>1. i = next /\ file = Whole(Content(analyzer[w], Current(w)))
        BY <1>1, <1>7, <2>1, <3>2
      <4> QED BY <1>2, <1>8, <4>1
    <3> QED BY <3>1, <3>2
  <2>2. HasWritten(r, evidence')
    BY <1>6, <1>7, <2>1 DEF HasWritten
  <2>3. \A u \in Analyzers : HasWritten(analyzer'[u], evidence')
    BY <1>3, <1>4, <2>2 DEF HasWritten
  <2> QED BY <2>3 DEF AllWritten
<1>10. ASSUME faults = 0 PROVE NewestBears'
  <2>1. SUFFICES ASSUME NEW b \in Artifacts,
                        \A u \in Analyzers : ~WritesTo(analyzer'[u], b),
                        NEW n \in CompletedOf(b)', Newest(b, n)'
                 PROVE  Bears(evidence'[b], runs'[n], b)
    BY DEF NewestBears
  <2>2. b # a
    BY <1>3, <1>7, <2>1 DEF WritesTo, Continues
  <2>3. \A u \in Analyzers : ~WritesTo(analyzer[u], b)
    BY <2>2, OneWriter DEF WritesTo
  <2>4. n \in CompletedOf(b) /\ Newest(b, n)
    BY <2>1, SameRuns, SameNewest
  <2>5. Bears(evidence[b], runs[n], b)
    BY <1>10, <2>3, <2>4 DEF EvidenceInv, NewestBears
  <2> QED BY <1>2, <2>2, <2>5
<1> QED BY <1>5, <1>9, <1>10 DEF EvidenceInv

LEMMA TruncateBears ==
  ASSUME EvidenceInv, TypeInv, NEW w \in Analyzers, Truncate(w)
  PROVE  EvidenceInv'
<1>1. PICK r : /\ Continues(w, r) /\ analyzer' = [analyzer EXCEPT ![w] = r]
               /\ r.pc = "fill" /\ r.next = analyzer[w].next
  BY TruncateMoves
<1>2. analyzer[w].pc = "truncate" /\ analyzer[w].pc \in Writing
  BY DEF Truncate, Writing
<1>3. /\ evidence' = [evidence EXCEPT ![analyzer[w].artifact][Current(w)] = Torn]
      /\ UNCHANGED <<runs, faults>>
  BY DEF Truncate
<1> QED BY <1>1, <1>2, <1>3, FileStep

LEMMA WriteFileBytesBears ==
  ASSUME EvidenceInv, TypeInv, NEW w \in Analyzers, write_file_bytes(w)
  PROVE  EvidenceInv'
<1>1. analyzer[w].pc = "fill" /\ analyzer[w].pc \in Writing /\ Written(w)
  BY DEF write_file_bytes, Writing
<1>2. PICK r : /\ Continues(w, r) /\ analyzer' = [analyzer EXCEPT ![w] = r]
               /\ IF analyzer[w].next = 4 THEN r.pc = "commit"
                  ELSE r.pc = "truncate" /\ r.next = analyzer[w].next + 1
  BY <1>1, WrittenMoves
<1>3. ContentOf(w, Current(w)) = Content(analyzer[w], Current(w))
  BY DEF ContentOf, Content
<1>4. /\ evidence' = [evidence EXCEPT ![analyzer[w].artifact][Current(w)] =
                        Whole(Content(analyzer[w], Current(w)))]
      /\ UNCHANGED <<runs, faults>>
  BY <1>3 DEF write_file_bytes
<1>5. IF analyzer[w].next = 4 THEN r.pc = "commit"
      ELSE r.pc # "commit" /\ r.next = analyzer[w].next + 1
  BY <1>2
<1> QED BY <1>1, <1>2, <1>4, <1>5, FileStep

\* The files of an answer are the regular members, at their places.
LEMMA AnswerIs ==
  ASSUME NEW a, NEW registry, NEW document, NEW result,
         Answered(registry, a, document, result)
  PROVE  LET members == parse_ustar(Archives[a]).members
         IN /\ parse_ustar(Archives[a]).ok
            /\ DOMAIN result.files = Regulars(members)
            /\ \A i \in Regulars(members) :
                 result.files[i] = FileRecord(document, members[i])
<1> DEFINE members == parse_ustar(Archives[a]).members
           answer == analyze_package_tarball_bytes(registry, Archives[a], document)
<1>1. answer.ok
  BY DEF Answered
<1>2. answer.ok =>
        /\ parse_ustar(Archives[a]).ok
        /\ answer.files = [i \in Regulars(members) |-> FileRecord(document, members[i])]
  BY DEF analyze_package_tarball_bytes, Bad
<1> HIDE DEF members, answer
<1>3. result = answer
  BY DEF Answered, answer
<1>4. /\ parse_ustar(Archives[a]).ok
      /\ DOMAIN result.files = Regulars(members)
      /\ \A i \in Regulars(members) :
           result.files[i] = FileRecord(document, members[i])
  BY <1>1, <1>2, <1>3
<1> QED BY <1>4 DEF members

\* Whether a path occurs twice is decided by the archive, not by the rules.
LEMMA SamePaths ==
  ASSUME NEW a, NEW registry, NEW document, NEW result,
         Answered(registry, a, document, result)
  PROVE  LET members == parse_ustar(Archives[a]).members
         IN Duplicate(result.files) <=>
              \E i, j \in Regulars(members) :
                i # j /\ members[i].path = members[j].path
<1> DEFINE members == parse_ustar(Archives[a]).members
<1>1. /\ DOMAIN result.files = Regulars(members)
      /\ \A i \in Regulars(members) :
           result.files[i] = FileRecord(document, members[i])
  BY AnswerIs
<1>2. \A i \in Regulars(members) :
        FileRecord(document, members[i]).path = members[i].path
  BY DEF FileRecord
<1> HIDE DEF members
<1>3. Duplicate(result.files) <=>
        \E i, j \in Regulars(members) : i # j /\ members[i].path = members[j].path
  BY <1>1, <1>2 DEF Duplicate
<1> QED BY <1>3 DEF members

LEMMA NoneOfDuplicates ==
  ASSUME TypeInv, NEW w \in Analyzers, analyzer[w].pc \in Writing,
         Duplicate(analyzer[w].answer.files)
  PROVE  CompletedOf(analyzer[w].artifact) = {}
<1> DEFINE a == analyzer[w].artifact
           members == parse_ustar(Archives[a]).members
           twice == \E i, j \in Regulars(members) :
                      i # j /\ members[i].path = members[j].path
<1>1. PICK registry : Answered(registry, a, analyzer[w].rules, analyzer[w].answer)
  BY Writer DEF Holds
<1>2. twice
  BY <1>1, SamePaths
<1>3. SUFFICES ASSUME NEW n \in CompletedOf(a) PROVE FALSE
  OBVIOUS
<1>4. runs[n].status = "completed" /\ runs[n].artifact = {a} /\ n \in DOMAIN runs
  BY <1>3 DEF CompletedOf
<1>5. Completed(runs[n])
  BY <1>4 DEF TypeInv, RowsTyped, Row, Failed
<1>6. PICK registry2, b, document, result :
        /\ Answered(registry2, b, document, result)
        /\ runs[n].artifact = {b} /\ runs[n].files = result.files
        /\ ~Duplicate(result.files)
  BY <1>5 DEF Completed
<1>7. b = a
  BY <1>4, <1>6
<1>8. Duplicate(result.files) <=> twice
  BY <1>6, <1>7, SamePaths
<1> QED BY <1>2, <1>6, <1>8

\* The end of a writing analysis leaves no writer.
LEMMA CommitLeaves ==
  ASSUME TypeInv, NEW w \in Analyzers, Commit(w)
  PROVE  \A u \in Analyzers : analyzer'[u].pc \notin Writing
<1>1. analyzer[w].pc \in Writing /\ analyzer' = [analyzer EXCEPT ![w] = Idle]
  BY DEF Commit, Leave, Writing
<1>2. analyzer'[w] = Idle /\ Idle.pc \notin Writing
  BY <1>1, InItsPlace DEF Idle, Writing
<1>3. \A u \in Analyzers : u # w => analyzer'[u] = analyzer[u]
  BY <1>1, InItsPlace
<1> QED BY <1>1, <1>2, <1>3, OneWriter

\* What is recorded is what was written.
LEMMA RecordsItsOwn ==
  ASSUME EvidenceInv, TypeInv, NEW w \in Analyzers, analyzer[w].pc = "commit",
         faults = 0, NEW run,
         run.ruleset = analyzer[w].answer.ruleset,
         DOMAIN run.disposition = analyzer[w].answer.findings,
         run.evidence = evidence[analyzer[w].artifact]
  PROVE  Bears(evidence[analyzer[w].artifact], run, analyzer[w].artifact)
<1>1. analyzer[w].pc \in Writing
  BY DEF Writing
<1>2. \A i \in 1 .. 4 : evidence[analyzer[w].artifact][EvidenceNames[i]]
                          = Whole(Content(analyzer[w], EvidenceNames[i]))
  BY <1>1 DEF EvidenceInv, AllWritten, HasWritten
<1>3. analyzer[w].answer.ruleset = analyzer[w].rules.version
  BY <1>1, Writer DEF Holds
<1>4. /\ Content(analyzer[w], "artifact.tgz") = analyzer[w].artifact
      /\ Content(analyzer[w], "analysis-rules.json") = analyzer[w].rules.version
      /\ Content(analyzer[w], "findings.jsonl") = analyzer[w].answer.findings
  BY DEF Content
<1>5. 1 \in 1 .. 4 /\ 2 \in 1 .. 4 /\ 4 \in 1 .. 4
  OBVIOUS
<1> QED BY <1>2, <1>3, <1>4, <1>5, FourNames DEF Bears

LEMMA CommitBears ==
  ASSUME EvidenceInv, TypeInv, TablesTyped, NEW w \in Analyzers, Commit(w)
  PROVE  EvidenceInv'
<1>0. PICK a : a = analyzer[w].artifact
  OBVIOUS
<1>1. /\ analyzer[w].pc = "commit" /\ analyzer[w].pc \in Writing
      /\ UNCHANGED <<evidence, faults>>
  BY DEF Commit, Writing
<1>2. AllWritten'
  BY CommitLeaves DEF AllWritten, HasWritten
<1>3. ASSUME NEW b \in Artifacts, b # a, NEW u \in Analyzers
      PROVE  ~WritesTo(analyzer[u], b)
  BY <1>0, <1>1, <1>3, OneWriter DEF WritesTo
<1>4. CASE runs' = runs /\ Duplicate(analyzer[w].answer.files)
  <2>1. CompletedOf(a) = {}
    BY <1>0, <1>1, <1>4, NoneOfDuplicates
  <2>2. HasNewest'
    BY <1>4, SameRuns, SameNewest DEF EvidenceInv, HasNewest
  <2>3. ASSUME faults = 0, NEW b \in Artifacts, NEW n \in CompletedOf(b)', Newest(b, n)'
        PROVE  Bears(evidence'[b], runs'[n], b)
    <3>1. n \in CompletedOf(b) /\ Newest(b, n)
      BY <1>4, <2>3, SameRuns, SameNewest
    <3>2. b # a
      BY <2>1, <3>1
    <3> QED BY <1>1, <1>3, <1>4, <2>3, <3>1, <3>2 DEF EvidenceInv, NewestBears
  <2> QED BY <1>1, <1>2, <2>2, <2>3 DEF EvidenceInv, NewestBears
<1>5. ASSUME NEW run, runs' = Append(runs, run),
             run.status = "completed", run.artifact = {a},
             run.ruleset = analyzer[w].answer.ruleset,
             DOMAIN run.disposition = analyzer[w].answer.findings,
             run.evidence = evidence[a]
      PROVE  EvidenceInv'
  <2>1. PICK S : runs \in Seq(S)
    BY DEF TablesTyped
  <2>2. /\ DOMAIN runs = 1 .. Len(runs) /\ Len(runs) \in Nat
        /\ DOMAIN runs' = 1 .. (Len(runs) + 1)
        /\ \A n \in DOMAIN runs : runs'[n] = runs[n]
        /\ runs'[Len(runs) + 1] = run
    BY <1>5, <2>1, Appending
  <2>0. PICK new : new = Len(runs) + 1
    OBVIOUS
  <2>3. /\ new \in CompletedOf(a)'
        /\ \A b : \A n \in CompletedOf(b)' : n \in DOMAIN runs' /\ n <= new
    BY <1>5, <2>0, <2>2 DEF CompletedOf
  <2>4. Newest(a, new)'
    BY <2>3 DEF Newest
  <2>5. ASSUME NEW b, b # a PROVE CompletedOf(b)' = CompletedOf(b)
    <3>1. Len(runs) + 1 \notin CompletedOf(b)'
      BY <1>5, <2>2, <2>5 DEF CompletedOf
    <3>2. \A n \in DOMAIN runs' : n \in DOMAIN runs \/ n = Len(runs) + 1
      BY <2>2
    <3>3. DOMAIN runs \subseteq DOMAIN runs'
      BY <2>2
    <3> QED BY <2>2, <3>1, <3>2, <3>3 DEF CompletedOf
  <2>6. HasNewest'
    <3>1. ASSUME NEW b \in Artifacts, CompletedOf(b)' # {}
          PROVE  \E n \in CompletedOf(b)' : Newest(b, n)'
      <4>1. CASE b = a
        BY <2>3, <2>4, <4>1
      <4>2. CASE b # a
        BY <2>5, <3>1, <4>2 DEF EvidenceInv, HasNewest, Newest
      <4> QED BY <4>1, <4>2
    <3> QED BY <3>1 DEF HasNewest
  <2>7. ASSUME faults = 0, NEW b \in Artifacts, NEW n \in CompletedOf(b)', Newest(b, n)'
        PROVE  Bears(evidence'[b], runs'[n], b)
    <3>1. CASE b = a
      <4>1. n = Len(runs) + 1
        <5>1. new <= n
          BY <2>3, <2>7, <3>1 DEF Newest
        <5>2. n \in 1 .. (Len(runs) + 1)
          BY <2>2, <2>3
        <5> QED BY <2>0, <2>2, <5>1, <5>2
      <4>2. Bears(evidence[a], run, a)
        BY <1>0, <1>1, <1>5, <2>7, RecordsItsOwn
      <4> QED BY <1>1, <2>2, <3>1, <4>1, <4>2
    <3>2. CASE b # a
      <4>1. n \in CompletedOf(b) /\ Newest(b, n) /\ n \in DOMAIN runs
        BY <2>5, <2>7, <3>2 DEF Newest, CompletedOf
      <4>2. Bears(evidence[b], runs[n], b)
        BY <1>3, <2>7, <3>2, <4>1 DEF EvidenceInv, NewestBears
      <4> QED BY <1>1, <2>2, <4>1, <4>2
    <3> QED BY <3>1, <3>2
  <2> QED BY <1>1, <1>2, <2>6, <2>7 DEF EvidenceInv, NewestBears
<1>6. \/ runs' = runs /\ Duplicate(analyzer[w].answer.files)
      \/ \E run : /\ runs' = Append(runs, run)
                  /\ run.status = "completed" /\ run.artifact = {a}
                  /\ run.ruleset = analyzer[w].answer.ruleset
                  /\ DOMAIN run.disposition = analyzer[w].answer.findings
                  /\ run.evidence = evidence[a]
  <2>1. CASE Duplicate(analyzer[w].answer.files)
    BY <2>1 DEF Commit
  <2>2. CASE ~Duplicate(analyzer[w].answer.files)
    <3> DEFINE run ==
          [package |-> analyzer[w].package, status |-> "completed",
           ruleset |-> analyzer[w].answer.ruleset,
           artifact |-> {analyzer[w].artifact},
           stage |-> "", message |-> "", files |-> analyzer[w].answer.files,
           disposition |-> [f \in analyzer[w].answer.findings |-> "unreviewed"],
           evidence |-> evidence[analyzer[w].artifact]]
    <3>1. runs' = Append(runs, run)
      BY <2>2 DEF Commit
    <3>2. /\ run.status = "completed" /\ run.artifact = {a}
          /\ run.ruleset = analyzer[w].answer.ruleset
          /\ DOMAIN run.disposition = analyzer[w].answer.findings
          /\ run.evidence = evidence[a]
      BY <1>0
    <3> HIDE DEF run
    <3> QED BY <3>1, <3>2
  <2> QED BY <2>1, <2>2
<1> QED BY <1>4, <1>5, <1>6

-----------------------------------------------------------------------------
(* The theorem on evidence                                                 *)

LEMMA InitEvidenceInv == Init => EvidenceInv
<1> SUFFICES ASSUME Init PROVE EvidenceInv
  OBVIOUS
<1>1. DOMAIN runs = {}
  BY Empty DEF Init
<1>2. \A a : CompletedOf(a) = {}
  BY <1>1 DEF CompletedOf
<1>3. \A w \in Analyzers : analyzer[w].pc \notin Writing
  BY DEF Init, Idle, Writing
<1> QED BY <1>2, <1>3 DEF EvidenceInv, HasNewest, AllWritten, HasWritten, NewestBears

LEMMA NextEvidenceInv == IInv /\ TypeInv /\ EvidenceInv /\ [Next]_vars => EvidenceInv'
<1> SUFFICES ASSUME IInv, TypeInv, EvidenceInv, [Next]_vars PROVE EvidenceInv'
  OBVIOUS
<1>1. TablesTyped
  BY DEF IInv
<1>2. ASSUME NEW w \in Analyzers, HostStep(w) PROVE EvidenceInv'
  BY <1>1, <1>2, EarlyBears, WorkerBears, TruncateBears, WriteFileBytesBears,
     CommitBears DEF HostStep
<1>3. ASSUME NEW w \in Analyzers,
             \/ Begin(w) \/ ChildStep(w) \/ DeadlinePasses(w)
             \/ DownloadFails(w) \/ WriteFails(w) \/ Kill(w)
      PROVE  EvidenceInv'
  BY <1>1, <1>3, EarlyBears, WorkerBears, FaultBears
<1>4. ASSUME NEW r \in Readers, SelectFinding(r) \/ ReadArtifact(r) PROVE EvidenceInv'
  BY <1>4, ReaderBears
<1>5. ASSUME NEW v \in Reviewers, Look(v) \/ ReviewStep(v) \/ KillReview(v)
      PROVE  EvidenceInv'
  BY <1>5, ReviewerBears
<1>6. CASE UNCHANGED vars
  <2>1. UNCHANGED <<evidence, analyzer, runs, faults>>
    BY <1>6 DEF vars
  <2> QED BY <2>1, SameRuns, Unmoved
<1> QED BY <1>2, <1>3, <1>4, <1>5, <1>6 DEF Next

LEMMA EvidenceHolds == EvidenceInv => NewestIsBacked
<1> SUFFICES ASSUME EvidenceInv, NEW a \in Artifacts,
                    CompletedOf(a) # {}, faults = 0,
                    \A w \in Analyzers : ~WritesTo(analyzer[w], a)
             PROVE  LET newest == runs[CHOOSE n \in CompletedOf(a) :
                                         \A m \in CompletedOf(a) : m <= n]
                    IN Bears(evidence[a], newest, a)
  BY DEF NewestIsBacked, CompletedOf, WritesTo, Writing, Bears
<1> DEFINE n == CHOOSE n \in CompletedOf(a) : \A m \in CompletedOf(a) : m <= n
<1>1. \E k \in CompletedOf(a) : \A m \in CompletedOf(a) : m <= k
  BY DEF EvidenceInv, HasNewest, Newest
<1>2. n \in CompletedOf(a) /\ \A m \in CompletedOf(a) : m <= n
  BY <1>1
<1> HIDE DEF n
<1>3. Newest(a, n)
  BY <1>2 DEF Newest
<1>4. Bears(evidence[a], runs[n], a)
  BY <1>2, <1>3 DEF EvidenceInv, NewestBears
<1> QED BY <1>4 DEF n

\* However analyses of an artifact follow each other by any rules, under any
\* package and beside any readers and reviewers: while no fault has cut one short
\* and none writes, the directory of the artifact is what its last completed run
\* recorded, and is of that run (analyze_package).
THEOREM NewestRunIsBacked == Spec => []NewestIsBacked
<1>1. IInv /\ TypeInv /\ EvidenceInv /\ [Next]_vars => (IInv /\ TypeInv /\ EvidenceInv)'
  BY NextIInv, NextTypeInv, NextEvidenceInv
<1>2. Init => IInv /\ TypeInv /\ EvidenceInv
  BY InitIInv, InitTypeInv, InitEvidenceInv
<1> QED BY <1>1, <1>2, EvidenceHolds, PTL DEF Spec

=============================================================================
