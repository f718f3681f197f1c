------------------------------ MODULE StorageV2 ------------------------------
(***************************************************************************)
(* The read model of storage v2 (src/tools/storage_v2_foundation.py,       *)
(* storage_v2_reconcile.py, storage_v2_mvp.py, bulk_static_analysis_v2.py, *)
(* bulk_runtime_discovery_v2.py).                                          *)
(*                                                                         *)
(* The history catalog holds the findings of every run. Triggers, and a    *)
(* backfill for the runs they did not see, keep a summary of each run; the *)
(* static batch adds the summaries up and both services copy the sums to   *)
(* the hot catalog that the portal reads.                                  *)
(*                                                                         *)
(* Only completed runs and the counters of findings are here: the counters *)
(* of files and dependencies, by triggers of their own, never change after *)
(* the run. So are rule texts, evidence bundles and the registry tables    *)
(* left out.                                                               *)
(***************************************************************************)
EXTENDS Naturals, Sequences, FiniteSets, FiniteSetsExt

CONSTANTS
  Findings,       \* the findings of a run
  Packages,       \* package records of the schedule
  Legacy,         \* runs made before storage v2 was installed
  BackfillBatch,  \* --backfill-batch-size
  MaxRuns,        \* bound on runs
  MaxReviews,     \* bound on reviews
  MaxKills        \* bound on kills

ASSUME FindingsAssumption == Findings # {} /\ IsFiniteSet(Findings)
ASSUME PackagesAssumption == IsFiniteSet(Packages)
ASSUME BatchAssumption == BackfillBatch \in Nat \ {0}
ASSUME BoundsAssumption ==
  /\ Legacy \in Nat /\ MaxRuns \in Nat
  /\ MaxReviews \in Nat /\ MaxKills \in Nat

Dispositions == {"unreviewed", "suspicious", "expected"}
Run == [Findings -> Dispositions]
Unreviewed == [f \in Findings |-> "unreviewed"]

\* The triggers in the order in which they are dropped and created.
Order == <<"runs", "findings", "dispositions">>
Triggers == {Order[i] : i \in DOMAIN Order}

Summary == [findings : Nat, unreviewed : Nat, suspicious : Nat]
Zero == [findings |-> 0, unreviewed |-> 0, suspicious |-> 0]

Services == {"static", "runtime"}
Nobody == "nobody"

VARIABLES
  findings,     \* analysis_findings, by run id
  summary,      \* analysis_v2_run_summaries, for the ids that have one
  occurrences,  \* ids with rows in analysis_v2_rule_summaries
  schedule,     \* static_analysis_schedule_state: a completed row's run, or 0
  coverage,     \* analysis_v2_coverage_summary
  triggers,     \* those that exist
  batch,        \* bulk_static_analysis_v2.py
  copy,         \* the publication in progress; its owner locks the hot catalog
  hot,          \* what has been published
  missed,       \* history: runs written past some of the triggers only
  reviews,
  kills

history == <<findings, summary, occurrences, schedule, coverage, triggers>>
vars == <<history, batch, copy, hot, missed, reviews, kills>>

Locking == {"drop", "create", "materialize"}
Idle == [pc |-> "idle", step |-> 1, late |-> FALSE]
NoCopy == [by |-> Nobody, pc |-> "coverage", summary |-> << >>, coverage |-> Zero]

\* Storage v2 meets a v1 catalog: no summaries and no triggers.
Init ==
  /\ findings = [n \in 1 .. Legacy |-> Unreviewed]
  /\ summary = << >> /\ occurrences = {}
  /\ schedule = [p \in Packages |-> 0]
  /\ coverage = Zero
  /\ triggers = {}
  /\ batch = Idle
  /\ copy = NoCopy
  /\ hot = [summary |-> << >>, coverage |-> Zero]
  /\ missed = {} /\ reviews = 0 /\ kills = 0

\* The history catalog's writer lock.
Unlocked == batch.pc \notin Locking

Put(table, n, row) ==
  [m \in DOMAIN table \cup {n} |-> IF m = n THEN row ELSE table[m]]

With(run, d) == {f \in Findings : run[f] = d}

\* What a summary should say.
Recount(run) ==
  [findings |-> Cardinality(Findings),
   unreviewed |-> Cardinality(With(run, "unreviewed")),
   suspicious |-> Cardinality(With(run, "suspicious"))]

-----------------------------------------------------------------------------
(* Writers of the v1 tables                                                *)

\* A child of the scheduler, one that outlived it or a direct analysis adds
\* a run with its findings in one transaction.
Analyse ==
  LET n == Len(findings) + 1
      counted == "findings" \in triggers
  IN
  /\ Unlocked /\ Len(findings) < MaxRuns
  /\ findings' = Append(findings, Unreviewed)
  /\ summary' = IF "runs" \in triggers
                THEN Put(summary, n, IF counted THEN Recount(Unreviewed) ELSE Zero)
                ELSE summary
  /\ occurrences' = IF counted THEN occurrences \cup {n} ELSE occurrences
  /\ missed' = IF counted # ("runs" \in triggers)
               THEN missed \cup {n} ELSE missed
  /\ UNCHANGED <<schedule, coverage, triggers, batch, copy, hot, reviews, kills>>

\* A scheduler, the batch's or one that outlived its batch, records a run,
\* which may be another package's (reuse).
Complete(p, n) ==
  /\ Unlocked /\ schedule[p] = 0
  /\ schedule' = [schedule EXCEPT ![p] = n]
  /\ UNCHANGED <<findings, summary, occurrences, coverage, triggers,
                 batch, copy, hot, missed, reviews, kills>>

One(condition) == IF condition THEN 1 ELSE 0

\* Mutant: only what a finding becomes is counted.
MovedTo(row, old, new) ==
  [findings |-> row.findings,
   unreviewed |-> row.unreviewed + One(new = "unreviewed"),
   suspicious |-> row.suspicious + One(new = "suspicious")]

\* The trigger on dispositions.
Moved(row, old, new) ==
  [findings |-> row.findings,
   unreviewed |-> (row.unreviewed + One(new = "unreviewed"))
                    - One(old = "unreviewed"),
   suspicious |-> (row.suspicious + One(new = "suspicious"))
                    - One(old = "suspicious")]

\* Mutant: no CHECK.
CountableAlways(row, old) == TRUE

\* CHECK(... >= 0): a count of zero refuses the review.
Countable(row, old) ==
  /\ old = "unreviewed" => row.unreviewed > 0
  /\ old = "suspicious" => row.suspicious > 0

\* review-finding, under the lock.
Review(n, f, d) ==
  LET old == findings[n][f]
      seen == "dispositions" \in triggers
      counted == seen /\ n \in DOMAIN summary
  IN
  /\ Unlocked /\ reviews < MaxReviews
  /\ d # "unreviewed" /\ d # old
  /\ counted => Countable(summary[n], old)
  /\ findings' = [findings EXCEPT ![n] = [@ EXCEPT ![f] = d]]
  /\ summary' = IF counted
                THEN Put(summary, n, Moved(summary[n], old, d)) ELSE summary
  /\ missed' = IF ~seen /\ n \in DOMAIN summary
               THEN missed \cup {n} ELSE missed
  /\ reviews' = reviews + 1
  /\ UNCHANGED <<occurrences, schedule, coverage, triggers, batch, copy,
                 hot, kills>>

-----------------------------------------------------------------------------
(* The static batch                                                        *)

\* Both times the batch runs the foundation, it takes the lock and installs
\* the triggers anew. The script commits after every statement.
BeginInstall ==
  /\ batch.pc \in {"idle", "schedule"}
  /\ batch' = [pc |-> "drop", step |-> 1, late |-> batch.pc = "schedule"]
  /\ UNCHANGED <<history, copy, hot, missed, reviews, kills>>

Following(next) ==
  IF batch.step < Len(Order) THEN [batch EXCEPT !.step = @ + 1]
  ELSE [batch EXCEPT !.pc = next, !.step = 1]

Drop ==
  /\ batch.pc = "drop"
  /\ triggers' = triggers \ {Order[batch.step]}
  /\ batch' = Following("create")
  /\ UNCHANGED <<findings, summary, occurrences, schedule, coverage, copy,
                 hot, missed, reviews, kills>>

Create ==
  /\ batch.pc = "create"
  /\ triggers' = triggers \cup {Order[batch.step]}
  /\ batch' = Following("materialize")
  /\ UNCHANGED <<findings, summary, occurrences, schedule, coverage, copy,
                 hot, missed, reviews, kills>>

\* Mutant: every run is taken, not only those without a summary.
UnsummarizedAny == DOMAIN findings

Unsummarized == DOMAIN findings \ DOMAIN summary

\* The next runs to backfill, lowest ids first.
Selected ==
  {n \in Unsummarized :
     Cardinality({m \in Unsummarized : m < n}) < BackfillBatch}

Backfilled ==
  [n \in DOMAIN summary \cup Selected |->
     IF n \in DOMAIN summary THEN summary[n] ELSE Recount(findings[n])]

SumOf(column, runs) == MapThenSumSet(LAMBDA n : column[n], runs)

Total(rows, runs) ==
  [findings |-> SumOf([n \in runs |-> rows[n].findings], runs),
   unreviewed |-> SumOf([n \in runs |-> rows[n].unreviewed], runs),
   suspicious |-> SumOf([n \in runs |-> rows[n].suspicious], runs)]

Scheduled(rows) == {p \in Packages : schedule[p] \in DOMAIN rows}

\* refresh_coverage: a sum over package rows, each with its run's summary.
refresh_coverage(rows) ==
  Total([p \in Scheduled(rows) |-> rows[schedule[p]]], Scheduled(rows))

CanonicalRuns == {schedule[p] : p \in Packages} \cap DOMAIN summary

\* One transaction. Before the schedule there is no backfill.
Materialize ==
  LET rows == IF batch.late THEN Backfilled ELSE summary IN
  /\ batch.pc = "materialize"
  /\ batch.late => Selected \cap occurrences = {}
  /\ summary' = rows
  /\ occurrences' = IF batch.late THEN occurrences \cup Selected ELSE occurrences
  /\ coverage' = refresh_coverage(rows)
  /\ batch' = [Idle EXCEPT !.pc = IF batch.late THEN "reconcile" ELSE "schedule"]
  /\ UNCHANGED <<findings, schedule, triggers, copy, hot, missed, reviews, kills>>

\* Rule rows without a summary: the insert fails and the batch with it.
MaterializeFails ==
  /\ batch.pc = "materialize" /\ batch.late
  /\ Selected \cap occurrences # {}
  /\ batch' = Idle
  /\ UNCHANGED <<history, copy, hot, missed, reviews, kills>>

\* reconcile: a sum over the runs.
Reconcile ==
  /\ batch.pc = "reconcile"
  /\ coverage' = Total(summary, CanonicalRuns)
  /\ batch' = [batch EXCEPT !.pc = "publish"]
  /\ UNCHANGED <<findings, summary, occurrences, schedule, triggers, copy,
                 hot, missed, reviews, kills>>

-----------------------------------------------------------------------------
(* Publication                                                             *)

\* publish_summaries: under the lock of the hot catalog, and with one read
\* of the history catalog after the other.
BeginPublish(s) ==
  /\ copy.by = Nobody
  /\ s = "static" => batch.pc = "publish"
  /\ copy' = [NoCopy EXCEPT !.by = s, !.summary = summary]
  /\ batch' = IF s = "static" THEN [batch EXCEPT !.pc = "copying"] ELSE batch
  /\ UNCHANGED <<history, hot, missed, reviews, kills>>

ReadCoverage ==
  /\ copy.by # Nobody /\ copy.pc = "coverage"
  /\ copy' = [copy EXCEPT !.pc = "commit", !.coverage = coverage]
  /\ UNCHANGED <<history, batch, hot, missed, reviews, kills>>

\* INSERT OR REPLACE.
Merged(old, new) ==
  [n \in DOMAIN old \cup DOMAIN new |->
     IF n \in DOMAIN new THEN new[n] ELSE old[n]]

CommitPublish ==
  /\ copy.by # Nobody /\ copy.pc = "commit"
  /\ hot' = [summary |-> Merged(hot.summary, copy.summary),
             coverage |-> copy.coverage]
  /\ copy' = NoCopy
  /\ batch' = IF copy.by = "static" THEN Idle ELSE batch
  /\ UNCHANGED <<history, missed, reviews, kills>>

-----------------------------------------------------------------------------

\* A service is killed: its locks are free and its transaction is undone,
\* but the triggers are as the script left them.
Kill(s) ==
  /\ kills < MaxKills /\ kills' = kills + 1
  /\ s = "static" => batch # Idle
  /\ s = "runtime" => copy.by = s
  /\ batch' = IF s = "static" THEN Idle ELSE batch
  /\ copy' = IF copy.by = s THEN NoCopy ELSE copy
  /\ UNCHANGED <<history, hot, missed, reviews>>

BatchStep ==
  \/ BeginInstall \/ Drop \/ Create \/ Materialize \/ MaterializeFails
  \/ Reconcile \/ BeginPublish("static")

CopyStep == ReadCoverage \/ CommitPublish

Next ==
  \/ Analyse
  \/ \E p \in Packages : \E n \in DOMAIN findings : Complete(p, n)
  \/ \E n \in DOMAIN findings : \E f \in Findings : \E d \in Dispositions :
       Review(n, f, d)
  \/ BatchStep \/ BeginPublish("runtime") \/ CopyStep
  \/ \E s \in Services : Kill(s)

\* Timers start the services again and again. Another publication may hold
\* the hot catalog when the batch wants it, but never for good: flock is not
\* fair, so that the batch gets it in the end is assumed (strong fairness).
Fairness ==
  /\ WF_vars(BatchStep) /\ WF_vars(CopyStep)
  /\ SF_vars(BeginPublish("static"))

Spec == Init /\ [][Next]_vars /\ Fairness

-----------------------------------------------------------------------------
(* Properties                                                              *)

\* Every variable has its type.
TypeOK ==
  /\ findings \in Seq(Run)
  /\ DOMAIN summary \subseteq DOMAIN findings
  /\ \A n \in DOMAIN summary : summary[n] \in Summary
  /\ occurrences \subseteq DOMAIN findings
  /\ schedule \in [Packages -> {0} \cup DOMAIN findings]
  /\ coverage \in Summary /\ hot.coverage \in Summary
  /\ triggers \subseteq Triggers
  /\ batch.pc \in Locking \cup {"idle", "schedule", "reconcile", "publish",
                                "copying"}
  /\ batch.step \in DOMAIN Order /\ batch.late \in BOOLEAN
  /\ copy.by \in Services \cup {Nobody} /\ copy.pc \in {"coverage", "commit"}
  /\ missed \subseteq DOMAIN findings
  /\ reviews \in 0 .. MaxReviews /\ kills \in 0 .. MaxKills

\* Whether a trigger or the backfill made it, and however reviews fall before,
\* between and after them, the summary of a run is the recount of its findings,
\* but for the runs that were written while a killed installation had left
\* only some of the triggers (backfill and TRIGGERS in the foundation).
SummariesAreExact ==
  \A n \in DOMAIN summary \ missed : summary[n] = Recount(findings[n])

Exact == [n \in DOMAIN findings |-> Recount(findings[n])]

Canonical ==
  Total(Exact, {schedule[p] : p \in Packages} \cap DOMAIN findings)

\* Reviews and analyses come to the hot catalog in the end, although two
\* services publish there from reads that are not of one moment; and however
\* often the sums are multiplied there, they are put right again
\* (publish_summaries, reconcile).
HotCatchesUp ==
  /\ <>[](missed = {} => hot.summary = Exact)
  /\ []<>(missed = {} => hot.coverage = Canonical)

=============================================================================
