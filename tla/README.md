# MCP Observatory: specifications

TLA+ models of MCP Observatory, checked with TLC, and theorems about them
proved with TLAPS. `PROJECT.json` maps every definition to the source lines it
stands for, and lists the runs, the hazards of the code with the properties
that cover them, and the disagreements found between documents and code.

    tlc -workers 2 -config MCRegistryMaintenance_restore.cfg MCRegistryMaintenance.tla
    tlapm RegistryCollector_proofs.tla

## 1. The system

MCP Observatory collects the public MCP Registry into immutable bundles,
imports them into a SQLite catalog, and runs static analysis and sandboxed
runtime discovery over what the catalog lists. There is no server: the system
is a set of commands and timers that meet in files.

| Component | State | Operations | Meets the others through |
| --- | --- | --- | --- |
| Registry collector (`src/registry.cpp`) | partial directories, the bundle at the output path | collect, resume, legacy reconstruction, self-validation, promotion | the Registry over HTTP; other collectors with the same output; the importer reads its bundle |
| Catalog importer (`src/explorer.cpp`) | snapshot rows, canonical variants, links | index (one transaction), latest snapshot, read-only queries | the catalog file, the writer lock |
| `registry refresh` (`src/main.cpp`) | none | baseline, incremental collection, import | collector, importer |
| Writer lock (`src/catalog_lock.cpp`, `writer_lock` in the tools) | one advisory `flock` per database path | acquire, release by close | every catalog writer except the runtime runners |
| Registry maintenance (`tools/registry_maintenance.py`) | published database, staging files, backups with metadata, status record | refresh, backup, restore | all of the above; replaces the database file under its readers and writers |
| Static analysis (`src/analyze.cpp`, `acquisition.cpp`) | analysis runs, findings, reviews; the evidence directory of each artifact | analyze package, finding-source, review-finding | package registries, a worker process in a container; holds the writer lock for the whole analysis |
| Bulk static scheduler (`tools/bulk_static_analysis.py`) | one schedule row per package and profile | synchronize, claim, run, record | catalog, static analysis as a child process |
| Storage v2 (`tools/storage_v2_*.py`, `bulk_*_v2.py`) | history and hot catalog, summaries, coverage, triggers | install, backfill, reconcile, registry sync, publish | both catalogs, both locks, maintenance on the hot one |
| Runtime discovery (`tools/runtime_discovery*.py`, `bulk_runtime_discovery*.py`) | observations, schedule rows | observe, compare, queue | catalog (the runner without the lock), sandbox |
| Declared remote runtime (`tools/*remote_runtime_discovery.py`) | observations per endpoint, schedule rows | probe, queue, stale recovery | catalog, without any lock |
| Observations, inventories, history (`src/observation.cpp`, `inventory.cpp`, `history.cpp`, `target_manifest.cpp`) | the observation file, the target manifest | ingest-observation; latest, summary, diff-latest; manifest summary | files |
| Command line, units, portal tools | none | argument parsing, index creation | all |

What is hard in each, and what makes it correct:

* **Collector.** A page is committed by three durable steps (raw page, page
  history, checkpoint); a kill, a failed write or another collector may come
  between any two, and a later run may resume from the result, also while the
  first still writes. Correct: a checkpoint names only pages that are there and
  form one chain; what was committed is neither fetched again nor skipped; what
  is published is one complete collection, published once; every collection
  ends even if the Registry never answers.
* **Maintenance, importer, lock.** A refresh works on a copy for minutes and
  then replaces the live file; an operator may index, back up or restore; a
  runtime runner writes without the lock; any of them may die. Correct: readers
  see whole catalogs, each the last one and one snapshot more; nothing that was
  acknowledged is lost; every replaced catalog is in a verified backup; an
  incremental refresh misses nothing but what changed during a collection.
* **Schedulers.** A claim, a child process and a result are separate
  transactions of processes that may be taken for dead, over a catalog that may
  be replaced in between. The timer starts one service at a time, but the same
  tool and the analyzer are also run by hand. Correct: an artifact is analysed
  once, a completed row has its run, attempts are bounded, each package is
  settled.
* **Static analysis.** An analysis reads the catalog before it waits for the
  lock, trusts the answer of a child it may have to kill, and rewrites in place
  the evidence that earlier runs and concurrent readers refer to. A reviewer
  decides from what another may change meanwhile. The worker computes line
  numbers, cut snippets and source windows in bytes over text of any encoding.
  Correct: a finding cites the line its evidence was cut from; the source that
  is shown is the file that was analysed, and contains what the finding names;
  reviews are one chain per finding; every analysis gives the lock back.
* **Storage v2.** Two databases updated by turns, and derived counters kept by
  triggers, backfills and a reconciliation. Correct: the summaries equal what
  they summarize, and the hot catalog comes to show them.
* **Observations and history.** The writer drops unknown members and white
  space from a document that a strict reader accepted, and appends to a file
  that every later command reads whole; it may be killed in the middle of a
  line. Correct: what was acknowledged stays readable, or the file is refused;
  latest and previous are the two most recent; a reported drift is a difference
  of what the documents said.

## 2. Modules

| Module | Models |
| --- | --- |
| `RegistryCollector` | `collect_registry` with `resume`, by any number of processes |
| `PageLog` | what a collection promises: append-only page logs, one published |
| `MCRegistryCollector` | instances of it |
| `RegistryCollector_proofs` | its theorems about types, ownership and publication |
| `CommittedPages_proofs` | its theorems about what is committed and published, and that it implements `PageLog` |
| `Catalog` | snapshot rows, the import transaction, the latest snapshot: pure operators |
| `RegistryMaintenance` | refresh, backup, restore, index, the runtime runner and the lock |
| `PublishedCatalog` | what the readers of the published catalog are promised |
| `MCRegistryMaintenance` | instances of it |
| `RegistryMaintenance_proofs` | its theorems, those under a single refresher, and that it implements `PublishedCatalog` |
| `StaticScheduler` | the bulk scheduler of static analyses, its children, kills, restores |
| `MCStaticScheduler` | instances of it |
| `StaticScheduler_proofs` | its theorems |
| `ObservationHistory` | the readers, ingest-observation, the history commands, the target manifest |
| `MCObservationHistory` | documents and lines for it |
| `ObservationHistory_proofs` | its theorems |
| `PackageArchive` | rules document, archive, findings, the worker's answer, source windows: pure operators |
| `PackageMetadata` | package records, answers of the package registries, integrity: pure operators |
| `PackageAnalysis` | analysis of a package, its worker and evidence, finding-source and review |
| `MCPackageAnalysis` | archives and answers for it |
| `PackageAnalysis_proofs` | its theorems about types, reviews and evidence |
| `FindingSource_proofs` | its theorems about lines, snippets and shown source |
| `StorageV2` | summaries, triggers, backfill, reconciliation and publication |
| `MCStorageV2` | an instance of it |
| `StorageV2_proofs` | its theorems |

### 2.1 Collector: state and actions

`disk[d]` is a partial directory `<output>.partial-<id>`: its raw pages, page
history (`raw/pages.jsonl`), durable head (`checkpoint.json`), canonical
records, diagnostics, manifest and `_SUCCESS`; directory 0 is a partial from
before checkpoints existed. `output` is the destination. `run[p]` is the memory
of process `p`, whose `pc` names its next file operation or network wait. One
action is one file operation or one decision, in the order of the code:
`InitializeHistory`, `InitializeHead`; `ResumeSource` to `AdoptHead` for a
resume; `NextPage`, `Request`, the network's answer, `Validate`, `StorePage`,
`StoreHistory`, `StoreHead` for every page; `Canonicalize` to `Promote`. A
reconstruction is the check that there is no checkpoint (`CheckReconstruct`), the
reading of the raw pages (`ReconstructState`), the write of their history
(`ReconstructHistory`) and that of the checkpoint (`ReconstructHead`): nothing
keeps another process from committing pages between them. The digest in a
checkpoint is of the history as read back after its write (`Digest`), so that it
may be another process's. The self-validation compares the artifacts with their
digests (`SelfCheck`) and then reads the history again (`CheckHistory`).

Abstractions. A digest is the content it is taken over. A file written to a
temporary name, renamed and synced is one step with three outcomes
(`Replace`): done; failed with nothing changed; failed after the rename, when
the directory sync reports an error. The canonical records and the manifest
are written in place, but nobody reads them before the self-validation in the
same process. `MatchHead` compares the checkpoint with the digest and with the
lines of the history in one step, where the code reads the file for each: the
history that is used is read once more, and nothing rests on the lines compared.
The counter of completed records is left out: it is a function of
the pages. Checkpoint version 1 is read by the code and no longer written by
it; it is not modelled, nor is `registry checkpoint reconstruct`, which does no
more than the reconstruction before a resume. How long a retry waits is not
modelled, that it waits and how often is. Pages echo no input cursor in the runs,
as the official Registry's do not.

### 2.2 Maintenance: state and actions

`live` is the database at the published path: an inode number that grows with
each replacement, whether it validates, and its contents. A catalog is the
sequence of its snapshot rows; a snapshot's digest is its set of records,
because `snapshot_sha256` is taken over the canonical records alone and those
hold no time of collection. `backups` maps names to a file and at most one
metadata file, as two steps write them. `lock` is the `flock`. `reg` and `now`
are the Registry and the clock: an incremental collection gets, identity by
identity while they change, what was updated since its filter.

`BeginRefresh` to `WriteSuccess` are the steps of `refresh` with the
`registry refresh` it runs; `Fail`, `LoadStatus`, `WriteFailure` its error
path, which runs after the lock is released; `BeginBackup`, `BeginRestore`
and the `BackupFile` and `BackupMetadata` they share; `BeginIndex`,
`OpenCatalog`, `CommitIndex` the direct import of a preserved bundle;
`BeginObserve`, `Persist`, `VerifyRun` the runtime runner and its scheduler.
`Kill` ends a process anywhere.

Abstractions. The page and record counts compared after staging follow from
the digest. Integrity is one bit, lost by `Damage`. `--updated-since` is left
out: it asks for another filter on purpose. Each refresh attempt of one
process starts in a later second than its last, as a timer's do. Symbolic
links to the database are not modelled: every process uses one path. SQLite's
rollback journal is not modelled; a transaction is one step.
`acked`, `verified` and `past` are history variables: no action reads them.

### 2.3 Static scheduler: state and actions

`packages` are the package records, `rows` the table
`static_analysis_schedule_state` and `runs` the completed `analysis_runs`, all
by id. `lock` is held by no scheduler across steps, because each of theirs is
one transaction (`Synchronize`, `Claim`, `Record`; `Leave` ends the loop of
`execute`); a child holds it from `Acquire` to its exit. `child[c]` is one
analyzer process, named by its scheduler and that one's life, so that a killed
scheduler and its orphan are apart from the restarted one: `Resolve` without the
lock, then `Reject`, or `Reuse`, or `Analyse` and `Commit`, then `Finish`. `Fail`,
`Timeout` and `Kill` are what goes wrong, `Discover` is a catalog refresh,
`TakeBackup` and `Restore` are the maintenance commands as this component sees
them: the tables change as a whole while nobody holds the lock.

Abstractions. The kind of a declaration stands for what `classify`, the
resolver and the metadata parser say of it. A time is an age in ticks that
saturates at the longer of the two delays, beyond which the code tells no ages
apart, so time needs no bound. The snapshot a package was discovered in is the
number of packages at the synchronize that added its row. Failed runs are left
out, as no step reads them, and so are a second analyzer version or profile,
reports and reasons. The analyzer itself is `PackageAnalysis`.

### 2.4 Observations and history: state and actions

`history` is the observation file as the sequence of pieces its writers got to
disk, `writer` the running `ingest-observation`, `manifest` the lines of the
target manifest. `Ingest` reads a document (`read_observation`, member by
member), `AppendRecord` sends its line to the stream, whose buffer the
destructor writes in `Close`; `AppendFails`, `CloseFails` and `Kill` cut a
record short anywhere. `analyze_history`, `compare_inventories` and
`read_target_manifest` are functions of how often their loop has run, each value
defined from the one before, as the loops of the code are.

Abstractions. An object has its member names and the depth to which its unknown
members nest; a text keeps quotes and white space, because `compact_json` and
the readers differ in what they take for a string. A quote after a backslash is
like any other character to both, and is not kept apart from one; a newline after
a backslash is a newline in a string, which no reader refuses. `Pieces` writes a
record in two lines when one is left in it. A timestamp is a rank. Two
commands at once are not modelled: each line is one `write` of a stream opened
for appending, or a few for a longer one. Byte limits and error texts are left
out. `acknowledged` is a history variable.

### 2.5 Static analysis: state and actions

`PackageArchive` follows the data through the worker: `load_analysis_rules`,
`parse_ustar`, the manifest, file records, `scan` and its findings, the answer
and the host's check of it, the window of `finding-source`. A text is a sequence
of bytes of six kinds, enough to cut a character in two and to count lines.
`PackageMetadata` is what precedes: which record is meant, what the npm and PyPI
parsers accept, normalized names and versions, integrity.

`PackageAnalysis` is the processes. `runs` are the rows of `analysis_runs` with
what hangs on them, `evidence[a]` the directory of an artifact, `lock` the writer
lock. `Begin` to `Commit` are the steps of `analyze_package`; `child` is the
worker and its pipe (`ChildWrites`, `ChildCloses`, `ChildExits`, `run_command`,
`DeadlinePasses`); `SelectFinding` and `ReadArtifact` are `finding-source`, which
takes no lock; `Look` to `AcknowledgeReview` are `review-finding`.

Abstractions. A digest is what it is taken over; gzip and base64 are left out.
Four evidence files stand for ten: the last is one of the seven that are made
from the answer. The reader keeps the size of a read, not its bytes. Raw output,
the container's flags and the summary columns of a run are left out.

### 2.6 Storage v2: state and actions

`findings` are the dispositions of each run, `summary` and `occurrences` the
counters and rule rows of a run, `coverage` the one row of sums, `triggers` those
that exist; `hot` is what the portal reads. `Analyse`, `Complete` and `Review`
are the writers of the history catalog with the triggers they fire. `batch` is
one run of `bulk_static_analysis_v2.py`: `BeginInstall`, `Drop` and `Create`
statement by statement, `Materialize` (backfill and coverage, one transaction),
`Reconcile`, `BeginPublish`. `copy` is a publication, by the batch or by the
runtime service, one table after another: `ReadCoverage`, `CommitPublish`.

Abstractions. The counters of findings stand for those of files and
dependencies, which never change after the run; three triggers stand for six.
Only completed runs are there. A command that fails leaves what a kill between
its transactions leaves. Another profile, rule texts, evidence bundles and the
hot catalog's own registry tables are left out. `missed` is a history variable:
the runs that were written while a killed installation had left only some of
the triggers.

## 3. Runs

| Run | Result | What it shows |
| --- | --- | --- |
| `crash` | passes | one collector at a time, any kill or failed write, two generations of resume, five legacy partials: checkpoints are backed, nothing is fetched twice or skipped, the published bundle is complete and its page history exact |
| `race` | passes | two collectors with one destination, one resuming from what the other writes: one bundle, never replaced; a retained partial with a checkpoint stays as it is, but for the page history that a resume may rebuild which found it without one; so does what is published; the whole implements `PageLog` |
| `time` | passes | a Registry that may be silent, redirect, fail or continue forever: every collection ends, and only a commit restarts the stall clock |
| `restore` | passes | refreshes of two identities that change meanwhile, restore or index by an operator, one fault or damage: the catalog implements `PublishedCatalog`, nothing acknowledged is lost, every replaced catalog is recoverable, and what a refresh misses changed during a collection |
| `runtime` | passes | a runner that writes without the lock beside a refresh and an operator, one fault: what was verified is not lost, and every attempt ends |
| `zero_record` | violation | finding 1 |
| `static_rollback` | passes | two schedulers, started again and again, and a fault that may leave an orphan or a restore at any moment, also between a child's commit and its record: before a restore two children meet on a package only when a claim is stale; an artifact is analysed once, a completed row has its run |
| `static_completes` | passes | one scheduler with a time budget, two packages with one artifact and one that has only a wheel, one failure fewer than attempts and maybe an orphan: no package waits or runs forever, and what can be analysed is completed, with its own artifact, and stays so |
| `history` | passes | ingests of valid, invalid and oddly laid out documents, two cut short: a history is refused or read whole and right, and holds what was acknowledged; the reported drift is true; the summary of a manifest is true, or names the first wrong line |
| `analysis` | passes | two analyses, one fault, two reviewers and a reader: findings and shown sources are where they say, evidence is the newest run's, reviews are chains, analyses end |
| `snippet` | violation | finding 2 |
| `storage` | passes | the batch again and again, one kill anywhere, an analysis, a review and the runtime service's publications: summaries are exact, and the hot catalog catches up |

**Bounds.** Collector: chains of at most two pages (a first page, a last page, a
contradicting record, a repeated cursor) and two partials. Two pages are the
least for which one commit can disagree with the one before, two partials the
least for a resume from a resumed run. Maintenance: one or two identities with
one change each, because a missed update needs one identity that is passed and
one still to come; three refreshes, because an empty digest comes back only
with the third, beside one command of an operator, and one attempt of each
process in `runtime`, where three kinds of them meet; a retention of one in
`restore`, which prunes at the second publication; one fault; a clock that
stands at three values in `restore`, one for the start of each refresh. The
identities of `restore` are interchangeable, as the schedulers of
`static_rollback` are, so both are checked up to symmetry. A manual backup is in
`runtime` only: with one command an operator cannot restore what it took.
Every bound is a constant in a guard
(`MaxRuns`, `MaxNow`, `MaxUpdates`, `MaxAttempts`, `MaxFaults`); the code has
no such limits, so where an instance runs out of attempts it stops, and the
runs do not check for deadlock. That nothing waits forever is checked as
liveness instead.

Static scheduler: two packages with one artifact are the least for reuse, two
schedulers (or one and its orphan) the least for a late result, one fault the
least for an orphan, two attempts for a retry after it and three for a claim
after a late result. One restore is enough: it can fall between any two steps, and gives ids out again.
`MaxFaults`, `MaxRestores` and, for both together, `MaxMishaps` bound what the
environment does; attempts and the batch are bounded by the code itself.
`static_rollback` has one fault or one restore, at any moment. Three conditions on
the instances are part of what the runs say. `ClaimIsExclusive` is about the time before a restore,
which forgets the claims made since its backup; and it is checked with a retry
delay no shorter than the stale limit (the defaults are a day and an hour): with
a shorter one the late failure of one scheduler frees the young claim of another. `AnalysableCompletes` is checked with one scheduler: with two, a late
failure recorded over a completion by reuse may find the attempts used up, and
the completion is lost for good. Deadlock is not checked where faults and
packages run out.

History: thirteen documents, six of them refused for one reason each, the others
three targets under a limit of two, equal and different times, three layouts of one
definition, and two whose record is two lines: a lone quote in a member that is
skipped, and an escaped newline in a string. Three records are the least for a
latest, a previous and one that is neither, and a fourth command the least to pass
that limit; one failure tears one line, to which the next record is appended, and
with two the next may be torn as well. Ingests and manifest lines together are at
most four (`MaxInputs`), so that a manifest has up to four lines, for a limit of two
records: one line more than two records and an empty line.

Analysis: six archives (sound, with a character cut, with a path twice, with a
nested manifest, a source distribution, a link out of the package) under two
rule sets, a third being ambiguous. Two analyses are the least for a run whose
evidence is rewritten; two reviewers the least for a decision from a stale
disposition; with three commands between analyses, reviews and reads any two meet.
A snippet of three bytes and a window of six are shorter than the texts, so that
both are cut at every position.

Storage: two package records that share one run are the least for sums over
rows and over runs to differ, one run before the installation and one after it
the least for backfill and trigger to meet, a batch of one leaves a run for the
next backfill. One finding, one review and one kill: the kill may fall between
any two statements. The theorems of section 4 have no such bounds.

**Fairness.** Collector: each process's own steps and its clock are weakly fair
(`Step`, `Tick`), which is what an operating system gives a running process.
Nothing is assumed of the network: no response ever has to come, and
`CollectionEnds` rests on the stall watchdog alone. Maintenance: each process
goes on (`Proceed`), and whoever waits for the lock alone gets it in the end.
`flock` is not promised to be a fair queue; attempts are bounded, so a waiter
is overtaken finitely often and weak fairness is enough. New attempts, faults,
updates and the clock are not fair. Static scheduler: the timer starts a
scheduler again, a running process goes on, and time passes, each weakly fair.
`Claim` is strongly fair: the time budget may end a run before its first claim, and a claim
needs the lock, but neither happens to every run. Discovery, faults, backups
and restores are not fair. Analysis: host and reviewer go on, the worker writes,
closes its output or exits in the end, and the deadline passes, each weakly fair;
a worker that is silent for ever with its output open is excluded, because the
read of `run_command` blocks past its deadline (section 5). Storage: the timer
starts the batch again, and batch and publication go on, weakly fair. That the
batch gets the hot catalog's lock in the end is strong fairness: the runtime
service takes and frees it for ever, and `flock` does not queue. History states
no fairness and no liveness.

## 4. Proofs

Every theorem holds for all values of the constants: any number of processes,
pages, packages, attempts and faults. They rest on the named assumptions of the
modules (limits are positive, sentinels are not values) and on the
conditions that stand in the theorems themselves, each justified below:

| Condition | Of | Why |
| --- | --- | --- |
| `SilentInput`: pages do not echo the cursor of the request | `HeadsAreBacked`, `PublicationsAreComplete` | the official Registry's have no such member (docs/registry-bundle-v1.md:210); a page that echoes another one is the flaw of section 5 |
| `OneRefresher`: one process runs the refresh | `Reversible`, `MissedOnlyThen` | the timer starts a oneshot service, of which there is one instance; two at once meet the hazard at registry_maintenance.py:292 |
| `RetryAfter >= StaleAfter` | `ClaimsAreExclusive` | the defaults are a day and an hour; with a shorter retry delay it is false |
| `restores = 0`, in the formula | `CompletionsAreOwn` | after a restore ids are given out again (section 5) |

### 4.1 Collector

`RegistryCollector_proofs`:

* `TypeCorrect`: `Spec => []TypeOK`;
* `OnePublication`: `Spec => PublishedNeverReplaced`, of several collectors with
  one destination only the first publishes.

The invariant `Inv` is `TypeOK`, `StageOK` of every process, and `Owned`.
`TypeOK` alone is not inductive: that a page goes into the history needs that
there is one (`StageOK`: what memory holds at each stage), and that a write by
one process leaves the partials of the others alone needs that running
processes own different directories, which exist (`Owned`). Each write of the
code is an instance of one lemma about files (`ReplaceStep`), each step in
memory of another (`StageOnly`), so the proof has one step per action and each
is short.

`CommittedPages_proofs` is about the contents of the files:

* `HeadsAreBacked`: `Spec => []HeadIsBacked`, what a checkpoint names is there
  and is one chain;
* `RequestsFollowHeads`: `Spec => []RequestFollowsDurableHead`, a request goes on
  where the durable head ends, so that nothing is fetched twice or skipped;
* `PublicationsAreComplete`: `Spec => []PublishedIsComplete`, what is published is
  one complete chain as its manifest declares it; it validates, or its page
  history is one that a resume rebuilt from its own first pages (section 5);
* `PartialsAreEvidence`: `Spec => RetainedPartialIsEvidence`, no run changes a
  retained partial with a checkpoint, except for such a page history;
* `CommitsOnlyGrow`: `Spec => CommittedOnlyGrows`, and
  `StallClockFollowsCommits`: `Spec => OnlyCommitsResetStall`;
* `LogRefinement`: `Spec => ImplementsPageLog`, step by step: each step of a
  process is a step of its log or leaves all logs alone. Other processes' logs
  are apart from it because of `Owned`.

The invariant `ChainInv` adds to `Inv` that the raw pages and the head of every
partial agree up to the one commit that may be under way (`DirectoriesSound`),
that at each stage the memory of a run agrees with its own partial in the way that
stage has left it (`At`), and that the pages a resume has read are the first of its
source, wherever that is now (`Sourced`): pages are only added, also while another
process goes on writing, and a promotion moves them. It says little of histories,
which others may replace at any time. From the check of the artifacts on (`Ending`)
a history is the declared one or `Rebuilt`, and after the lines are read a bundle is
valid or its history is `Rebuilt`: that survives a further rebuilding
(`AtRebuilt`) because the pages a resume holds are some of the bundle's. `Chained`
of the module also compares echoed cursors, which is why the two theorems about it
name `SilentInput`; `Linked` is what holds without it.

### 4.2 Maintenance

`RegistryMaintenance_proofs`:

* `TypeCorrect`: `Spec => []TypeOK`;
* `ImportsSurvive`: `Spec => []AcknowledgedImportsSurvive` and
  `ObservationsSurvive`: `Spec => []VerifiedObservationsSurvive`, through any
  refreshes, restores, damage and kills;
* `Refinement`: `Spec => ImplementsPublishedCatalog`.

The invariant `Inv` adds that a process past `wait` holds the lock until its error
path, at a step of its task (`Placed`); that the staged copy of a refresh is the
live catalog, and after the import that catalog and one bundle more, that what
a restore stages was published once, and that an index commits to the live file
(`Agrees`); and that the catalogs of the live file and of all backups were
published (`WasPublished`). `Lasting` says of the live catalog what the two survival properties say, also
while it is damaged: a refresh that copies it then would lose what a valid
one shows later.

Its second part, for a single refresher: `Reversible`
(`Spec => []PublicationIsReversible`) and `MissedOnlyThen`
(`Spec => []MissedOnlyDuringCollection`). The invariant `SingleInv` adds to `Inv`, for the
first, that the refresher's backups are stamped no later than its running attempt
(`Stamped`), so that retention keeps the newest, and that before publication there is
a verified backup of the live catalog (`Secured`). For the second it adds that
every bundle holds what was last updated between its filter and its start
(`Sound`, and `Collected` while it is fetched), and that of the snapshots
completed after any given instant one comes before the others (`Traceable`).
Take that instant for the time of the missed update: if the first snapshot after
it has a filter no later, it holds the update or was being collected; if its
filter is later, its baseline is a still earlier snapshot after the update, unless
that one was restored away, which the property excepts.

### 4.3 Static scheduler

`StaticScheduler_proofs`:

* `TypeCorrect`: `Spec => []TypeOK`. The invariant is `TypeInv`: a scheduler has
  had no more lives than there were faults, one that waits for a child has not
  used up its batch, and every row, in a backup too, has its package. That
  attempts stay within `--maximum-attempts` is part of the type of a row, and
  follows from the guard of `Claim`;
* `ArtifactsAnalysedOnce`: `Spec => []OneRunPerArtifact`. The invariant is
  `OnceInv`: a child is between `Acquire` and its exit exactly while it holds the
  lock (`Locked`), since its look for a run to reuse nobody has added one
  (`Fresh`), and the backup has the property as well, as it may come back;
* `CompletionsAreBacked`: `Spec => []CompletedIsBacked`, by `BackedInv`, the
  property of the catalog and of the backup. Record is the step that needs the
  code's check (`verify_run`);
* `CompletionsAreOwn`: `Spec => [](restores = 0 => CompletedIsOwn)`, by `OwnInv`: the
  runs, the children and their schedulers are about the artifact of one package
  under one id. Ids are positions and packages are only added until a restore;
* `ClaimsAreExclusive`: `Spec => []ClaimIsExclusive`, under the condition on its
  delays. The invariant `ClaimInv` follows the age of a claim: a row's last
  attempt is no older than any child that works on it, so that a row which is
  due again has stale children only, and two children on one package are never
  both young (`Apart`).

### 4.4 Static analysis

`PackageAnalysis_proofs`:

* `TypeCorrect`: `Spec => []TypeOK`. The invariant `TypeInv` says what an analyzer
  holds at each step (`AnalyzersTyped`), that one of them is past the lock exactly
  while it holds it (`Locking`), and what a row of `runs` is (`RowsTyped`): a
  completed one has what `analyze_archive` says of its artifact under its rules;
* `ReviewsFormAChain`: `Spec => []ReviewsAreAChain`. The invariant `IInv` adds the
  shape of `runs` and `reviews` (`TablesTyped`), what a reviewer past the lock
  holds (`ReviewersTyped`), and that a reviewer who is about to print made the
  last review, from the disposition it expected (`PrintsItsReview`): between the two
  steps it alone holds the lock;
* `NewestRunIsBacked`: `Spec => []NewestIsBacked`. The invariant `EvidenceInv`: of each
  artifact's completed runs one is the newest, and as long as there was no fault
  an analyzer has written the files that precede its step (`AllWritten`), and where no
  analyzer is writing, the files are those of the newest run (`NewestBears`).

`FindingSource_proofs` goes through the operators of `PackageArchive`:

* `LocationsAreTrue`: `Spec => []FindingsAreLocated`. It follows from `RowsTyped` and
  lemmas about lines: `LineNumber` counts the line ends before a position, so that a
  position is between the end of one line and the next;
* `ShownSourceHolds`: `Spec => []ShownSourceIsTrue`. The invariant `SourceInv`: what a
  reader selected belongs to a row, and what is shown is the window of a
  selected row over a member that has the recorded digest. The lemmas say that the window
  keeps the line of the finding, that the trimmed window begins and ends between
  characters, and that the line it is said to begin on is the one it does.

Counts are cardinalities of sets of positions and the first of them is a minimum, which is
proved to exist from the well-foundedness of the naturals (`FirstIs`): no induction
over texts is needed. `ArchiveAssumption` and `RulesAssumption` say that an archive
is a sequence of headers, and that texts and symbols are sequences of bytes.

### 4.5 Storage v2

`StorageV2_proofs`:

* `TypeCorrect`: `Spec => []TypeOK`;
* `SummariesStayExact`: `Spec => []SummariesAreExact`.

Both hold for any finite set of findings, packages, batch size and bounds. The
invariant of the second adds that findings are runs and that only runs have
summaries. Its heart is a lemma about cardinalities: moving one finding from one
disposition to another changes the recount as the trigger changes the row.

`TypeInv` says of the tables and of the services what type correctness needs.
Counts stay at zero or above although triggers subtract: a kill may have left a
trigger out, so that no sum is exact, but the `CHECK` of the table (`Countable`)
refuses the update that would go below zero. Coverage is a sum over the runs of
a set, defined from the sums of smaller sets: that there is such a function, and
that its values are numbers, is shown by induction on the number of elements.

### 4.6 Observations and history

`ObservationHistory_proofs`:

* `TypeCorrect`: `Spec => []TypeOK`;
* `HistoryExact`: `Spec => []HistoryIsExact`;
* `AcknowledgedKept`: `Spec => []ReadableHoldsAcknowledged`;
* `IntactReadable`: `Spec => []IntactIsReadable`;
* `DriftReal`: `Spec => []DriftIsReal`;
* `ManifestExact`: `Spec => []ManifestIsExact`.

The invariant `IInv` (`StoreOK`) speaks of the pieces of the file, by their
places: the last of them are those that the running command has written so far
(`InHand`); no line is empty (`NoEmpty`); the acknowledged records lie in the file
whole and in their order (`Placed`); and without failures the file is nothing but
those records, one after another (`Tiled`). It says nothing of lines: what
follows about them is proved of any file.

The commands are loops. A loop is a function on `0 .. n` that is defined from its
own values, so that first such a function must be shown to exist (`ReadingIs`,
`MergingIs` and the like). What a loop has found after n rounds is then a set of
numbers that holds 0 and with each number the next one, and `Induction` and
`Steps`, about sets, give that it holds all: a set has a least element that is
missing from it, by the well-foundedness of the naturals. With them:

* `LinesAre`: line n of the file is what lies between two newlines. A line is
  Readable only when it is the two pieces of one record, so a record that lies
  whole in the file and ends at a newline is the end of a line, and of a
  readable line it is the whole (`RecordEnds`). `AcknowledgedKept` follows;
* `AllRead`: what `analyze_history` holds after n lines (`TopIs`: `latest` and
  `previous` are the two greatest in the order of time, then of line).
  `HistoryExact` follows, of any file;
* `ScanIs`: after n characters `compact_json` has written those that are not white
  space outside of strings, and is in a string when the number of quotes is odd.
  So two texts mean the same exactly when it leaves the same of them (`MeaningIs`);
* `RecordsReread`: whatever is accepted is accepted again as it is written, since
  layout and unknown members are all that goes. For well-formed documents its
  record is one line (`WellFormedIsLine`), and `IntactReadable` follows;
* `MergedIs`: the merge of two lists with ascending names ends with their
  difference. At each round the names it has passed in one list are smaller than
  those it has still to pass in the other. `DriftReal` follows from it and
  `MeaningIs`, of any file.

`LimitAssumption` and `InputAssumption` say that limits are numbers and that
documents and lines have the fields the syntax gives them.

### 4.7 Only model-checked

* Liveness: `CollectionEnds`, `AttemptsEnd`, `EveryPackageSettles`,
  `AnalysableCompletes`, `AnalysesEnd`, `HotCatchesUp`. The proof system has no
  rule for `ENABLED` under fairness.

* `PublishedIsExact`, by `crash`, where collectors run one after the other: what is
  published validates, with an exact page history. With several at once it is
  false (section 5).

Every other safety property of a passing run is stated by a theorem of this
section.

## 5. Findings

1. **The second empty refresh fails** (`zero_record`). All empty bundles have one
   digest. When a snapshot with records lies between two empty ones, the
   importer calls the second already indexed, and the refresh fails because
   the latest staged snapshot is another. README.md:260: a zero-record response
   succeeds and imports a new snapshot.
2. **A cut snippet loses the analysis** (`snippet`). `bound_snippet` cuts a
   matched line at a byte, the worker prints the rest of the character as it is,
   and the host refuses an answer that is not UTF-8: a good analysis becomes a
   failed run. docs/artifact-static-analysis-v1.md:14: the container emits bounded
   JSON.

What the models also do, as the code does, and no run states as a violation:

Collector and maintenance

* The page history is replaced before the checkpoint. A run that dies between
  the two leaves a history one line longer than the checkpoint says, which
  resume refuses (registry.cpp:2699-2702), and reconstruction refuses because
  there is a checkpoint. README.md:191 promises that a page that was not
  checkpointed is ignored and fetched again.
* Reconstruction looks for a checkpoint once (registry.cpp:2019), reads the raw
  pages (registry.cpp:2022), and renames the rebuilt history over
  `raw/pages.jsonl` (registry.cpp:2023) without looking again. A full collection
  that resumes from a directory another process has just created, before its first
  checkpoint, does so if that process commits a page meanwhile: the lines carry the
  provenance of a full collection and times of 1970, whatever the directory holds
  by the time of the rename, however late that is. If the other
  process has died meanwhile, the history of a retained partial with a checkpoint is
  gone, and resume refuses the partial (README.md:216-217: the resume directory is
  not overwritten). If it is between its self-check and its promotion, the published
  bundle does not validate (docs/registry-bundle-v1.md:55-58: self-validated
  before `_SUCCESS`, which is written last). `RetainedPartialIsEvidence` and
  `PublishedIsComplete` name this one write, in `race` and in their theorems, and
  allow no other.
* The cursor a page echoes is compared with the requested one by reconstruction
  alone (registry.cpp:1299), not when the page is fetched (registry.cpp:2625): a
  page that echoes another is committed, and no later run can resume it. The
  official Registry echoes none.
* When a sync after `_SUCCESS` or the promotion fails, `fail()` rewrites
  `diagnostics/errors.jsonl` in a directory already marked complete
  (docs/registry-bundle-v1.md:57: `_SUCCESS` is written last).
* The failure path reads and writes the status record without the lock, so a
  success in between loses its `last_success`
  (docs/registry-maintenance.md:50-52).
* Refresh attempts are stamped before they wait for the lock. With overlapping
  attempts and a retention of one, the later to publish prunes the backup it
  has just made (docs/registry-maintenance.md:26-27). `restore` therefore has
  one refresher.

Scheduler

* A release without a supported artifact ends with exit code 7, while the
  scheduler looks for unsupported artifacts under 5: a wheel is a failure
  (docs/bulk-static-analysis.md:157).
* A child killed for its time or output after it has committed leaves a failed
  row beside a completed run until a later synchronize
  (docs/bulk-static-analysis.md:172).
* Synchronize keeps only failed and running rows: what the analyzer found
  unsupported or unresolvable is eligible again, with its attempts
  (docs/bulk-static-analysis.md:153: not yet selected).
* The child resolves its package, waits for the lock and inserts its run under
  that id. After a restore and a refresh the id may be another package's, whose
  row then says completed. `CompletedIsOwn` is checked without restores.

Static analysis

* Evidence is rewritten in place, in a directory that all runs of an artifact
  share: an older run's record of it no longer matches
  (docs/artifact-static-analysis-v1.md:86-88), and a fault in between leaves it
  torn while the older run stays completed. `NewestIsBacked` says what remains.
* A run is reused before the integrity of the download is verified. Several
  refusals leave no row at all (a worker that used other rules, a file recorded
  twice, a name PyPI cannot have), where :88-90 there says that failed attempts
  still insert one.
* The first `package.json` of an npm archive is the manifest, also a nested one.
* `run_command` reads from the worker's pipe without a limit on that read: a
  worker that is silent with its output open outlives the deadline, and holds
  the lock meanwhile.
* `write_file_bytes` looks at the stream before its destructor flushes it.

Observations

* `compact_json` takes every quote for the start or end of a string, the readers
  skip an unknown scalar up to the next delimiter: after a lone quote white space
  is kept, and the record may become two lines (docs/observation-v1.md:28). The
  readers take any character after a backslash in a string they skip, also a
  newline, and `compact_json` keeps it: again a record in two lines.
  `IntactIsReadable` and `DriftIsReal` except such documents (`WellFormed`).
* A record is acknowledged before the destructor of its stream flushes it.

Storage v2

* A kill between the drop and the creation of a trigger lets runs and reviews
  pass uncounted, for good: the backfill takes only runs without a summary. A
  summary of zeros then refuses the review (`CHECK (... >= 0)`), and rule rows
  without a summary make every later backfill fail on their primary key.
* A publication by the runtime service between coverage and reconciliation
  shows sums over package rows, a run counted once for each
  (storage_v2_reconcile.py:2-7). The next batch puts it right.
* The tables are read one after another, so the portal may see two generations
  at once until the next publication.

## 6. Not modelled

* The read-only catalog queries: they change no state. Full-text pages are
  ordered by a rank that an import between two pages changes.
* The declared remote runtime and the queue of the local one. The local queue is
  the static scheduler's over another table. The remote one claims without a
  lock, selects and claims in two transactions
  (bulk_remote_runtime_discovery.py:323), and reads its result as the newest row
  of the endpoint, so that a runner that dies before its row lets an older one
  stand. Its outcomes are decided by remote servers and by the ages of two tables.
* In storage v2: the registry tables and their synchronization
  (storage_v2_registry_sync.py, storage_v2_sync_schedule.py), rule texts,
  evidence bundles, cloning. After the hot catalog is restored to an older backup
  its ids are given out again, and the synchronization refuses (:104 there) until
  someone clones anew.
* gzip, digests, base64, byte limits of documents, the curl transport, containers
  and sandboxes, argument parsing, service units, index creation.
* The doubling of the retry delay (registry.cpp:1833), checkpoint version 1, and
  SQLite's rollback journal.

## 7. Plan

In this order, each with its runs, mutants and then its proofs:

1. `RemoteScheduler`: claims without a lock, results read as the newest row,
   recovery.
2. Registry synchronization between two catalogs one of which is restored.
3. The abstract specification of the hot catalog: a past state of the history.
