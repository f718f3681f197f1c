--------------------------- MODULE StaticScheduler ---------------------------
(***************************************************************************)
(* The bulk scheduler of static analyses                                   *)
(* (src/tools/bulk_static_analysis.py) and the analyzer children it runs   *)
(* (analyze_package in src/src/analyze.cpp).                               *)
(*                                                                         *)
(* Schedulers and children share one catalog and its writer lock. Each     *)
(* step of a scheduler is one locked transaction; a child resolves its     *)
(* package without the lock and then holds it until it exits. Children run *)
(* in a session of their own, so they may outlive a killed scheduler.      *)
(*                                                                         *)
(* Failed runs are left out of the run table: no step here reads them. So  *)
(* are reason texts, reports, and a second analyzer or rule set.           *)
(***************************************************************************)
EXTENDS Naturals, Sequences, FiniteSets

CONSTANTS
  Declarations,     \* exact package declarations of server versions
  Kind,             \* what classification and analyzer make of each
  Artifact,         \* the artifact its package registry serves
  Schedulers,
  MaximumAttempts,  \* --maximum-attempts
  StaleAfter,       \* --stale-running-after-seconds, in ticks
  RetryAfter,       \* --retry-failed-after-seconds, in ticks
  BatchSize,        \* --batch-size
  TimeBudget,       \* whether --maximum-run-seconds is positive
  MaxFaults,        \* bound on kills, timeouts and failed downloads
  MaxRestores,      \* bound on restores of the catalog
  MaxMishaps        \* bound on faults and restores together

\* "odd": a registry type in capitals or with blanks, which the scheduler
\* normalises and the analyzer does not. "wheelOnly": a release without a
\* source distribution, the artifact type the analyzer does not support.
Kinds == {"analysable", "wheelOnly", "ambiguous", "odd",
          "unsupported", "incomplete"}

ASSUME KindAssumption ==
  Declarations # {} /\ Kind \in [Declarations -> Kinds]
ASSUME ArtifactAssumption == DOMAIN Artifact = Declarations
ASSUME LimitsAssumption ==
  /\ MaximumAttempts \in Nat \ {0} /\ BatchSize \in Nat \ {0}
  /\ StaleAfter \in Nat /\ RetryAfter \in Nat
  /\ TimeBudget \in BOOLEAN
ASSUME BoundsAssumption == {MaxFaults, MaxRestores, MaxMishaps} \subseteq Nat

Artifacts == {Artifact[d] : d \in Declarations}
None == {}                \* a column that is NULL, of digests
Free == << >>           \* nobody holds the lock

\* Ages beyond the longer delay are all alike; so is "never attempted",
\* which is stale for nothing and due for everything.
Oldest == IF StaleAfter > RetryAfter THEN StaleAfter ELSE RetryAfter
Older(age) == IF age < Oldest THEN age + 1 ELSE Oldest

\* One child for each life of a scheduler: a restarted one has a new child.
Working == {"resolve", "lock", "analyse", "work", "print"}
Children == Schedulers \X (0 .. MaxFaults)

States == {"eligible", "running", "completed", "failed",
           "unsupported", "unresolvable"}
Digests == {{a} : a \in Artifacts} \cup {None}

Row == [state : States, attempt : 0 .. MaximumAttempts, run : Nat,
        artifact : Digests, age : 0 .. Oldest, discovered : Nat]

Run == [package : Nat, artifact : Artifacts]

\* What a copy of the catalog holds.
Saved == [packages : Seq(Declarations), rows : Seq(Row), runs : Seq(Run)]

Result == [state : {"completed", "failed", "unsupported", "unresolvable"},
           run : Nat, artifact : Digests]

Child == [pc : {"none", "resolve", "lock", "analyse", "work", "print",
                 "exited"},
          declaration : Declarations, package : Nat, age : 0 .. Oldest,
          result : Result]

Scheduler == [pc : {"idle", "claim", "await"}, item : Nat,
              processed : 0 .. BatchSize, life : 0 .. MaxFaults]

VARIABLES
  packages,    \* declarations by package id
  rows,        \* static_analysis_schedule_state, by package id
  runs,        \* completed analysis_runs, by run id
  lock,        \* the child that holds <database>.writer.lock
  child,
  scheduler,
  backup,      \* at most one backup of the catalog
  faults,
  restores

catalog == <<packages, rows, runs>>
vars == <<packages, rows, runs, lock, child, scheduler, backup, faults,
          restores>>

Failure(state) == [state |-> state, run |-> 0, artifact |-> None]

NoChild == [pc |-> "none", declaration |-> CHOOSE d \in Declarations : TRUE,
            package |-> 0, age |-> 0, result |-> Failure("failed")]

Init ==
  /\ packages = << >> /\ rows = << >> /\ runs = << >>
  /\ lock = Free
  /\ child = [c \in Children |-> NoChild]
  /\ scheduler = [s \in Schedulers |->
       [pc |-> "idle", item |-> 0, processed |-> 0, life |-> 0]]
  /\ backup = << >>
  /\ faults = 0 /\ restores = 0

-----------------------------------------------------------------------------
(* The queue                                                               *)

\* What a declaration alone says.
classify(d) ==
  CASE Kind[d] = "unsupported" -> "unsupported"
    [] Kind[d] = "incomplete"  -> "unresolvable"
    [] OTHER                   -> "eligible"

Latest(ids) == {n \in ids : \A m \in ids : m <= n}

\* Mutant: the query forgets the package.
compatible_any(p) == Latest(DOMAIN runs)

\* Mutant: a completion by reuse is forgotten.
compatible_own(p) == Latest({n \in DOMAIN runs : runs[n].package = p})

\* A run of this very package, or the run of another that the row records.
compatible_run(p) ==
  LET own == {n \in DOMAIN runs : runs[n].package = p}
      scheduled == {n \in DOMAIN runs :
        /\ p \in DOMAIN rows
        /\ rows[p].state = "completed" /\ rows[p].run = n
        /\ rows[p].artifact = {runs[n].artifact}}
  IN IF own # {} THEN Latest(own) ELSE scheduled

NewRow(p) ==
  [state |-> classify(packages[p]), attempt |-> 0, run |-> 0,
   artifact |-> None, age |-> Oldest, discovered |-> Len(packages)]

\* States that synchronize keeps when there is no completed run.
Kept == {"failed", "running"}

\* Mutant: nothing recovers the claim of a dead scheduler.
InterruptedNever(row) == row

\* A claim older than the limit is taken for dead.
Interrupted(row) ==
  IF row.state = "running" /\ row.age >= StaleAfter
  THEN [row EXCEPT !.state = "failed"] ELSE row

SyncedRow(p) ==
  LET row == IF p \in DOMAIN rows THEN rows[p] ELSE NewRow(p)
      state == classify(packages[p])
  IN IF compatible_run(p) # {}
     THEN LET n == CHOOSE m \in compatible_run(p) : TRUE IN
          [row EXCEPT !.state = "completed", !.run = n,
                      !.artifact = {runs[n].artifact}]
     ELSE IF row.state \in Kept /\ state = "eligible"
     THEN Interrupted(row)
     ELSE [row EXCEPT !.state = state, !.run = 0, !.artifact = None]

\* Mutant: the limit on attempts is forgotten.
DueForever(row) ==
  row.state \in {"eligible", "failed"} /\ row.age >= RetryAfter

Due(row) ==
  /\ row.state \in {"eligible", "failed"}
  /\ row.attempt < MaximumAttempts
  /\ row.age >= RetryAfter

candidates == {p \in DOMAIN rows : Due(rows[p])}

\* Newest discovery first, then what was never tried, then the fewest
\* attempts, then the highest id.
Precedes(p, q) ==
  LET a == rows[p]
      b == rows[q]
      fresh(row) == row.state = "eligible"
  IN \/ a.discovered > b.discovered
     \/ /\ a.discovered = b.discovered
        /\ \/ fresh(a) /\ ~fresh(b)
           \/ /\ fresh(a) = fresh(b)
              /\ \/ a.attempt < b.attempt
                 \/ a.attempt = b.attempt /\ p > q

First(ids) == {p \in ids : \A q \in ids \ {p} : Precedes(p, q)}

-----------------------------------------------------------------------------
(* The scheduler                                                           *)

Mine(s) == <<s, scheduler[s].life>>

\* execute: register the profile and synchronize, in one transaction.
Synchronize(s) ==
  /\ scheduler[s].pc = "idle" /\ lock = Free
  /\ rows' = [p \in DOMAIN packages |-> SyncedRow(p)]
  /\ scheduler' = [scheduler EXCEPT ![s] =
       [@ EXCEPT !.pc = "claim", !.processed = 0]]
  /\ UNCHANGED <<packages, runs, lock, child, backup, faults, restores>>

\* Mutant: the claim keeps the time of the attempt before it.
set_running_unstamped(p) ==
  rows' = [rows EXCEPT ![p] =
    [@ EXCEPT !.state = "running", !.attempt = rows[p].attempt + 1]]

set_running(p) ==
  rows' = [rows EXCEPT ![p] =
    [@ EXCEPT !.state = "running", !.attempt = rows[p].attempt + 1,
              !.age = 0]]

\* claim_next, and the start of the child for the claimed package.
Claim(s) ==
  /\ scheduler[s].pc = "claim" /\ scheduler[s].processed < BatchSize
  /\ lock = Free
  /\ \E p \in First(candidates) :
     /\ set_running(p)
     /\ scheduler' = [scheduler EXCEPT ![s] =
          [@ EXCEPT !.pc = "await", !.item = p]]
     /\ child' = [child EXCEPT ![Mine(s)] =
          [NoChild EXCEPT !.pc = "resolve", !.declaration = packages[p]]]
  /\ UNCHANGED <<packages, runs, lock, backup, faults, restores>>

\* The batch is done, the queue is empty or the time is used up.
Leave(s) ==
  /\ scheduler[s].pc = "claim"
  /\ \/ scheduler[s].processed = BatchSize
     \/ candidates = {} /\ lock = Free
     \/ TimeBudget
  /\ scheduler' = [scheduler EXCEPT ![s] =
       [@ EXCEPT !.pc = "idle", !.processed = 0]]
  /\ UNCHANGED <<catalog, lock, child, backup, faults, restores>>

\* Mutant: only that there is such a run.
verify_any(result) == result.run \in DOMAIN runs

\* The run a child reports must be the database's.
verify_run(result) ==
  /\ result.run \in DOMAIN runs
  /\ {runs[result.run].artifact} = result.artifact

Recorded(result) ==
  IF result.state # "completed" \/ verify_run(result)
  THEN result ELSE Failure("failed")

\* The second half of analyze_claimed: the result goes into the row of the
\* claimed id, whatever has become of that row.
Record(s) ==
  /\ scheduler[s].pc = "await"
  /\ child[Mine(s)].pc = "exited" /\ lock = Free
  /\ LET p == scheduler[s].item
         result == Recorded(child[Mine(s)].result)
     IN rows' = IF p \notin DOMAIN rows THEN rows
                ELSE [rows EXCEPT ![p] =
                  [@ EXCEPT !.state = result.state, !.run = result.run,
                            !.artifact = result.artifact]]
  /\ child' = [child EXCEPT ![Mine(s)] = NoChild]
  /\ scheduler' = [scheduler EXCEPT ![s] =
       [@ EXCEPT !.pc = "claim", !.item = 0,
                !.processed = scheduler[s].processed + 1]]
  /\ UNCHANGED <<packages, runs, lock, backup, faults, restores>>

-----------------------------------------------------------------------------
(* The child                                                               *)

\* A child that exits, or is killed, gives up the lock. Only a scheduler
\* that still lives sees its result.
Exit(c, result) ==
  /\ child' = [child EXCEPT ![c] =
       IF c = Mine(c[1]) THEN [@ EXCEPT !.pc = "exited", !.result = result]
       ELSE NoChild]
  /\ lock' = IF lock = c THEN Free ELSE lock

\* Exit code 5: unsupported if the message says so, else unresolvable.
Resolve(c) ==
  LET d == child[c].declaration
      ids == {p \in DOMAIN packages : packages[p] = d}
  IN
  /\ child[c].pc = "resolve"
  /\ IF ids = {} \/ Kind[d] = "ambiguous"
     THEN Exit(c, Failure("unresolvable"))
     ELSE IF Kind[d] = "odd" THEN Exit(c, Failure("unsupported"))
     ELSE /\ child' = [child EXCEPT ![c] =
               [@ EXCEPT !.pc = "lock",
                         !.package = CHOOSE p \in ids : TRUE]]
          /\ UNCHANGED lock
  /\ UNCHANGED <<catalog, scheduler, backup, faults, restores>>

\* Mutant: the lock is given up as soon as the database is open.
AcquireBriefly(c) ==
  /\ child[c].pc = "lock" /\ lock = Free
  /\ child' = [child EXCEPT ![c].pc = "analyse"]
  /\ UNCHANGED <<catalog, lock, scheduler, backup, faults, restores>>

\* Database::open for writing waits for the lock and keeps it.
Acquire(c) ==
  /\ child[c].pc = "lock" /\ lock = Free
  /\ lock' = c
  /\ child' = [child EXCEPT ![c].pc = "analyse"]
  /\ UNCHANGED <<catalog, scheduler, backup, faults, restores>>

\* Completed runs of the artifact that was downloaded, of any package.
Reusable(c) ==
  {n \in DOMAIN runs : runs[n].artifact = Artifact[child[c].declaration]}

Report(c, n) ==
  child' = [child EXCEPT ![c] =
    [@ EXCEPT !.pc = "print",
              !.result = [state |-> "completed", run |-> n,
                          artifact |-> {Artifact[child[c].declaration]}]]]

\* Release metadata without a supported artifact (exit code 7), or a run
\* whose package record is gone since it was resolved (a foreign key).
Reject(c) ==
  /\ \/ child[c].pc = "analyse" /\ Kind[child[c].declaration] = "wheelOnly"
     \/ child[c].pc = "work" /\ child[c].package \notin DOMAIN packages
  /\ Exit(c, Failure("failed"))
  /\ UNCHANGED <<catalog, scheduler, backup, faults, restores>>

\* The artifact is downloaded: its newest run stands for this one,
Reuse(c) ==
  /\ child[c].pc = "analyse" /\ Kind[child[c].declaration] # "wheelOnly"
  /\ \E n \in Latest(Reusable(c)) : Report(c, n)
  /\ UNCHANGED <<catalog, lock, scheduler, backup, faults, restores>>

\* or there is none, and the sandboxed worker has to analyse it.
Analyse(c) ==
  /\ child[c].pc = "analyse" /\ Kind[child[c].declaration] # "wheelOnly"
  /\ Reusable(c) = {}
  /\ child' = [child EXCEPT ![c].pc = "work"]
  /\ UNCHANGED <<catalog, lock, scheduler, backup, faults, restores>>

\* One transaction adds the run with its findings, files and evidence.
Commit(c) ==
  /\ child[c].pc = "work" /\ child[c].package \in DOMAIN packages
  /\ runs' = Append(runs, [package |-> child[c].package,
                           artifact |-> Artifact[child[c].declaration]])
  /\ Report(c, Len(runs) + 1)
  /\ UNCHANGED <<packages, rows, lock, scheduler, backup, faults, restores>>

\* The result is on standard output and the process ends.
Finish(c) ==
  /\ child[c].pc = "print"
  /\ Exit(c, child[c].result)
  /\ UNCHANGED <<catalog, scheduler, backup, faults, restores>>

-----------------------------------------------------------------------------
(* What goes wrong, and the rest of the catalog's life                     *)

Mishap == faults + restores < MaxMishaps
Fault == Mishap /\ faults < MaxFaults /\ faults' = faults + 1

\* Download, integrity or worker failure, or evidence that cannot be written.
Fail(c) ==
  /\ child[c].pc \in {"analyse", "work"} /\ Fault
  /\ Exit(c, Failure("failed"))
  /\ UNCHANGED <<catalog, scheduler, backup, restores>>

\* run_child: the child is over its time or its output limit and is killed,
\* maybe after it has committed.
Timeout(s) ==
  /\ scheduler[s].pc = "await"
  /\ child[Mine(s)].pc \in Working /\ Fault
  /\ Exit(Mine(s), Failure("failed"))
  /\ UNCHANGED <<catalog, scheduler, backup, restores>>

\* The scheduler dies, alone or with its child.
Kill(s) ==
  LET c == Mine(s) IN
  /\ scheduler[s].pc # "idle" /\ Fault
  /\ scheduler' = [scheduler EXCEPT ![s] =
       [pc |-> "idle", item |-> 0, processed |-> 0, life |-> @.life + 1]]
  /\ \/ /\ child[c].pc \in Working
        /\ UNCHANGED <<child, lock>>
     \/ /\ child' = [child EXCEPT ![c] = NoChild]
        /\ lock' = IF lock = c THEN Free ELSE lock
  /\ UNCHANGED <<catalog, backup, restores>>

\* A catalog refresh adds a package record.
Discover(d) ==
  /\ lock = Free
  /\ \A p \in DOMAIN packages : packages[p] # d
  /\ packages' = Append(packages, d)
  /\ UNCHANGED <<rows, runs, lock, child, scheduler, backup, faults, restores>>

Aged(table) == [p \in DOMAIN table |-> [table[p] EXCEPT !.age = Older(@)]]

Tick ==
  /\ rows' = Aged(rows)
  /\ child' = [c \in Children |->
       IF child[c].pc = "none" THEN child[c]
       ELSE [child[c] EXCEPT !.age = Older(@)]]
  /\ backup' = [i \in DOMAIN backup |->
                  [backup[i] EXCEPT !.rows = Aged(@)]]
  /\ UNCHANGED <<packages, runs, lock, scheduler, faults, restores>>

TakeBackup ==
  /\ lock = Free /\ Mishap /\ restores < MaxRestores
  /\ backup' = <<[packages |-> packages, rows |-> rows, runs |-> runs]>>
  /\ UNCHANGED <<catalog, lock, child, scheduler, faults, restores>>

\* Ids given out since the backup are given out again after it.
Restore ==
  /\ lock = Free /\ backup # << >> /\ Mishap /\ restores < MaxRestores
  /\ restores' = restores + 1
  /\ packages' = backup[1].packages
  /\ rows' = backup[1].rows
  /\ runs' = backup[1].runs
  /\ UNCHANGED <<lock, child, scheduler, backup, faults>>

SchedulerStep(s) ==
  Synchronize(s) \/ Claim(s) \/ Leave(s) \/ Record(s)

ChildStep(c) ==
  Resolve(c) \/ Acquire(c) \/ Reject(c) \/ Reuse(c)
  \/ Analyse(c) \/ Commit(c) \/ Finish(c)

Next ==
  \/ \E s \in Schedulers : SchedulerStep(s) \/ Timeout(s) \/ Kill(s)
  \/ \E c \in Children : ChildStep(c) \/ Fail(c)
  \/ \E d \in Declarations : Discover(d)
  \/ Tick \/ TakeBackup \/ Restore

\* The timer starts schedulers again and again, and time passes. A budget
\* may end a run before its first claim, but not every run: Claim is strong.
Fairness ==
  /\ WF_vars(Tick)
  /\ \A s \in Schedulers : WF_vars(SchedulerStep(s)) /\ SF_vars(Claim(s))
  /\ \A c \in Children : WF_vars(ChildStep(c))

Spec == Init /\ [][Next]_vars /\ Fairness

-----------------------------------------------------------------------------
(* Properties                                                              *)

\* Every variable has its type.
TypeOK ==
  /\ packages \in Seq(Declarations)
  /\ rows \in Seq(Row)
  /\ runs \in Seq(Run)
  /\ lock \in Children \cup {Free}
  /\ child \in [Children -> Child]
  /\ scheduler \in [Schedulers -> Scheduler]
  /\ backup \in Seq(Saved)
  /\ faults \in 0 .. MaxFaults /\ restores \in 0 .. MaxRestores

\* However many package records, schedulers and orphaned children ask for
\* it, an artifact is analysed once: the look for an earlier run and the
\* new run are under one lock (analyze.cpp, the reuse query).
OneRunPerArtifact ==
  \A m, n \in DOMAIN runs : runs[m].artifact = runs[n].artifact => m = n

\* A row says completed only for a run the same catalog holds, with the
\* digest the row gives, even when the catalog was restored between the
\* child's commit and the record of it (verify_run).
CompletedIsBacked ==
  \A p \in DOMAIN rows : rows[p].state = "completed" =>
    rows[p].run \in DOMAIN runs /\ rows[p].artifact = {runs[rows[p].run].artifact}

\* A completed row gives the digest of its own package's artifact, also
\* when the run was made for another package (reuse and verify_run).
CompletedIsOwn ==
  \A p \in DOMAIN rows : rows[p].state = "completed" =>
    rows[p].artifact = {Artifact[packages[p]]}

\* Two children work on one package only if the claim of one of them is so
\* old that it may be taken for dead: neither synchronize nor a late result
\* of another scheduler frees a claim before (candidates, synchronize). A
\* restored catalog knows nothing of the claims made since its backup.
ClaimIsExclusive ==
  \A b, c \in Children :
    /\ restores = 0 /\ b # c /\ child[b].pc # "none" /\ child[c].pc # "none"
    /\ child[b].declaration = child[c].declaration
    => child[b].age >= StaleAfter \/ child[c].age >= StaleAfter

RowOf(d) ==
  {rows[p] : p \in {q \in DOMAIN rows : packages[q] = d}}

Discovered(d) == \E p \in DOMAIN packages : packages[p] = d

Settled(row) ==
  \/ row.state \in {"completed", "unsupported", "unresolvable"}
  \/ row.attempt = MaximumAttempts /\ row.state # "running"

\* Whatever dies, a package record that was discovered is not left waiting
\* or running for ever: it is completed, or classified, or its attempts are
\* used up (synchronize's recovery, the retry delay, the timer).
EveryPackageSettles ==
  \A d \in Declarations :
    <>[](Discovered(d) => \E row \in RowOf(d) : Settled(row))

\* With one scheduler at a time, and fewer failures than attempts, every
\* package that can be analysed is completed in the end and stays so.
AnalysableCompletes ==
  \A d \in Declarations : Kind[d] = "analysable" =>
    <>[](Discovered(d) => \E row \in RowOf(d) : row.state = "completed")

=============================================================================
