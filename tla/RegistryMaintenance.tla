------------------------- MODULE RegistryMaintenance -------------------------
(***************************************************************************)
(* The reliable maintenance of the published catalog                       *)
(* (src/tools/registry_maintenance.py and the commands it runs): refresh   *)
(* through a staging copy, verified backups and their retention, restore,  *)
(* and beside them the direct `registry index` of a preserved bundle and   *)
(* the runtime runner, which writes the catalog without the writer lock.   *)
(* Any process may be killed, or fail, at any step.                        *)
(***************************************************************************)
EXTENDS Catalog, FiniteSets, TLC

CONSTANTS
  Refreshers,    \* processes that run the daily refresh
  Operators,     \* processes that run an operator's commands
  Observers,     \* bulk runtime schedulers with their runner
  Tasks,         \* the operator's commands: "backup", "restore", "index"
  Retention,     \* --backup-retention-count
  MaxNow,        \* bound on the clock, in seconds that matter
  MaxUpdates,    \* bound on the changes of one identity in the Registry
  MaxAttempts,   \* bound on the attempts of each process
  MaxFaults      \* bound on kills, failures and damage

Procs == Refreshers \cup Operators \cup Observers

ASSUME RetentionAssumption == Retention \in Nat \ {0}
ASSUME BoundsAssumption ==
  /\ MaxNow \in Nat /\ MaxUpdates \in Nat
  /\ MaxAttempts \in [Procs -> Nat] /\ MaxFaults \in Nat
ASSUME TasksAssumption == Tasks \subseteq {"backup", "restore", "index"}
ASSUME ProcsAssumption ==
  /\ Refreshers \cap Operators = {} /\ Refreshers \cap Observers = {}
  /\ Operators \cap Observers = {}

Free == "free"          \* nobody holds <database>.writer.lock

ASSUME FreeAssumption == Free \notin Procs

Attempt == Procs \X Nat          \* a process and the number of its attempt
Observation == Attempt

\* A backup file: refresh backups carry the time their attempt started, the
\* manual one has a fixed name, a recovery copy is named for its restore.
BackupName == [kind : {"refresh", "manual", "recovery"},
               stamp : Nat, by : Attempt]

NoMeta == << >>
File == Content(Observation)

\* The database copied, and the one its metadata file was written for.
Backup == [db : File, meta : Seq(File)]     \* at most one metadata file

Verified(backup) == backup.meta = <<backup.db>>

Steps == {"idle", "wait",
          "stage", "fetch", "import", "backup", "metadata", "prune",
          "publish", "status", "failed", "report",
          "copy", "recover", "open", "commit", "observe", "verify"}

Run == [task : {"none", "refresh", "backup", "restore", "index", "observe"},
        pc : Steps,
        nth : Nat,              \* attempts begun so far
        stamp : Nat,            \* utc_now() of the attempt
        stage : File,           \* the dot-prefixed staging database
        bundle : Bundle,        \* being collected, imported or indexed
        left : SUBSET Servers,  \* not fetched yet
        inode : Nat,            \* the file this process has open
        source : BackupName,    \* the backup to restore
        expect : Digest,        \* the snapshot digest in its metadata
        previous : Seq(Attempt),    \* last_success as it was read
        error : {"none", "mismatch", "other"}]

VARIABLES
  reg,       \* the Registry: each identity's variant and its updatedAt
  now,
  live,      \* the published database file
  lock,
  backups,
  bundles,   \* completed bundles kept under the runtime directory
  status,    \* last-success.json
  run,
  faults,
  acked,     \* history: digests whose import was published or reported done
  verified,  \* history: observations a scheduler recorded as completed
  past       \* history: the snapshot lists the live database has had

vars == <<reg, now, live, lock, backups, bundles, status, run, faults,
          acked, verified, past>>
histories == <<acked, verified, past>>

\* The full collection the catalog was created from; it ended at time 1.
Baseline == [records |-> {<<k, 0>> : k \in Servers}, base |-> {},
             since |-> 0, started |-> 1, completed |-> 1]

EmptyFile == [snaps |-> <<Baseline>>, obs |-> {}]

IdleRun(p, n, stamp) ==
  [task |-> "none", pc |-> "idle", nth |-> n, stamp |-> stamp,
   stage |-> EmptyFile, bundle |-> Baseline, left |-> {}, inode |-> 0,
   source |-> [kind |-> "manual", stamp |-> 0, by |-> <<p, 0>>],
   expect |-> {}, previous |-> << >>, error |-> "none"]

Init ==
  /\ reg = [k \in Servers |-> [version |-> 0, at |-> 0]]
  /\ now = 2
  /\ live = [inode |-> 0, valid |-> TRUE, db |-> EmptyFile]
  /\ lock = Free
  /\ backups = << >>
  /\ bundles = {}
  /\ status = [state |-> "none", last |-> << >>]
  /\ run = [p \in Procs |-> IdleRun(p, 0, 0)]
  /\ faults = 0
  /\ acked = {} /\ verified = {} /\ past = {EmptyFile.snaps}

At(p, step) == run[p].pc = step

Goto(p, step) == run' = [run EXCEPT ![p].pc = step]

\* The attempt is over: what it held in memory is gone.
Finish(p) == run' = [run EXCEPT ![p] = IdleRun(p, @.nth, @.stamp)]

\* Mutant: a child that outlives the process holds the descriptor open.
ReleaseLeaked(p) == lock' = lock

\* flock is released when its descriptor is closed, by exit or by death.
Release(p) == lock' = IF lock = p THEN Free ELSE lock

Put(name, backup) ==
  [n \in DOMAIN backups \cup {name} |->
     IF n = name THEN backup ELSE backups[n]]

\* Where this attempt's backup goes.
BackupFor(p) ==
  CASE run[p].task = "refresh" ->
         [kind |-> "refresh", stamp |-> run[p].stamp, by |-> <<p, run[p].nth>>]
    [] run[p].task = "restore" ->
         [kind |-> "recovery", stamp |-> 0, by |-> <<p, run[p].nth>>]
    [] OTHER -> [kind |-> "manual", stamp |-> 0, by |-> <<p, 0>>]

-----------------------------------------------------------------------------
(* The surroundings. *)

Tick ==
  /\ now < MaxNow
  /\ now' = now + 1
  /\ UNCHANGED <<reg, live, lock, backups, bundles, status, run, faults,
                 histories>>

\* A publisher changes the metadata of an identity.
Update(k) ==
  /\ reg[k].version < MaxUpdates
  /\ reg' = [reg EXCEPT ![k] = [version |-> @.version + 1, at |-> now]]
  /\ UNCHANGED <<now, live, lock, backups, bundles, status, run, faults,
                 histories>>

\* The live file is damaged from outside, where an operator can restore it:
\* integrity_check no longer says ok.
Damage ==
  /\ faults < MaxFaults /\ live.valid
  /\ "restore" \in Tasks
  /\ live' = [live EXCEPT !.valid = FALSE]
  /\ faults' = faults + 1
  /\ UNCHANGED <<reg, now, lock, backups, bundles, status, run, histories>>

-----------------------------------------------------------------------------
(* The writer lock. *)

FirstStep(p) ==
  CASE run[p].task = "refresh" -> "stage"
    [] run[p].task = "backup"  -> "backup"
    [] run[p].task = "restore" -> "recover"
    [] run[p].task = "index"   -> "open"
    [] run[p].task = "observe" -> "verify"

\* Mutant: the command opens the catalog without taking the lock.
AcquireForScriptsOnly(p) ==
  /\ At(p, "wait")
  /\ \/ run[p].task = "index" /\ lock' = lock
     \/ run[p].task # "index" /\ lock = Free /\ lock' = p
  /\ Goto(p, FirstStep(p))
  /\ UNCHANGED <<reg, now, live, backups, bundles, status, faults, histories>>

\* Mutant: the scheduler verifies its run without taking the lock.
AcquireUnlessObserver(p) ==
  /\ At(p, "wait")
  /\ \/ run[p].task = "observe" /\ lock' = lock
     \/ run[p].task # "observe" /\ lock = Free /\ lock' = p
  /\ Goto(p, FirstStep(p))
  /\ UNCHANGED <<reg, now, live, backups, bundles, status, faults, histories>>

\* flock(LOCK_EX), waiting for the holder.
Acquire(p) ==
  /\ At(p, "wait") /\ lock = Free
  /\ lock' = p
  /\ Goto(p, FirstStep(p))
  /\ UNCHANGED <<reg, now, live, backups, bundles, status, faults, histories>>

-----------------------------------------------------------------------------
(* registry_maintenance.py refresh, with the `registry refresh` it runs. *)

\* The attempt is stamped, and its files are named, before it has the lock.
\* A timer does not start a second attempt within the second of the first.
BeginRefresh(p) ==
  /\ At(p, "idle") /\ run[p].nth < MaxAttempts[p] /\ run[p].stamp < now
  /\ run' = [run EXCEPT ![p].task = "refresh", ![p].pc = "wait",
                        ![p].nth = @ + 1, ![p].stamp = now]
  /\ UNCHANGED <<reg, now, live, lock, backups, bundles, status, faults,
                 histories>>

\* Mutant: the filter begins with this refresh.
StageCopySinceNow(p) ==
  /\ At(p, "stage") /\ live.valid
  /\ LET latest == Latest(live.db.snaps) IN
     run' = [run EXCEPT
       ![p].pc = "fetch", ![p].stage = live.db, ![p].left = Servers,
       ![p].bundle = [records |-> {},
                      base |-> {<<latest.records, latest.completed>>},
                      since |-> now, started |-> now, completed |-> now]]
  /\ UNCHANGED <<reg, now, live, lock, backups, bundles, status, faults,
                 histories>>

\* The live database is validated and copied; the latest snapshot of the copy
\* is the baseline, and the collection begins.
StageCopy(p) ==
  /\ At(p, "stage") /\ live.valid
  /\ LET latest == Latest(live.db.snaps) IN
     run' = [run EXCEPT
       ![p].pc = "fetch", ![p].stage = live.db, ![p].left = Servers,
       ![p].bundle = [records |-> {},
                      base |-> {<<latest.records, latest.completed>>},
                      since |-> latest.completed,
                      started |-> now, completed |-> now]]
  /\ UNCHANGED <<reg, now, live, lock, backups, bundles, status, faults,
                 histories>>

\* The page with identity k: the Registry sends it when it was updated since.
Fetch(p, k) ==
  /\ At(p, "fetch") /\ k \in run[p].left
  /\ run' = [run EXCEPT
       ![p].left = @ \ {k},
       ![p].bundle.records =
          IF reg[k].at >= run[p].bundle.since
          THEN @ \cup {<<k, reg[k].version>>} ELSE @]
  /\ UNCHANGED <<reg, now, live, lock, backups, bundles, status, faults,
                 histories>>

\* _SUCCESS: the bundle is completed, and stays whatever happens to its import.
CompleteBundle(p) ==
  /\ At(p, "fetch") /\ run[p].left = {}
  /\ LET b == [run[p].bundle EXCEPT !.completed = now] IN
     /\ bundles' = bundles \cup {b}
     /\ run' = [run EXCEPT ![p].bundle = b, ![p].pc = "import"]
  /\ UNCHANGED <<reg, now, live, lock, backups, status, faults, histories>>

\* The bundle is imported into staging and the result validated: the latest
\* staged snapshot must be the bundle's.
ImportStaged(p) ==
  /\ At(p, "import")
  /\ LET snaps == Index(run[p].stage.snaps, run[p].bundle) IN
     /\ Latest(snaps).records = run[p].bundle.records
     /\ run' = [run EXCEPT ![p].stage.snaps = snaps, ![p].pc = "backup"]
  /\ UNCHANGED <<reg, now, live, lock, backups, bundles, status, faults,
                 histories>>

\* publish_backup up to its os.replace: the live database, copied, validated
\* and renamed to the backup's name; an older metadata file stays.
BackupFile(p) ==
  /\ At(p, "backup") /\ live.valid
  /\ LET name == BackupFor(p)
         meta == IF name \in DOMAIN backups THEN backups[name].meta ELSE NoMeta
     IN  backups' = Put(name, [db |-> live.db, meta |-> meta])
  /\ Goto(p, "metadata")
  /\ UNCHANGED <<reg, now, live, lock, bundles, status, faults, histories>>

\* The metadata file with the digest of the copy; a manual backup is done.
BackupMetadata(p) ==
  /\ At(p, "metadata")
  /\ LET name == BackupFor(p) IN
     backups' = Put(name, [backups[name] EXCEPT !.meta = <<backups[name].db>>])
  /\ CASE run[p].task = "refresh" -> Goto(p, "prune") /\ lock' = lock
       [] run[p].task = "restore" -> Goto(p, "publish") /\ lock' = lock
       [] run[p].task = "backup" -> Finish(p) /\ Release(p)
  /\ UNCHANGED <<reg, now, live, bundles, status, faults, histories>>

RefreshBackups == {n \in DOMAIN backups : n.kind = "refresh"}

\* Mutant: the oldest are kept.
NewestReversed(keep) ==
  /\ Cardinality(keep) <= Retention
  /\ keep # RefreshBackups => Cardinality(keep) = Retention
  /\ \A n \in keep, m \in RefreshBackups \ keep : m.stamp >= n.stamp

\* The names that sort last, by the time their attempts started; names of one
\* second sort by a random token.
Newest(keep) ==
  /\ Cardinality(keep) <= Retention
  /\ keep # RefreshBackups => Cardinality(keep) = Retention
  /\ \A n \in keep, m \in RefreshBackups \ keep : m.stamp <= n.stamp

\* prune_refresh_backups: everything older goes, metadata first.
Prune(p) ==
  /\ At(p, "prune")
  /\ \E keep \in SUBSET RefreshBackups :
       /\ Newest(keep)
       /\ backups' = [n \in (DOMAIN backups \ RefreshBackups) \cup keep |->
                        backups[n]]
  /\ Goto(p, "publish")
  /\ UNCHANGED <<reg, now, live, lock, bundles, status, faults, histories>>

\* The same, failing on the way: what is older is gone, and of the next backup
\* only the metadata.
PruneFails(p) ==
  /\ At(p, "prune") /\ faults < MaxFaults
  /\ \E keep, gone \in SUBSET RefreshBackups, n \in RefreshBackups :
       /\ Newest(keep)
       /\ n \notin keep \cup gone /\ gone \cap keep = {}
       /\ \A g \in gone : g.stamp <= n.stamp
       /\ backups' = [m \in DOMAIN backups \ gone |->
                        IF m = n THEN [backups[m] EXCEPT !.meta = NoMeta]
                                 ELSE backups[m]]
  /\ run' = [run EXCEPT ![p].pc = "failed", ![p].error = "other"]
  /\ Release(p)
  /\ faults' = faults + 1
  /\ UNCHANGED <<reg, now, live, bundles, status, histories>>

\* os.replace(stage, database): a new file under the name.
Publish(p) ==
  /\ At(p, "publish")
  /\ live' = [inode |-> live.inode + 1, valid |-> TRUE, db |-> run[p].stage]
  /\ IF run[p].task = "refresh"
     THEN /\ Goto(p, "status")
          /\ acked' = acked \cup {run[p].bundle.records}
          /\ UNCHANGED <<lock, verified>>
     ELSE /\ Finish(p) /\ Release(p)
          \* a restore drops what was done after its backup, on purpose
          /\ acked' = acked \cap Digests(run[p].stage.snaps)
          /\ verified' = verified \cap run[p].stage.obs
  /\ past' = past \cup {run[p].stage.snaps}
  /\ UNCHANGED <<reg, now, backups, bundles, status, faults>>

\* Mutant: the record is written without its list.
WriteSuccessFlat(p) ==
  /\ At(p, "status")
  /\ status' = [state |-> "succeeded", last |-> <<p, run[p].nth>>]
  /\ Finish(p) /\ Release(p)
  /\ UNCHANGED <<reg, now, live, backups, bundles, faults, histories>>

\* last-success.json is replaced, and the lock released.
WriteSuccess(p) ==
  /\ At(p, "status")
  /\ status' = [state |-> "succeeded", last |-> <<<<p, run[p].nth>>>>]
  /\ Finish(p) /\ Release(p)
  /\ UNCHANGED <<reg, now, live, backups, bundles, faults, histories>>

\* The staged catalog's latest snapshot is not the bundle's.
StagedMismatch(p) ==
  /\ At(p, "import")
  /\ Latest(Index(run[p].stage.snaps, run[p].bundle)).records
       # run[p].bundle.records
  /\ run' = [run EXCEPT ![p].pc = "failed", ![p].error = "mismatch"]
  /\ Release(p)
  /\ UNCHANGED <<reg, now, live, backups, bundles, status, faults, histories>>

\* The live database does not validate: the refresh, or the backup, fails.
LiveInvalid(p) ==
  /\ At(p, "stage") \/ At(p, "backup")
  /\ ~live.valid
  /\ IF run[p].task = "refresh"
     THEN run' = [run EXCEPT ![p].pc = "failed", ![p].error = "other"]
     ELSE Finish(p)
  /\ Release(p)
  /\ UNCHANGED <<reg, now, live, backups, bundles, status, faults, histories>>

\* Reporting a failure: the old record is read, after the lock was released,
LoadStatus(p) ==
  /\ At(p, "failed")
  /\ run' = [run EXCEPT ![p].previous = status.last, ![p].pc = "report"]
  /\ UNCHANGED <<reg, now, live, lock, backups, bundles, status, faults,
                 histories>>

\* and the new one written over whatever is there.
WriteFailure(p) ==
  /\ At(p, "report")
  /\ status' = [state |-> "failed", last |-> run[p].previous]
  /\ Finish(p)
  /\ UNCHANGED <<reg, now, live, lock, backups, bundles, faults, histories>>

-----------------------------------------------------------------------------
(* registry_maintenance.py backup and restore. *)

BeginBackup(p) ==
  /\ "backup" \in Tasks
  /\ At(p, "idle") /\ run[p].nth < MaxAttempts[p]
  /\ run' = [run EXCEPT ![p].task = "backup", ![p].pc = "wait",
                        ![p].nth = @ + 1]
  /\ UNCHANGED <<reg, now, live, lock, backups, bundles, status, faults,
                 histories>>

\* A backup is verified against its metadata, without the lock,
BeginRestore(p) ==
  /\ "restore" \in Tasks
  /\ At(p, "idle") /\ run[p].nth < MaxAttempts[p]
  /\ \E n \in DOMAIN backups :
       /\ Verified(backups[n])
       /\ run' = [run EXCEPT
            ![p].task = "restore", ![p].pc = "copy", ![p].nth = @ + 1,
            ![p].source = n,
            ![p].expect = Latest(backups[n].db.snaps).records]
  /\ UNCHANGED <<reg, now, live, lock, backups, bundles, status, faults,
                 histories>>

\* then copied beside the live database, where its latest digest is checked;
\* it may have been pruned, or replaced, in between.
CopySource(p) ==
  /\ At(p, "copy")
  /\ IF /\ run[p].source \in DOMAIN backups
        /\ Latest(backups[run[p].source].db.snaps).records = run[p].expect
     THEN run' = [run EXCEPT ![p].stage = backups[run[p].source].db,
                             ![p].pc = "wait"]
     ELSE Finish(p)
  /\ UNCHANGED <<reg, now, live, lock, backups, bundles, status, faults,
                 histories>>

\* A valid live database is backed up first; a damaged one is given up.
Recover(p) ==
  /\ At(p, "recover")
  /\ Goto(p, IF live.valid THEN "backup" ELSE "publish")
  /\ UNCHANGED <<reg, now, live, lock, backups, bundles, status, faults,
                 histories>>

-----------------------------------------------------------------------------
(* `registry index` of a preserved bundle, straight into the live catalog. *)

BeginIndex(p) ==
  /\ "index" \in Tasks
  /\ At(p, "idle") /\ run[p].nth < MaxAttempts[p]
  /\ \E b \in bundles :
       run' = [run EXCEPT ![p].task = "index", ![p].pc = "wait",
                          ![p].nth = @ + 1, ![p].bundle = b]
  /\ UNCHANGED <<reg, now, live, lock, backups, bundles, status, faults,
                 histories>>

\* The database is opened once the lock is held.
OpenCatalog(p) ==
  /\ At(p, "open")
  /\ run' = [run EXCEPT ![p].inode = live.inode, ![p].pc = "commit"]
  /\ UNCHANGED <<reg, now, live, lock, backups, bundles, status, faults,
                 histories>>

\* One transaction.  SQLite looks for a file that lost its name only when a
\* transaction begins: such a commit may succeed, and is not seen again.
CommitIndex(p) ==
  /\ At(p, "commit") /\ live.valid
  /\ LET snaps == Index(live.db.snaps, run[p].bundle) IN
     IF run[p].inode = live.inode
     THEN /\ live' = [live EXCEPT !.db.snaps = snaps]
          /\ past' = past \cup {snaps}
     ELSE UNCHANGED <<live, past>>
  /\ acked' = acked \cup {run[p].bundle.records}
  /\ Finish(p) /\ Release(p)
  /\ UNCHANGED <<reg, now, backups, bundles, status, faults, verified>>

\* The damaged catalog cannot be opened or written.
IndexFails(p) ==
  /\ At(p, "commit") /\ ~live.valid
  /\ Finish(p) /\ Release(p)
  /\ UNCHANGED <<reg, now, live, backups, bundles, status, faults, histories>>

-----------------------------------------------------------------------------
(* The runtime runner and the scheduler that runs it. *)

\* The runner opens the catalog at its start, without the lock.
BeginObserve(p) ==
  /\ At(p, "idle") /\ run[p].nth < MaxAttempts[p] /\ live.valid
  /\ run' = [run EXCEPT ![p].task = "observe", ![p].pc = "observe",
                        ![p].nth = @ + 1, ![p].inode = live.inode]
  /\ UNCHANGED <<reg, now, live, lock, backups, bundles, status, faults,
                 histories>>

\* Minutes later it inserts the observation through the same connection; of a
\* file that lost its name, nothing reaches the catalog.
Persist(p) ==
  /\ At(p, "observe")
  /\ IF run[p].inode = live.inode /\ live.valid
     THEN live' = [live EXCEPT !.db.obs = @ \cup {<<p, run[p].nth>>}]
     ELSE live' = live
  /\ Goto(p, "wait")
  /\ UNCHANGED <<reg, now, lock, backups, bundles, status, faults, histories>>

\* The scheduler looks for the row under the lock: completed, or failed.
VerifyRun(p) ==
  /\ At(p, "verify")
  /\ verified' = IF live.valid /\ <<p, run[p].nth>> \in live.db.obs
                 THEN verified \cup {<<p, run[p].nth>>} ELSE verified
  /\ Finish(p) /\ Release(p)
  /\ UNCHANGED <<reg, now, live, backups, bundles, status, faults, acked, past>>

-----------------------------------------------------------------------------
(* Faults. *)

\* A command fails or a file cannot be written: the handler releases the lock,
\* and a refresh reports.  The live database is as the step before left it.
Fail(p) ==
  /\ faults < MaxFaults
  /\ run[p].pc \notin {"idle", "failed", "report"}
  /\ IF run[p].task = "refresh"
     THEN run' = [run EXCEPT ![p].pc = "failed", ![p].error = "other"]
     ELSE Finish(p)
  /\ Release(p)
  /\ faults' = faults + 1
  /\ UNCHANGED <<reg, now, live, backups, bundles, status, histories>>

\* SIGKILL or power loss: SQLite rolls back, the lock goes with the process.
Kill(p) ==
  /\ faults < MaxFaults /\ ~At(p, "idle")
  /\ Finish(p) /\ Release(p)
  /\ faults' = faults + 1
  /\ UNCHANGED <<reg, now, live, backups, bundles, status, histories>>

-----------------------------------------------------------------------------

RefreshStep(p) ==
  \/ StageCopy(p) \/ (\E k \in Servers : Fetch(p, k)) \/ CompleteBundle(p)
  \/ ImportStaged(p) \/ StagedMismatch(p)
  \/ Prune(p) \/ WriteSuccess(p) \/ LoadStatus(p) \/ WriteFailure(p)

SharedStep(p) ==
  Acquire(p) \/ BackupFile(p) \/ BackupMetadata(p) \/ Publish(p) \/ LiveInvalid(p)

OperatorStep(p) ==
  CopySource(p) \/ Recover(p) \/ OpenCatalog(p) \/ CommitIndex(p) \/ IndexFails(p)

ObserverStep(p) == Persist(p) \/ VerifyRun(p)

\* What a process does once its attempt is under way.
Proceed(p) == RefreshStep(p) \/ SharedStep(p) \/ OperatorStep(p) \/ ObserverStep(p)

Begin ==
  \/ \E p \in Refreshers : BeginRefresh(p)
  \/ \E p \in Operators : BeginBackup(p) \/ BeginRestore(p) \/ BeginIndex(p)
  \/ \E p \in Observers : BeginObserve(p)

Fault == Damage \/ \E p \in Procs : Fail(p) \/ PruneFails(p) \/ Kill(p)

Next ==
  \/ Begin
  \/ \E p \in Procs : Proceed(p)
  \/ Fault
  \/ Tick \/ \E k \in Servers : Update(k)

Spec == Init /\ [][Next]_vars

\* A process that is not killed goes on; nothing else is promised.
FairSpec == Spec /\ \A p \in Procs : WF_vars(Proceed(p))

-----------------------------------------------------------------------------
(* Properties. *)

TypeOK ==
  /\ reg \in [Servers -> [version : Nat, at : Nat]]
  /\ now \in Nat
  /\ live \in [inode : Nat, valid : BOOLEAN, db : File]
  /\ lock \in Procs \cup {Free}
  /\ DOMAIN backups \subseteq BackupName
  /\ \A n \in DOMAIN backups : backups[n] \in Backup
  /\ bundles \subseteq Bundle
  /\ status \in [state : {"none", "succeeded", "failed"}, last : Seq(Attempt)]
  /\ run \in [Procs -> Run]
  /\ faults \in 0 .. MaxFaults
  /\ acked \subseteq Digest /\ verified \subseteq Observation

\* The catalog does not hold the snapshot that was the row's baseline.
Unbased(snaps, i) ==
  /\ snaps[i].base # {}
  /\ ~ \E j \in DOMAIN snaps \ {i} :
        <<snaps[j].records, snaps[j].completed>> \in snaps[i].base

\* An update of the Registry that the live catalog does not have, and that no
\* later refresh will ask for, was made while some collection ran, or before
\* the filter of a bundle whose baseline the catalog does not hold.
MissedOnlyDuringCollection ==
  LET snaps == live.db.snaps IN
  \A k \in Servers :
    \/ <<k, reg[k].version>> \in Indexed(snaps)
    \/ reg[k].at >= Latest(snaps).completed
    \/ \E i \in DOMAIN snaps :
         \/ snaps[i].started <= reg[k].at /\ reg[k].at <= snaps[i].completed
         \/ Unbased(snaps, i) /\ reg[k].at <= snaps[i].since

\* An import that was reported a success stays in the live catalog, whatever
\* refreshes, imports and failures follow, until a restore goes behind it.
AcknowledgedImportsSurvive ==
  live.valid => acked \subseteq Digests(live.db.snaps)

\* An observation the scheduler recorded as completed stays too, though the
\* runner wrote it without the lock, and a refresh may replace the file.
VerifiedObservationsSurvive ==
  live.valid => verified \subseteq live.db.obs

\* When a refresh or a restore is about to replace a valid catalog, a verified
\* backup holds that catalog's snapshots.
PublicationIsReversible ==
  \A p \in Procs :
    At(p, "publish") /\ live.valid =>
      \E n \in DOMAIN backups :
        /\ Verified(backups[n])
        /\ backups[n].db.snaps = live.db.snaps

\* The readers of the live catalog see what PublishedCatalog promises.
Published == INSTANCE PublishedCatalog WITH catalog <- live.db.snaps

ImplementsPublishedCatalog == Published!Spec

\* An attempt that is not killed ends, also when it has to wait for the lock.
AttemptsEnd == \A p \in Procs : ~At(p, "idle") ~> At(p, "idle")

\* README.md:260: a valid zero-record response succeeds.
ZeroRecordRefreshSucceeds ==
  \A p \in Procs :
    run[p].error = "mismatch" => run[p].bundle.records # {}

=============================================================================
