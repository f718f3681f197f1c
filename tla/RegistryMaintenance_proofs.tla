--------------------- MODULE RegistryMaintenance_proofs ---------------------
(***************************************************************************)
(* Theorems about RegistryMaintenance, for every Registry, every set of    *)
(* processes, all limits and every number of faults.                       *)
(***************************************************************************)
EXTENDS RegistryMaintenance, FiniteSetTheorems, TLAPS

\* The steps of an attempt that run under the writer lock.
Held == {"stage", "fetch", "import", "backup", "metadata", "prune", "publish",
         "status", "recover", "open", "commit", "verify"}

StepsOf(task) ==
  CASE task = "none"    -> {"idle"}
    [] task = "refresh" -> {"wait", "stage", "fetch", "import", "backup",
                            "metadata", "prune", "publish", "status",
                            "failed", "report"}
    [] task = "backup"  -> {"wait", "backup", "metadata"}
    [] task = "restore" -> {"wait", "copy", "recover", "backup", "metadata",
                            "publish"}
    [] task = "index"   -> {"wait", "open", "commit"}
    [] task = "observe" -> {"wait", "observe", "verify"}

\* Row i of a catalog is the one `ORDER BY completed_at DESC, id DESC` finds.
IsLatest(snaps, i) ==
  \A j \in DOMAIN snaps :
    \/ snaps[j].completed < snaps[i].completed
    \/ snaps[j].completed = snaps[i].completed /\ j <= i

\* A catalog with a latest row: it never loses its first one.
Whole(snaps) ==
  /\ snaps \in Seq(Bundle)
  /\ \E i \in DOMAIN snaps : IsLatest(snaps, i)

\* Every catalog in some file has been the published one.
WasPublished ==
  /\ \A snaps \in past : Whole(snaps)
  /\ live.db.snaps \in past
  /\ \A n \in DOMAIN backups : backups[n].db.snaps \in past

\* The attempt of p is where its task may be, by whom it may be begun, and
\* holds the lock where it needs it.
Placed(p) ==
  /\ run[p].pc \in StepsOf(run[p].task)
  /\ run[p].task = "refresh" => p \in Refreshers
  /\ run[p].pc \in Held => lock = p

\* What the attempt of p holds still agrees with the published catalog.
Agrees(p) ==
  /\ Whole(run[p].stage.snaps)
  /\ run[p].task = "refresh" /\ run[p].pc \in {"fetch", "import"} =>
       /\ run[p].stage.snaps = live.db.snaps
       /\ verified \subseteq run[p].stage.obs
  /\ run[p].task = "refresh"
       /\ run[p].pc \in {"backup", "metadata", "prune", "publish"} =>
       /\ run[p].stage.snaps = Index(live.db.snaps, run[p].bundle)
       /\ verified \subseteq run[p].stage.obs
  /\ run[p].task = "restore" /\ run[p].pc # "copy" =>
       run[p].stage.snaps \in past
  /\ run[p].pc = "commit" => run[p].inode = live.inode
  /\ run[p].pc = "metadata" =>
       /\ BackupFor(p) \in DOMAIN backups
       /\ backups[BackupFor(p)].db.snaps = live.db.snaps

\* Nothing acknowledged is missing, whether the catalog is damaged or not.
Lasting == acked \subseteq Digests(live.db.snaps) /\ verified \subseteq live.db.obs

Inv ==
  /\ TypeOK /\ WasPublished /\ Lasting
  /\ \A p \in Procs : Placed(p) /\ Agrees(p)

-----------------------------------------------------------------------------
(* Catalogs *)

\* The places a process can be at, name by name.
LEMMA StepNames ==
  /\ "idle" \in Steps /\ "wait" \in Steps /\ "stage" \in Steps
  /\ "fetch" \in Steps /\ "import" \in Steps /\ "backup" \in Steps
  /\ "metadata" \in Steps /\ "prune" \in Steps /\ "publish" \in Steps
  /\ "status" \in Steps /\ "failed" \in Steps /\ "report" \in Steps
  /\ "copy" \in Steps /\ "recover" \in Steps /\ "open" \in Steps
  /\ "commit" \in Steps /\ "observe" \in Steps /\ "verify" \in Steps
BY DEF Steps

LEMMA BaselineType == Baseline \in Bundle
BY DEF Baseline, Bundle, Digest, Record

LEMMA EmptyFileType == EmptyFile \in File /\ Whole(EmptyFile.snaps)
<1>1. Baseline \in Bundle
  BY BaselineType
<1>2. EmptyFile.snaps \in Seq(Bundle) /\ DOMAIN EmptyFile.snaps = {1}
  BY <1>1 DEF EmptyFile
<1>3. IsLatest(EmptyFile.snaps, 1)
  BY <1>2 DEF IsLatest
<1>4. QED
  BY <1>2, <1>3 DEF Whole, EmptyFile, File, Content

\* Latest finds a row, the one sorted last.
LEMMA LatestIsRow ==
  ASSUME NEW snaps, Whole(snaps)
  PROVE  \E i \in DOMAIN snaps : Latest(snaps) = snaps[i] /\ IsLatest(snaps, i)
<1> DEFINE l == CHOOSE i \in DOMAIN snaps : IsLatest(snaps, i)
<1>1. l \in DOMAIN snaps /\ IsLatest(snaps, l)
  BY DEF Whole
<1>2. Latest(snaps) = snaps[l]
  BY DEF Latest, IsLatest
<1>3. QED
  BY <1>1, <1>2

LEMMA LatestType ==
  ASSUME NEW snaps, Whole(snaps) PROVE Latest(snaps) \in Bundle
BY LatestIsRow DEF Whole

\* What one import leaves: the same catalog, or one more row at its end.
LEMMA AppendRows ==
  ASSUME NEW snaps \in Seq(Bundle), NEW b \in Bundle
  PROVE  /\ Append(snaps, b) \in Seq(Bundle)
         /\ Len(snaps) \in Nat /\ DOMAIN snaps = 1 .. Len(snaps)
         /\ DOMAIN Append(snaps, b) = 1 .. Len(snaps) + 1
         /\ \A i \in DOMAIN snaps : Append(snaps, b)[i] = snaps[i]
         /\ Append(snaps, b)[Len(snaps) + 1] = b
OBVIOUS

LEMMA IndexDigests ==
  ASSUME NEW snaps \in Seq(Bundle), NEW b \in Bundle
  PROVE  Digests(Index(snaps, b)) = Digests(snaps) \cup {b.records}
<1>1. CASE b.records \in Digests(snaps)
  BY <1>1 DEF Index
<1>2. CASE b.records \notin Digests(snaps)
  <2>1. Index(snaps, b) = Append(snaps, b)
    BY <1>2 DEF Index
  <2>2. \A d : d \in Digests(snaps) => d \in Digests(Append(snaps, b))
    BY AppendRows DEF Digests
  <2>3. b.records \in Digests(Append(snaps, b))
    BY AppendRows DEF Digests
  <2>4. \A d : d \in Digests(Append(snaps, b)) => d \in Digests(snaps) \cup {b.records}
    BY AppendRows DEF Digests
  <2>5. QED
    BY <2>1, <2>2, <2>3, <2>4
<1>3. QED
  BY <1>1, <1>2

LEMMA IndexWhole ==
  ASSUME NEW snaps, Whole(snaps), NEW b \in Bundle
  PROVE  Whole(Index(snaps, b))
<1> DEFINE longer == Append(snaps, b)
<1>1. snaps \in Seq(Bundle)
  BY DEF Whole
<1>2. PICK i \in DOMAIN snaps : IsLatest(snaps, i)
  BY DEF Whole
<1>3. /\ longer \in Seq(Bundle) /\ Len(snaps) \in Nat
      /\ DOMAIN snaps = 1 .. Len(snaps) /\ DOMAIN longer = 1 .. Len(snaps) + 1
      /\ \A j \in DOMAIN snaps : longer[j] = snaps[j]
      /\ longer[Len(snaps) + 1] = b
  BY <1>1, AppendRows
<1>4. b.completed \in Nat /\ \A j \in DOMAIN snaps : snaps[j].completed \in Nat
  <2>1. \A j \in DOMAIN snaps : snaps[j] \in Bundle
    BY <1>1
  <2>2. QED
    BY <2>1 DEF Bundle
<1> HIDE DEF longer
<1>5. CASE b.completed < snaps[i].completed
  <2>1. i \in DOMAIN longer /\ IsLatest(longer, i)
    BY <1>2, <1>3, <1>4, <1>5 DEF IsLatest
  <2>2. QED
    BY <1>3, <2>1 DEF Whole, Index, longer
<1>6. CASE ~(b.completed < snaps[i].completed)
  <2>1. \A j \in DOMAIN snaps : snaps[j].completed <= b.completed
    BY <1>2, <1>4, <1>6 DEF IsLatest
  <2>2. Len(snaps) + 1 \in DOMAIN longer /\ IsLatest(longer, Len(snaps) + 1)
    BY <1>3, <1>4, <2>1 DEF IsLatest
  <2>3. QED
    BY <1>3, <2>2 DEF Whole, Index, longer
<1>7. QED
  BY <1>5, <1>6

-----------------------------------------------------------------------------
(* What one process does to the others *)

\* The lock as a step of p may leave it.
LockMoves(p) ==
  \/ lock' = lock
  \/ lock = Free /\ lock' = p
  \/ lock = p /\ lock' = Free

LEMMA ReleaseMoves ==
  ASSUME NEW p, Release(p) PROVE LockMoves(p)
BY DEF Release, LockMoves

LEMMA IdleType ==
  ASSUME NEW p \in Procs, NEW n \in Nat, NEW stamp \in Nat
  PROVE  IdleRun(p, n, stamp) \in Run
<1>1. EmptyFile \in File /\ Baseline \in Bundle
  BY EmptyFileType, BaselineType
<1>2. {} \in Digest /\ << >> \in Seq(Attempt)
  BY DEF Digest
<1>3. [kind |-> "manual", stamp |-> 0, by |-> <<p, 0>>] \in BackupName
  BY DEF BackupName, Attempt
<1>4. QED
  BY <1>1, <1>2, <1>3, StepNames DEF IdleRun, Run

\* Who holds nothing agrees with everything.
LEMMA IdleAgrees ==
  ASSUME NEW p, NEW n, NEW stamp, run'[p] = IdleRun(p, n, stamp)
  PROVE  Placed(p)' /\ Agrees(p)'
BY EmptyFileType DEF IdleRun, Placed, Agrees, StepsOf, Held

\* What the lock protects, only its holder changes.
LEMMA OthersKept ==
  ASSUME Inv, NEW p \in Procs, NEW q \in Procs \ {p}, run'[q] = run[q],
         LockMoves(p), past \subseteq past',
         \/ lock = p
         \/ /\ live'.inode = live.inode /\ live'.db.snaps = live.db.snaps
            /\ backups' = backups /\ verified' = verified
  PROVE  Placed(q)' /\ Agrees(q)'
<1>1. Placed(q) /\ Agrees(q)
  BY DEF Inv
<1>2. Free \notin Procs
  BY FreeAssumption
<1>3. Placed(q)'
  BY <1>1, <1>2 DEF Placed, LockMoves
<1>4. BackupFor(q)' = BackupFor(q)
  BY DEF BackupFor
<1>5. CASE lock = p
  <2>1. run[q].pc \notin Held
    BY <1>1, <1>5 DEF Placed
  <2>2. Agrees(q)'
    BY <1>1, <2>1 DEF Agrees, Held
  <2>3. QED
    BY <1>3, <2>2
<1>6. CASE /\ live'.inode = live.inode /\ live'.db.snaps = live.db.snaps
           /\ backups' = backups /\ verified' = verified
  <2>1. Agrees(q)'
    BY <1>1, <1>4, <1>6 DEF Agrees
  <2>2. QED
    BY <1>3, <2>1
<1>7. QED
  BY <1>5, <1>6

StatusType == [state : {"none", "succeeded", "failed"}, last : Seq(Attempt)]

\* A step of p that changes neither the catalog nor the backups.
LEMMA QuietStep ==
  ASSUME Inv, NEW p \in Procs,
         UNCHANGED <<reg, now, live, backups, acked, verified, past>>,
         run' = [run EXCEPT ![p] = run'[p]], run'[p] \in Run, LockMoves(p),
         bundles' \subseteq Bundle, status' \in StatusType,
         faults' \in 0 .. MaxFaults, Placed(p)', Agrees(p)'
  PROVE  Inv'
<1>1. run \in [Procs -> Run] /\ lock \in Procs \cup {Free}
  BY DEF Inv, TypeOK
<1>2. run' \in [Procs -> Run] /\ \A q \in Procs \ {p} : run'[q] = run[q]
  BY <1>1
<1>3. lock' \in Procs \cup {Free}
  BY <1>1 DEF LockMoves
<1>4. TypeOK'
  BY <1>2, <1>3 DEF Inv, TypeOK, StatusType
<1>5. WasPublished' /\ Lasting'
  BY DEF Inv, WasPublished, Lasting
<1>6. \A q \in Procs : Placed(q)' /\ Agrees(q)'
  BY <1>2, OthersKept
<1>7. QED
  BY <1>4, <1>5, <1>6 DEF Inv

LEMMA InvParts ==
  ASSUME Inv, NEW p \in Procs
  PROVE  /\ run \in [Procs -> Run] /\ run[p] \in Run
         /\ Placed(p) /\ Agrees(p)
         /\ bundles \subseteq Bundle /\ status \in StatusType
         /\ faults \in 0 .. MaxFaults /\ now \in Nat
         /\ Whole(live.db.snaps) /\ live.db \in File /\ live.inode \in Nat
         /\ live.valid \in BOOLEAN
BY DEF Inv, TypeOK, WasPublished, StatusType

-----------------------------------------------------------------------------
(* Every step keeps the invariant: beginnings, and the refresh up to its   *)
(* staged import                                                           *)

LEMMA AcquireKeeps ==
  ASSUME Inv, NEW p \in Procs, Acquire(p) PROVE Inv'
<1>1. /\ run \in [Procs -> Run] /\ run[p] \in Run /\ Placed(p) /\ Agrees(p)
      /\ bundles \subseteq Bundle /\ status \in StatusType /\ faults \in 0 .. MaxFaults
  BY InvParts
<1>2. run[p].pc = "wait" /\ run[p].task # "none"
  BY <1>1 DEF Acquire, At, Placed, StepsOf
<1>3. /\ run' = [run EXCEPT ![p] = run'[p]]
      /\ run'[p] = [run[p] EXCEPT !.pc = FirstStep(p)]
  BY <1>1 DEF Acquire, Goto
<1>4. /\ run[p].task = "refresh" => FirstStep(p) = "stage"
      /\ run[p].task = "backup" => FirstStep(p) = "backup"
      /\ run[p].task = "restore" => FirstStep(p) = "recover"
      /\ run[p].task = "index" => FirstStep(p) = "open"
      /\ run[p].task = "observe" => FirstStep(p) = "verify"
  BY DEF FirstStep
<1>5. run[p].task \in {"refresh", "backup", "restore", "index", "observe"}
  BY <1>1, <1>2 DEF Run
<1>6. run'[p] \in Run
  <2>1. FirstStep(p) \in Steps
    BY <1>4, <1>5 DEF Steps
  <2>2. QED
    BY <1>1, <1>3, <2>1 DEF Run
<1>7. Placed(p)'
  BY <1>1, <1>3, <1>4, <1>5 DEF Acquire, Placed, StepsOf, Run
<1>8. Agrees(p)'
  BY <1>1, <1>2, <1>3, <1>4, <1>5 DEF Acquire, Agrees, Run, histories
<1>9. QED
  BY <1>1, <1>3, <1>6, <1>7, <1>8, QuietStep DEF Acquire, LockMoves, histories

LEMMA BeginRefreshKeeps ==
  ASSUME Inv, NEW p \in Refreshers, BeginRefresh(p) PROVE Inv'
<1>1. /\ p \in Procs
      /\ run \in [Procs -> Run] /\ run[p] \in Run /\ Placed(p) /\ Agrees(p)
      /\ bundles \subseteq Bundle /\ status \in StatusType /\ faults \in 0 .. MaxFaults
      /\ now \in Nat
  BY InvParts DEF Procs
<1>2. /\ run' = [run EXCEPT ![p] = run'[p]]
      /\ run'[p] = [run[p] EXCEPT !.task = "refresh", !.pc = "wait",
                                  !.nth = @ + 1, !.stamp = now]
  BY <1>1 DEF BeginRefresh
<1>3. run'[p] \in Run
  <2>1. run[p].nth + 1 \in Nat
    BY <1>1 DEF Run
  <2>2. QED
    BY <1>1, <1>2, <2>1, StepNames DEF Run
<1>4. Placed(p)'
  BY <1>1, <1>2 DEF Placed, StepsOf, Held, Run
<1>5. Agrees(p)'
  BY <1>1, <1>2 DEF BeginRefresh, Agrees, Run
<1>6. QED
  BY <1>1, <1>2, <1>3, <1>4, <1>5, QuietStep DEF BeginRefresh, LockMoves, histories

LEMMA StageCopyKeeps ==
  ASSUME Inv, NEW p \in Procs, StageCopy(p) PROVE Inv'
<1> DEFINE latest == Latest(live.db.snaps)
           b == [records |-> {}, base |-> {<<latest.records, latest.completed>>},
                 since |-> latest.completed, started |-> now, completed |-> now]
<1>1. /\ run \in [Procs -> Run] /\ run[p] \in Run /\ Placed(p) /\ Agrees(p)
      /\ bundles \subseteq Bundle /\ status \in StatusType /\ faults \in 0 .. MaxFaults
      /\ now \in Nat /\ Whole(live.db.snaps) /\ live.db \in File
  BY InvParts
<1>2. latest \in Bundle
  BY <1>1, LatestType
<1>3. b \in Bundle
  BY <1>1, <1>2 DEF Bundle, Digest
<1>4. verified \subseteq live.db.obs
  BY DEF Inv, Lasting
<1>5. /\ run' = [run EXCEPT ![p] = run'[p]]
      /\ run'[p] = [run[p] EXCEPT !.pc = "fetch", !.stage = live.db,
                                  !.left = Servers, !.bundle = b]
  BY <1>1 DEF StageCopy
<1> HIDE DEF latest, b
<1>6. run[p].pc = "stage" /\ run[p].task = "refresh"
  BY <1>1 DEF StageCopy, At, Placed, StepsOf, Run
<1>7. run'[p] \in Run
  BY <1>1, <1>3, <1>5, StepNames DEF Run
<1>8. Placed(p)'
  BY <1>1, <1>5, <1>6 DEF StageCopy, Placed, StepsOf, Held, Run
<1>9. Agrees(p)'
  BY <1>1, <1>4, <1>5, <1>6 DEF StageCopy, Agrees, Run, histories
<1>10. QED
  BY <1>1, <1>5, <1>7, <1>8, <1>9, QuietStep DEF StageCopy, LockMoves, histories

LEMMA FetchKeeps ==
  ASSUME Inv, NEW p \in Procs, NEW k \in Servers, Fetch(p, k) PROVE Inv'
<1> DEFINE found == IF reg[k].at >= run[p].bundle.since
                    THEN run[p].bundle.records \cup {<<k, reg[k].version>>}
                    ELSE run[p].bundle.records
           b == [run[p].bundle EXCEPT !.records = found]
<1>1. /\ run \in [Procs -> Run] /\ run[p] \in Run /\ Placed(p) /\ Agrees(p)
      /\ bundles \subseteq Bundle /\ status \in StatusType /\ faults \in 0 .. MaxFaults
      /\ run[p].bundle \in Bundle
  BY InvParts DEF Run
<1>2. reg[k].version \in Nat
  BY DEF Inv, TypeOK
<1>3. b \in Bundle
  BY <1>1, <1>2 DEF Bundle, Digest, Record
<1>4. /\ run' = [run EXCEPT ![p] = run'[p]]
      /\ run'[p] = [run[p] EXCEPT !.left = @ \ {k}, !.bundle = b]
  BY <1>1 DEF Fetch, Run
<1> HIDE DEF found, b
<1>5. run[p].pc = "fetch"
  BY DEF Fetch, At
<1>6. run'[p] \in Run
  BY <1>1, <1>3, <1>4 DEF Run
<1>7. Placed(p)'
  BY <1>1, <1>4 DEF Fetch, Placed, Run
<1>8. Agrees(p)'
  BY <1>1, <1>4, <1>5 DEF Fetch, Agrees, Run, histories
<1>9. QED
  BY <1>1, <1>4, <1>6, <1>7, <1>8, QuietStep DEF Fetch, LockMoves, histories

LEMMA CompleteBundleKeeps ==
  ASSUME Inv, NEW p \in Procs, CompleteBundle(p) PROVE Inv'
<1> DEFINE b == [run[p].bundle EXCEPT !.completed = now]
<1>1. /\ run \in [Procs -> Run] /\ run[p] \in Run /\ Placed(p) /\ Agrees(p)
      /\ bundles \subseteq Bundle /\ status \in StatusType /\ faults \in 0 .. MaxFaults
      /\ run[p].bundle \in Bundle /\ now \in Nat
  BY InvParts DEF Run
<1>2. b \in Bundle
  BY <1>1 DEF Bundle
<1>3. /\ run' = [run EXCEPT ![p] = run'[p]] /\ bundles' = bundles \cup {b}
      /\ run'[p] = [run[p] EXCEPT !.bundle = b, !.pc = "import"]
  BY <1>1 DEF CompleteBundle
<1> HIDE DEF b
<1>4. run[p].pc = "fetch" /\ run[p].task = "refresh"
  BY <1>1 DEF CompleteBundle, At, Placed, StepsOf, Run
<1>5. run'[p] \in Run
  BY <1>1, <1>2, <1>3, StepNames DEF Run
<1>6. Placed(p)'
  BY <1>1, <1>3, <1>4 DEF CompleteBundle, Placed, StepsOf, Held, Run
<1>7. Agrees(p)'
  BY <1>1, <1>3, <1>4 DEF CompleteBundle, Agrees, Run, histories
<1>8. QED
  BY <1>1, <1>2, <1>3, <1>5, <1>6, <1>7, QuietStep
     DEF CompleteBundle, LockMoves, histories

LEMMA ImportStagedKeeps ==
  ASSUME Inv, NEW p \in Procs, ImportStaged(p) PROVE Inv'
<1> DEFINE snaps == Index(run[p].stage.snaps, run[p].bundle)
<1>1. /\ run \in [Procs -> Run] /\ run[p] \in Run /\ Placed(p) /\ Agrees(p)
      /\ bundles \subseteq Bundle /\ status \in StatusType /\ faults \in 0 .. MaxFaults
      /\ run[p].bundle \in Bundle /\ run[p].stage \in File
  BY InvParts DEF Run
<1>2. Whole(snaps)
  BY <1>1, IndexWhole DEF Agrees
<1>3. [run[p].stage EXCEPT !.snaps = snaps] \in File
  BY <1>1, <1>2 DEF Whole, File, Content
<1>4. /\ run' = [run EXCEPT ![p] = run'[p]]
      /\ run'[p] = [run[p] EXCEPT !.stage = [run[p].stage EXCEPT !.snaps = snaps],
                                  !.pc = "backup"]
  BY <1>1 DEF ImportStaged, Run
<1>5. run[p].pc = "import" /\ run[p].task = "refresh"
  BY <1>1 DEF ImportStaged, At, Placed, StepsOf, Run
<1>6. snaps = Index(live.db.snaps, run[p].bundle) /\ verified \subseteq run[p].stage.obs
  BY <1>1, <1>5 DEF Agrees
<1> HIDE DEF snaps
<1>7. run'[p] \in Run
  BY <1>1, <1>3, <1>4, StepNames DEF Run
<1>8. Placed(p)'
  BY <1>1, <1>4, <1>5 DEF ImportStaged, Placed, StepsOf, Held, Run
<1>9. Agrees(p)'
  <2>1. run'[p].stage.snaps = snaps /\ run'[p].stage.obs = run[p].stage.obs
    BY <1>1, <1>4 DEF Run, File, Content
  <2>2. run'[p].task = "refresh" /\ run'[p].pc = "backup" /\ run'[p].bundle = run[p].bundle
    BY <1>1, <1>4, <1>5 DEF Run
  <2>3. QED
    BY <1>2, <1>6, <2>1, <2>2 DEF ImportStaged, Agrees, histories
<1>10. QED
  BY <1>1, <1>4, <1>7, <1>8, <1>9, QuietStep DEF ImportStaged, LockMoves, histories

\* An attempt of a refresh fails, any other attempt is over.
LEMMA FailedKeeps ==
  ASSUME Inv, NEW p \in Procs, run[p].task = "refresh",
         NEW error \in {"mismatch", "other"},
         run' = [run EXCEPT ![p].pc = "failed", ![p].error = error],
         UNCHANGED <<reg, now, live, backups, acked, verified, past, bundles, status>>,
         LockMoves(p), faults' \in 0 .. MaxFaults
  PROVE  Inv'
<1>1. /\ run \in [Procs -> Run] /\ run[p] \in Run /\ Placed(p) /\ Agrees(p)
      /\ bundles \subseteq Bundle /\ status \in StatusType
  BY InvParts
<1>2. /\ run' = [run EXCEPT ![p] = run'[p]]
      /\ run'[p] = [run[p] EXCEPT !.pc = "failed", !.error = error]
  BY <1>1
<1>3. run'[p] \in Run
  BY <1>1, <1>2, StepNames DEF Run
<1>4. Placed(p)'
  BY <1>1, <1>2 DEF Placed, StepsOf, Held, Run
<1>5. Agrees(p)'
  BY <1>1, <1>2 DEF Agrees, Run
<1>6. QED
  BY <1>1, <1>2, <1>3, <1>4, <1>5, QuietStep

LEMMA FinishedRun ==
  ASSUME Inv, NEW p \in Procs, Finish(p)
  PROVE  /\ run' = [run EXCEPT ![p] = run'[p]] /\ run'[p] \in Run
         /\ run'[p] = IdleRun(p, run[p].nth, run[p].stamp)
         /\ Placed(p)' /\ Agrees(p)'
<1>1. run \in [Procs -> Run] /\ run[p] \in Run
  BY InvParts
<1>2. run'[p] = IdleRun(p, run[p].nth, run[p].stamp)
  BY <1>1 DEF Finish
<1>3. run' = [run EXCEPT ![p] = run'[p]]
  BY <1>1, <1>2 DEF Finish
<1>4. run[p].nth \in Nat /\ run[p].stamp \in Nat
  BY <1>1 DEF Run
<1>5. QED
  BY <1>2, <1>3, <1>4, IdleType, IdleAgrees

LEMMA FinishedKeeps ==
  ASSUME Inv, NEW p \in Procs, Finish(p),
         UNCHANGED <<reg, now, live, backups, acked, verified, past, bundles>>,
         LockMoves(p), status' \in StatusType, faults' \in 0 .. MaxFaults
  PROVE  Inv'
BY FinishedRun, QuietStep, InvParts

-----------------------------------------------------------------------------
(* Failures, reports and the operator's commands, which leave the catalog  *)

LEMMA StagedMismatchKeeps ==
  ASSUME Inv, NEW p \in Procs, StagedMismatch(p) PROVE Inv'
<1>1. run[p] \in Run /\ Placed(p) /\ faults \in 0 .. MaxFaults
  BY InvParts
<1>2. run[p].task = "refresh"
  BY <1>1 DEF StagedMismatch, At, Placed, StepsOf, Run
<1>3. LockMoves(p)
  BY ReleaseMoves DEF StagedMismatch
<1>4. QED
  BY <1>1, <1>2, <1>3, FailedKeeps DEF StagedMismatch, histories

LEMMA LiveInvalidKeeps ==
  ASSUME Inv, NEW p \in Procs, LiveInvalid(p) PROVE Inv'
<1>1. status \in StatusType /\ faults \in 0 .. MaxFaults
  BY InvParts
<1>2. LockMoves(p)
  BY ReleaseMoves DEF LiveInvalid
<1>3. CASE run[p].task = "refresh"
  BY <1>1, <1>2, <1>3, FailedKeeps DEF LiveInvalid, histories
<1>4. CASE run[p].task # "refresh"
  BY <1>1, <1>2, <1>4, FinishedKeeps DEF LiveInvalid, histories
<1>5. QED
  BY <1>3, <1>4

LEMMA FailKeeps ==
  ASSUME Inv, NEW p \in Procs, Fail(p) PROVE Inv'
<1>1. status \in StatusType /\ faults' \in 0 .. MaxFaults
  BY InvParts, BoundsAssumption DEF Fail
<1>2. LockMoves(p)
  BY ReleaseMoves DEF Fail
<1>3. CASE run[p].task = "refresh"
  BY <1>1, <1>2, <1>3, FailedKeeps DEF Fail, histories
<1>4. CASE run[p].task # "refresh"
  BY <1>1, <1>2, <1>4, FinishedKeeps DEF Fail, histories
<1>5. QED
  BY <1>3, <1>4

LEMMA KillKeeps ==
  ASSUME Inv, NEW p \in Procs, Kill(p) PROVE Inv'
<1>1. status \in StatusType /\ faults' \in 0 .. MaxFaults
  BY InvParts, BoundsAssumption DEF Kill
<1>2. LockMoves(p)
  BY ReleaseMoves DEF Kill
<1>3. QED
  BY <1>1, <1>2, FinishedKeeps DEF Kill, histories

LEMMA WriteSuccessKeeps ==
  ASSUME Inv, NEW p \in Procs, WriteSuccess(p) PROVE Inv'
<1>1. run[p] \in Run /\ faults \in 0 .. MaxFaults
  BY InvParts
<1>2. <<p, run[p].nth>> \in Attempt
  BY <1>1 DEF Run, Attempt
<1>3. status' \in StatusType
  BY <1>2 DEF WriteSuccess, StatusType
<1>4. LockMoves(p)
  BY ReleaseMoves DEF WriteSuccess
<1>5. QED
  BY <1>1, <1>3, <1>4, FinishedKeeps DEF WriteSuccess, histories

LEMMA WriteFailureKeeps ==
  ASSUME Inv, NEW p \in Procs, WriteFailure(p) PROVE Inv'
<1>1. run[p].previous \in Seq(Attempt) /\ faults \in 0 .. MaxFaults
  BY InvParts DEF Run
<1>2. status' \in StatusType
  BY <1>1 DEF WriteFailure, StatusType
<1>3. QED
  BY <1>1, <1>2, FinishedKeeps DEF WriteFailure, LockMoves, histories

LEMMA IndexFailsKeeps ==
  ASSUME Inv, NEW p \in Procs, IndexFails(p) PROVE Inv'
<1>1. status \in StatusType /\ faults \in 0 .. MaxFaults
  BY InvParts
<1>2. LockMoves(p)
  BY ReleaseMoves DEF IndexFails
<1>3. QED
  BY <1>1, <1>2, FinishedKeeps DEF IndexFails, histories

LEMMA LoadStatusKeeps ==
  ASSUME Inv, NEW p \in Procs, LoadStatus(p) PROVE Inv'
<1>1. /\ run \in [Procs -> Run] /\ run[p] \in Run /\ Placed(p) /\ Agrees(p)
      /\ bundles \subseteq Bundle /\ status \in StatusType /\ faults \in 0 .. MaxFaults
  BY InvParts
<1>2. /\ run' = [run EXCEPT ![p] = run'[p]]
      /\ run'[p] = [run[p] EXCEPT !.previous = status.last, !.pc = "report"]
  BY <1>1 DEF LoadStatus
<1>3. run[p].pc = "failed" /\ run[p].task = "refresh"
  BY <1>1 DEF LoadStatus, At, Placed, StepsOf, Run
<1>4. run'[p] \in Run
  BY <1>1, <1>2, StepNames DEF Run, StatusType
<1>5. Placed(p)'
  BY <1>1, <1>2, <1>3 DEF Placed, StepsOf, Held, Run
<1>6. Agrees(p)'
  BY <1>1, <1>2, <1>3 DEF Agrees, Run
<1>7. QED
  BY <1>1, <1>2, <1>4, <1>5, <1>6, QuietStep DEF LoadStatus, LockMoves, histories

LEMMA BeginBackupKeeps ==
  ASSUME Inv, NEW p \in Procs, BeginBackup(p) PROVE Inv'
<1>1. /\ run \in [Procs -> Run] /\ run[p] \in Run /\ Placed(p) /\ Agrees(p)
      /\ bundles \subseteq Bundle /\ status \in StatusType /\ faults \in 0 .. MaxFaults
  BY InvParts
<1>2. /\ run' = [run EXCEPT ![p] = run'[p]]
      /\ run'[p] = [run[p] EXCEPT !.task = "backup", !.pc = "wait", !.nth = @ + 1]
  BY <1>1 DEF BeginBackup
<1>3. run[p].nth + 1 \in Nat
  BY <1>1 DEF Run
<1>4. run'[p] \in Run
  BY <1>1, <1>2, <1>3, StepNames DEF Run
<1>5. Placed(p)'
  BY <1>1, <1>2 DEF Placed, StepsOf, Held, Run
<1>6. Agrees(p)'
  BY <1>1, <1>2 DEF BeginBackup, Agrees, Run
<1>7. QED
  BY <1>1, <1>2, <1>4, <1>5, <1>6, QuietStep DEF BeginBackup, LockMoves, histories

LEMMA BeginIndexKeeps ==
  ASSUME Inv, NEW p \in Procs, BeginIndex(p) PROVE Inv'
<1>1. /\ run \in [Procs -> Run] /\ run[p] \in Run /\ Placed(p) /\ Agrees(p)
      /\ bundles \subseteq Bundle /\ status \in StatusType /\ faults \in 0 .. MaxFaults
  BY InvParts
<1>2. PICK b \in bundles :
        run' = [run EXCEPT ![p].task = "index", ![p].pc = "wait",
                           ![p].nth = @ + 1, ![p].bundle = b]
  BY DEF BeginIndex
<1>3. /\ run' = [run EXCEPT ![p] = run'[p]]
      /\ run'[p] = [run[p] EXCEPT !.task = "index", !.pc = "wait", !.nth = @ + 1,
                                  !.bundle = b]
  BY <1>1, <1>2
<1>4. run[p].nth + 1 \in Nat /\ b \in Bundle
  BY <1>1 DEF Run
<1>5. run'[p] \in Run
  BY <1>1, <1>3, <1>4, StepNames, ZenonT(60) DEF Run
<1>6. Placed(p)'
  BY <1>1, <1>3 DEF Placed, StepsOf, Held, Run
<1>7. Agrees(p)'
  BY <1>1, <1>3 DEF BeginIndex, Agrees, Run
<1>8. QED
  BY <1>1, <1>3, <1>5, <1>6, <1>7, QuietStep DEF BeginIndex, LockMoves, histories

LEMMA BeginObserveKeeps ==
  ASSUME Inv, NEW p \in Procs, BeginObserve(p) PROVE Inv'
<1>1. /\ run \in [Procs -> Run] /\ run[p] \in Run /\ Placed(p) /\ Agrees(p)
      /\ bundles \subseteq Bundle /\ status \in StatusType /\ faults \in 0 .. MaxFaults
      /\ live.inode \in Nat
  BY InvParts
<1>2. /\ run' = [run EXCEPT ![p] = run'[p]]
      /\ run'[p] = [run[p] EXCEPT !.task = "observe", !.pc = "observe",
                                  !.nth = @ + 1, !.inode = live.inode]
  BY <1>1 DEF BeginObserve
<1>3. run[p].nth + 1 \in Nat
  BY <1>1 DEF Run
<1>4. run'[p] \in Run
  BY <1>1, <1>2, <1>3, StepNames DEF Run
<1>5. Placed(p)'
  BY <1>1, <1>2 DEF Placed, StepsOf, Held, Run
<1>6. Agrees(p)'
  BY <1>1, <1>2 DEF BeginObserve, Agrees, Run
<1>7. QED
  BY <1>1, <1>2, <1>4, <1>5, <1>6, QuietStep DEF BeginObserve, LockMoves, histories

\* A backup's catalog, copied for a restore, was published once.
LEMMA BackupWhole ==
  ASSUME Inv, NEW n \in DOMAIN backups
  PROVE  /\ n \in BackupName /\ backups[n] \in Backup
         /\ backups[n].db.snaps \in past /\ Whole(backups[n].db.snaps)
BY DEF Inv, TypeOK, WasPublished

LEMMA BeginRestoreKeeps ==
  ASSUME Inv, NEW p \in Procs, BeginRestore(p) PROVE Inv'
<1>1. /\ run \in [Procs -> Run] /\ run[p] \in Run /\ Placed(p) /\ Agrees(p)
      /\ bundles \subseteq Bundle /\ status \in StatusType /\ faults \in 0 .. MaxFaults
  BY InvParts
<1>2. PICK n \in DOMAIN backups :
        run' = [run EXCEPT ![p].task = "restore", ![p].pc = "copy",
                           ![p].nth = @ + 1, ![p].source = n,
                           ![p].expect = Latest(backups[n].db.snaps).records]
  BY DEF BeginRestore
<1> DEFINE expect == Latest(backups[n].db.snaps).records
<1>3. n \in BackupName /\ expect \in Digest
  BY BackupWhole, LatestType DEF Bundle, Digest
<1>4. /\ run' = [run EXCEPT ![p] = run'[p]]
      /\ run'[p] = [run[p] EXCEPT !.task = "restore", !.pc = "copy", !.nth = @ + 1,
                                  !.source = n, !.expect = expect]
  BY <1>1, <1>2
<1> HIDE DEF expect
<1>5. run[p].nth + 1 \in Nat
  BY <1>1 DEF Run
<1>6. run'[p] \in Run
  BY <1>1, <1>3, <1>4, <1>5, StepNames, ZenonT(60) DEF Run
<1>7. Placed(p)'
  BY <1>1, <1>4 DEF Placed, StepsOf, Held, Run
<1>8. Agrees(p)'
  BY <1>1, <1>4 DEF BeginRestore, Agrees, Run
<1>9. QED
  BY <1>1, <1>4, <1>6, <1>7, <1>8, QuietStep DEF BeginRestore, LockMoves, histories

LEMMA CopySourceKeeps ==
  ASSUME Inv, NEW p \in Procs, CopySource(p) PROVE Inv'
<1>1. /\ run \in [Procs -> Run] /\ run[p] \in Run /\ Placed(p) /\ Agrees(p)
      /\ bundles \subseteq Bundle /\ status \in StatusType /\ faults \in 0 .. MaxFaults
  BY InvParts
<1>2. CASE Finish(p)
  BY <1>1, <1>2, FinishedKeeps DEF CopySource, LockMoves, histories
<1>3. CASE /\ run[p].source \in DOMAIN backups
           /\ run' = [run EXCEPT ![p].stage = backups[run[p].source].db,
                                 ![p].pc = "wait"]
  <2> DEFINE db == backups[run[p].source].db
  <2>1. db \in File /\ db.snaps \in past /\ Whole(db.snaps)
    BY <1>3, BackupWhole DEF Backup
  <2>2. /\ run' = [run EXCEPT ![p] = run'[p]]
        /\ run'[p] = [run[p] EXCEPT !.stage = db, !.pc = "wait"]
    BY <1>1, <1>3
  <2> HIDE DEF db
  <2>3. run[p].pc = "copy" /\ run[p].task = "restore"
    BY <1>1 DEF CopySource, At, Placed, StepsOf, Run
  <2>4. run'[p] \in Run
    BY <1>1, <2>1, <2>2, StepNames DEF Run
  <2>5. Placed(p)'
    BY <1>1, <2>2, <2>3 DEF Placed, StepsOf, Held, Run
  <2>6. Agrees(p)'
    BY <1>1, <2>1, <2>2, <2>3 DEF CopySource, Agrees, Run, histories
  <2>7. QED
    BY <1>1, <2>2, <2>4, <2>5, <2>6, QuietStep DEF CopySource, LockMoves, histories
<1>4. QED
  BY <1>2, <1>3 DEF CopySource

LEMMA RecoverKeeps ==
  ASSUME Inv, NEW p \in Procs, Recover(p) PROVE Inv'
<1> DEFINE step == IF live.valid THEN "backup" ELSE "publish"
<1>1. /\ run \in [Procs -> Run] /\ run[p] \in Run /\ Placed(p) /\ Agrees(p)
      /\ bundles \subseteq Bundle /\ status \in StatusType /\ faults \in 0 .. MaxFaults
  BY InvParts
<1>2. /\ run' = [run EXCEPT ![p] = run'[p]] /\ run'[p] = [run[p] EXCEPT !.pc = step]
  BY <1>1 DEF Recover, Goto
<1>3. step \in {"backup", "publish"}
  OBVIOUS
<1> HIDE DEF step
<1>4. run[p].pc = "recover" /\ run[p].task = "restore"
  BY <1>1 DEF Recover, At, Placed, StepsOf, Run
<1>5. run'[p] \in Run
  <2>1. step \in Steps
    BY <1>3, StepNames
  <2>2. QED
    BY <1>1, <1>2, <2>1 DEF Run
<1>6. Placed(p)'
  BY <1>1, <1>2, <1>3, <1>4 DEF Recover, Placed, StepsOf, Held, Run
<1>7. Agrees(p)'
  BY <1>1, <1>2, <1>3, <1>4 DEF Recover, Agrees, Run, histories
<1>8. QED
  BY <1>1, <1>2, <1>5, <1>6, <1>7, QuietStep DEF Recover, LockMoves, histories

LEMMA OpenCatalogKeeps ==
  ASSUME Inv, NEW p \in Procs, OpenCatalog(p) PROVE Inv'
<1>1. /\ run \in [Procs -> Run] /\ run[p] \in Run /\ Placed(p) /\ Agrees(p)
      /\ bundles \subseteq Bundle /\ status \in StatusType /\ faults \in 0 .. MaxFaults
      /\ live.inode \in Nat
  BY InvParts
<1>2. /\ run' = [run EXCEPT ![p] = run'[p]]
      /\ run'[p] = [run[p] EXCEPT !.inode = live.inode, !.pc = "commit"]
  BY <1>1 DEF OpenCatalog
<1>3. run[p].pc = "open" /\ run[p].task = "index"
  BY <1>1 DEF OpenCatalog, At, Placed, StepsOf, Run
<1>4. run'[p] \in Run
  BY <1>1, <1>2, StepNames DEF Run
<1>5. Placed(p)'
  BY <1>1, <1>2, <1>3 DEF OpenCatalog, Placed, StepsOf, Held, Run
<1>6. Agrees(p)'
  BY <1>1, <1>2, <1>3 DEF OpenCatalog, Agrees, Run, histories
<1>7. QED
  BY <1>1, <1>2, <1>4, <1>5, <1>6, QuietStep DEF OpenCatalog, LockMoves, histories

-----------------------------------------------------------------------------
(* Backups and their retention *)

BackupsType ==
  /\ DOMAIN backups \subseteq BackupName
  /\ \A n \in DOMAIN backups : backups[n] \in Backup

LiveType == [inode : Nat, valid : BOOLEAN, db : File]

\* A step of the lock's holder, which may change what the lock protects.
LEMMA HolderStep ==
  ASSUME Inv, NEW p \in Procs, lock = p,
         UNCHANGED <<reg, now, bundles, status>>,
         run' = [run EXCEPT ![p] = run'[p]], run'[p] \in Run, LockMoves(p),
         faults' \in 0 .. MaxFaults, live' \in LiveType, BackupsType',
         acked' \subseteq Digest, verified' \subseteq Observation,
         past \subseteq past', WasPublished', Lasting', Placed(p)', Agrees(p)'
  PROVE  Inv'
<1>1. run \in [Procs -> Run] /\ lock \in Procs \cup {Free}
  BY DEF Inv, TypeOK
<1>2. run' \in [Procs -> Run] /\ \A q \in Procs \ {p} : run'[q] = run[q]
  BY <1>1
<1>3. lock' \in Procs \cup {Free}
  BY <1>1 DEF LockMoves
<1>4. TypeOK'
  BY <1>2, <1>3 DEF Inv, TypeOK, BackupsType, LiveType
<1>5. \A q \in Procs : Placed(q)' /\ Agrees(q)'
  BY <1>2, OthersKept
<1>6. QED
  BY <1>4, <1>5 DEF Inv

\* The same, when it is a step among the backups.
LEMMA BackupStep ==
  ASSUME Inv, NEW p \in Procs, lock = p,
         UNCHANGED <<reg, now, live, bundles, status, acked, verified, past>>,
         run' = [run EXCEPT ![p] = run'[p]], run'[p] \in Run, LockMoves(p),
         faults' \in 0 .. MaxFaults, Placed(p)', Agrees(p)',
         \A n \in DOMAIN backups' :
           /\ n \in BackupName /\ backups'[n] \in Backup
           /\ backups'[n].db.snaps \in past
  PROVE  Inv'
<1>1. BackupsType'
  BY DEF BackupsType
<1>2. WasPublished' /\ Lasting'
  BY DEF Inv, WasPublished, Lasting
<1>3. live' \in LiveType /\ acked' \subseteq Digest /\ verified' \subseteq Observation
  BY DEF Inv, TypeOK, LiveType
<1>4. QED
  BY <1>1, <1>2, <1>3, HolderStep

LEMMA BackupForType ==
  ASSUME Inv, NEW p \in Procs PROVE BackupFor(p) \in BackupName
<1>1. run[p].nth \in Nat /\ run[p].stamp \in Nat
  BY InvParts DEF Run
<1>2. <<p, run[p].nth>> \in Attempt /\ <<p, 0>> \in Attempt
  BY <1>1 DEF Attempt
<1>3. CASE run[p].task = "refresh"
  BY <1>1, <1>2, <1>3 DEF BackupFor, BackupName
<1>4. CASE run[p].task = "restore"
  BY <1>2, <1>4 DEF BackupFor, BackupName
<1>5. CASE run[p].task \notin {"refresh", "restore"}
  BY <1>2, <1>5 DEF BackupFor, BackupName
<1>6. QED
  BY <1>3, <1>4, <1>5

\* One backup file is put in place, the others stay.
LEMMA PutBackup ==
  ASSUME Inv, NEW name \in BackupName, NEW backup \in Backup, backup.db.snaps \in past,
         backups' = Put(name, backup)
  PROVE  /\ \A n \in DOMAIN backups' :
              /\ n \in BackupName /\ backups'[n] \in Backup
              /\ backups'[n].db.snaps \in past
         /\ DOMAIN backups' = DOMAIN backups \cup {name}
         /\ backups'[name] = backup
         /\ \A n \in DOMAIN backups \ {name} : backups'[n] = backups[n]
BY BackupWhole DEF Put

LEMMA HeldLock ==
  ASSUME Inv, NEW p \in Procs, run[p].pc \in Held PROVE lock = p
BY InvParts DEF Placed

LEMMA BackupFileKeeps ==
  ASSUME Inv, NEW p \in Procs, BackupFile(p) PROVE Inv'
<1> DEFINE name == BackupFor(p)
           meta == IF name \in DOMAIN backups THEN backups[name].meta ELSE NoMeta
           backup == [db |-> live.db, meta |-> meta]
<1>1. /\ run \in [Procs -> Run] /\ run[p] \in Run /\ Placed(p) /\ Agrees(p)
      /\ faults \in 0 .. MaxFaults /\ live.db \in File
  BY InvParts
<1>2. run[p].pc = "backup" /\ lock = p /\ run[p].task \in {"refresh", "backup", "restore"}
  BY <1>1 DEF BackupFile, At, Placed, StepsOf, Held, Run
<1>3. meta \in Seq(File)
  BY BackupWhole DEF Backup, NoMeta
<1>4. name \in BackupName /\ backup \in Backup /\ backup.db.snaps \in past
  BY <1>1, <1>3, BackupForType DEF Backup, Inv, WasPublished
<1>5. backups' = Put(name, backup)
  BY DEF BackupFile
<1>6. /\ run' = [run EXCEPT ![p] = run'[p]]
      /\ run'[p] = [run[p] EXCEPT !.pc = "metadata"]
  BY <1>1 DEF BackupFile, Goto
<1>7. backup.db = live.db
  OBVIOUS
<1> HIDE DEF name, backup
<1>8. /\ \A n \in DOMAIN backups' :
           /\ n \in BackupName /\ backups'[n] \in Backup
           /\ backups'[n].db.snaps \in past
      /\ name \in DOMAIN backups' /\ backups'[name] = backup
  BY <1>4, <1>5, PutBackup
<1>9. run'[p] \in Run
  BY <1>1, <1>6, StepNames DEF Run
<1>10. Placed(p)'
  BY <1>1, <1>2, <1>6 DEF BackupFile, Placed, StepsOf, Held, Run
<1>11. BackupFor(p)' = name
  BY <1>1, <1>6 DEF name, BackupFor, Run
<1>12. Agrees(p)'
  BY <1>1, <1>2, <1>6, <1>7, <1>8, <1>11 DEF BackupFile, Agrees, Run, histories
<1>13. QED
  BY <1>1, <1>2, <1>6, <1>8, <1>9, <1>10, <1>12, BackupStep
     DEF BackupFile, LockMoves, histories

LEMMA BackupMetadataKeeps ==
  ASSUME Inv, NEW p \in Procs, BackupMetadata(p) PROVE Inv'
<1> DEFINE name == BackupFor(p)
           backup == [backups[name] EXCEPT !.meta = <<backups[name].db>>]
<1>1. /\ run \in [Procs -> Run] /\ run[p] \in Run /\ Placed(p) /\ Agrees(p)
      /\ faults \in 0 .. MaxFaults
  BY InvParts
<1>2. run[p].pc = "metadata" /\ lock = p /\ run[p].task \in {"refresh", "backup", "restore"}
  BY <1>1 DEF BackupMetadata, At, Placed, StepsOf, Held, Run
<1>3. name \in DOMAIN backups
  BY <1>1, <1>2 DEF Agrees
<1>4. name \in BackupName /\ backup \in Backup /\ backup.db.snaps \in past
  <2>1. name \in BackupName /\ backups[name] \in Backup /\ backups[name].db.snaps \in past
    BY <1>3, BackupWhole
  <2>2. backups[name].db \in File
    BY <2>1 DEF Backup
  <2>3. <<backups[name].db>> \in Seq(File)
    BY <2>2
  <2>4. QED
    BY <2>1, <2>3 DEF Backup
<1>5. backups' = Put(name, backup)
  BY DEF BackupMetadata
<1> HIDE DEF backup
<1>6. \A n \in DOMAIN backups' :
        /\ n \in BackupName /\ backups'[n] \in Backup
        /\ backups'[n].db.snaps \in past
  BY <1>4, <1>5, PutBackup
<1>7. CASE run[p].task = "backup"
  <2>1. Finish(p) /\ LockMoves(p)
    BY <1>7, ReleaseMoves DEF BackupMetadata
  <2>2. QED
    BY <1>1, <1>2, <1>6, <2>1, FinishedRun, BackupStep DEF BackupMetadata, histories
<1>8. ASSUME NEW step \in {"prune", "publish"}, Goto(p, step), lock' = lock,
             run[p].task = IF step = "prune" THEN "refresh" ELSE "restore"
      PROVE  Inv'
  <2>1. /\ run' = [run EXCEPT ![p] = run'[p]]
        /\ run'[p] = [run[p] EXCEPT !.pc = step]
    BY <1>1, <1>8 DEF Goto
  <2>2. run'[p] \in Run
    <3>1. step \in Steps
      BY StepNames
    <3>2. QED
      BY <1>1, <2>1, <3>1 DEF Run
  <2>3. Placed(p)'
    BY <1>1, <1>2, <1>8, <2>1 DEF Placed, StepsOf, Held, Run
  <2>4. Agrees(p)'
    BY <1>1, <1>2, <1>8, <2>1 DEF BackupMetadata, Agrees, Run, histories
  <2>5. QED
    BY <1>1, <1>2, <1>6, <1>8, <2>1, <2>2, <2>3, <2>4, BackupStep
       DEF BackupMetadata, LockMoves, histories
<1>9. CASE run[p].task = "refresh"
  BY <1>8, <1>9 DEF BackupMetadata
<1>10. CASE run[p].task = "restore"
  BY <1>8, <1>10 DEF BackupMetadata
<1>11. QED
  BY <1>2, <1>7, <1>9, <1>10

\* Whatever retention removes, what it leaves is as it was, but for metadata.
LEMMA PrunedBackups ==
  ASSUME Inv, DOMAIN backups' \subseteq DOMAIN backups,
         \A n \in DOMAIN backups' :
           \/ backups'[n] = backups[n]
           \/ backups'[n] = [backups[n] EXCEPT !.meta = NoMeta]
  PROVE  \A n \in DOMAIN backups' :
           /\ n \in BackupName /\ backups'[n] \in Backup
           /\ backups'[n].db.snaps \in past
<1> SUFFICES ASSUME NEW n \in DOMAIN backups'
             PROVE  /\ n \in BackupName /\ backups'[n] \in Backup
                    /\ backups'[n].db.snaps \in past
  OBVIOUS
<1>1. n \in BackupName /\ backups[n] \in Backup /\ backups[n].db.snaps \in past
  BY BackupWhole
<1>2. [backups[n] EXCEPT !.meta = NoMeta] \in Backup
  <2>1. NoMeta \in Seq(File)
    BY DEF NoMeta
  <2>2. QED
    BY <1>1, <2>1 DEF Backup
<1>3. QED
  BY <1>1, <1>2 DEF Backup

LEMMA PruneKeeps ==
  ASSUME Inv, NEW p \in Procs, Prune(p) PROVE Inv'
<1>1. /\ run \in [Procs -> Run] /\ run[p] \in Run /\ Placed(p) /\ Agrees(p)
      /\ faults \in 0 .. MaxFaults
  BY InvParts
<1>2. run[p].pc = "prune" /\ lock = p /\ run[p].task = "refresh"
  BY <1>1 DEF Prune, At, Placed, StepsOf, Held, Run
<1>3. \A n \in DOMAIN backups' :
        /\ n \in BackupName /\ backups'[n] \in Backup
        /\ backups'[n].db.snaps \in past
  BY PrunedBackups DEF Prune, RefreshBackups
<1>4. /\ run' = [run EXCEPT ![p] = run'[p]]
      /\ run'[p] = [run[p] EXCEPT !.pc = "publish"]
  BY <1>1 DEF Prune, Goto
<1>5. run'[p] \in Run
  BY <1>1, <1>4, StepNames DEF Run
<1>6. Placed(p)'
  BY <1>1, <1>2, <1>4 DEF Prune, Placed, StepsOf, Held, Run
<1>7. Agrees(p)'
  BY <1>1, <1>2, <1>4 DEF Prune, Agrees, Run, histories
<1>8. QED
  BY <1>1, <1>2, <1>3, <1>4, <1>5, <1>6, <1>7, BackupStep DEF Prune, LockMoves, histories

LEMMA PruneFailsKeeps ==
  ASSUME Inv, NEW p \in Procs, PruneFails(p) PROVE Inv'
<1>1. /\ run \in [Procs -> Run] /\ run[p] \in Run /\ Placed(p) /\ Agrees(p)
      /\ faults \in 0 .. MaxFaults
  BY InvParts
<1>2. run[p].pc = "prune" /\ lock = p /\ run[p].task = "refresh"
  BY <1>1 DEF PruneFails, At, Placed, StepsOf, Held, Run
<1>3. \A n \in DOMAIN backups' :
        /\ n \in BackupName /\ backups'[n] \in Backup
        /\ backups'[n].db.snaps \in past
  BY PrunedBackups DEF PruneFails, RefreshBackups
<1>4. /\ run' = [run EXCEPT ![p] = run'[p]]
      /\ run'[p] = [run[p] EXCEPT !.pc = "failed", !.error = "other"]
  BY <1>1 DEF PruneFails
<1>5. run'[p] \in Run
  BY <1>1, <1>4, StepNames DEF Run
<1>6. Placed(p)'
  BY <1>1, <1>2, <1>4 DEF Placed, StepsOf, Held, Run
<1>7. Agrees(p)'
  BY <1>1, <1>2, <1>4 DEF Agrees, Run
<1>8. LockMoves(p) /\ faults' \in 0 .. MaxFaults
  BY <1>1, ReleaseMoves, BoundsAssumption DEF PruneFails
<1>9. QED
  BY <1>1, <1>2, <1>3, <1>4, <1>5, <1>6, <1>7, <1>8, BackupStep DEF PruneFails, histories

-----------------------------------------------------------------------------
(* Publication, the direct import, the observations, the surroundings      *)

LEMMA PublishKeeps ==
  ASSUME Inv, NEW p \in Procs, Publish(p) PROVE Inv'
<1> DEFINE stage == run[p].stage
<1>1. /\ run \in [Procs -> Run] /\ run[p] \in Run /\ Placed(p) /\ Agrees(p)
      /\ faults \in 0 .. MaxFaults /\ live.inode \in Nat
      /\ run[p].bundle \in Bundle /\ stage \in File /\ Whole(stage.snaps)
      /\ bundles \subseteq Bundle /\ status \in StatusType
  BY InvParts DEF Run, Agrees
<1>2. run[p].pc = "publish" /\ lock = p /\ run[p].task \in {"refresh", "restore"}
  BY <1>1 DEF Publish, At, Placed, StepsOf, Held, Run
<1>3. live' = [inode |-> live.inode + 1, valid |-> TRUE, db |-> stage]
  BY DEF Publish
<1>4. live' \in LiveType
  BY <1>1, <1>3 DEF LiveType
<1>5. BackupsType' /\ WasPublished' /\ past \subseteq past'
  <2>1. past' = past \cup {stage.snaps} /\ backups' = backups
    BY DEF Publish
  <2>2. live'.db.snaps = stage.snaps
    BY <1>3
  <2>3. QED
    BY <1>1, <2>1, <2>2 DEF Inv, TypeOK, BackupsType, WasPublished
<1>6. acked \subseteq Digests(live.db.snaps) /\ acked \subseteq Digest
      /\ verified \subseteq Observation /\ live.db.snaps \in Seq(Bundle)
  BY InvParts DEF Inv, TypeOK, Lasting, Whole
<1>7. CASE run[p].task = "refresh"
  <2>1. /\ run' = [run EXCEPT ![p] = run'[p]]
        /\ run'[p] = [run[p] EXCEPT !.pc = "status"]
    BY <1>1, <1>7 DEF Publish, Goto
  <2>2. stage.snaps = Index(live.db.snaps, run[p].bundle) /\ verified \subseteq stage.obs
    BY <1>1, <1>2, <1>7 DEF Agrees
  <2>3. Lasting' /\ acked' \subseteq Digest /\ verified' \subseteq Observation
    <3>1. acked' = acked \cup {run[p].bundle.records} /\ verified' = verified
      BY <1>7 DEF Publish
    <3>2. Digests(stage.snaps) = Digests(live.db.snaps) \cup {run[p].bundle.records}
      BY <1>1, <1>6, <2>2, IndexDigests
    <3>3. run[p].bundle.records \in Digest
      BY <1>1 DEF Bundle, Digest
    <3>4. QED
      BY <1>3, <1>6, <2>2, <3>1, <3>2, <3>3 DEF Lasting
  <2>4. run'[p] \in Run
    BY <1>1, <2>1, StepNames DEF Run
  <2>5. Placed(p)'
    BY <1>1, <1>2, <1>7, <2>1 DEF Publish, Placed, StepsOf, Held, Run
  <2>6. Agrees(p)'
    BY <1>1, <1>7, <2>1 DEF Agrees, Run
  <2>7. QED
    BY <1>1, <1>2, <1>4, <1>5, <1>7, <2>1, <2>3, <2>4, <2>5, <2>6, HolderStep
       DEF Publish, LockMoves
<1>8. CASE run[p].task = "restore"
  <2>1. Finish(p) /\ LockMoves(p)
    BY <1>8, ReleaseMoves DEF Publish
  <2>2. Lasting' /\ acked' \subseteq Digest /\ verified' \subseteq Observation
    <3>1. acked' = acked \cap Digests(stage.snaps) /\ verified' = verified \cap stage.obs
      BY <1>8 DEF Publish
    <3>2. QED
      BY <1>3, <1>6, <3>1 DEF Lasting
  <2>3. QED
    BY <1>1, <1>2, <1>4, <1>5, <2>1, <2>2, FinishedRun, HolderStep DEF Publish
<1>9. QED
  BY <1>2, <1>7, <1>8

LEMMA CommitIndexKeeps ==
  ASSUME Inv, NEW p \in Procs, CommitIndex(p) PROVE Inv'
<1> DEFINE snaps == Index(live.db.snaps, run[p].bundle)
<1>1. /\ run \in [Procs -> Run] /\ run[p] \in Run /\ Placed(p) /\ Agrees(p)
      /\ faults \in 0 .. MaxFaults /\ live.db \in File /\ Whole(live.db.snaps)
      /\ live.inode \in Nat /\ live.valid \in BOOLEAN /\ run[p].bundle \in Bundle
  BY InvParts DEF Run
<1>2. run[p].pc = "commit" /\ lock = p
  BY <1>1 DEF CommitIndex, At, Placed, Held
<1>3. run[p].inode = live.inode
  BY <1>1, <1>2 DEF Agrees
<1>4. Whole(snaps) /\ Digests(snaps) = Digests(live.db.snaps) \cup {run[p].bundle.records}
  BY <1>1, IndexWhole, IndexDigests DEF Whole
<1>5. live' = [live EXCEPT !.db.snaps = snaps] /\ past' = past \cup {snaps}
  BY <1>3 DEF CommitIndex
<1> HIDE DEF snaps
<1>6. live \in LiveType
  BY DEF Inv, TypeOK, LiveType
<1>7. live'.db.snaps = snaps /\ live'.db.obs = live.db.obs /\ live' \in LiveType
  BY <1>4, <1>5, <1>6 DEF LiveType, File, Content, Whole
<1>8. BackupsType' /\ WasPublished' /\ past \subseteq past'
  BY <1>4, <1>5, <1>7 DEF CommitIndex, Inv, TypeOK, BackupsType, WasPublished
<1>9. Lasting' /\ acked' \subseteq Digest /\ verified' \subseteq Observation
  <2>1. acked' = acked \cup {run[p].bundle.records} /\ verified' = verified
    BY DEF CommitIndex
  <2>2. run[p].bundle.records \in Digest
    BY <1>1 DEF Bundle, Digest
  <2>3. QED
    BY <1>4, <1>7, <2>1, <2>2 DEF Inv, TypeOK, Lasting
<1>10. Finish(p) /\ LockMoves(p)
  BY ReleaseMoves DEF CommitIndex
<1>11. QED
  BY <1>1, <1>2, <1>7, <1>8, <1>9, <1>10, FinishedRun, HolderStep DEF CommitIndex

LEMMA VerifyRunKeeps ==
  ASSUME Inv, NEW p \in Procs, VerifyRun(p) PROVE Inv'
<1>1. run[p] \in Run /\ Placed(p) /\ faults \in 0 .. MaxFaults
  BY InvParts
<1>2. lock = p
  BY <1>1 DEF VerifyRun, At, Placed, Held
<1>3. <<p, run[p].nth>> \in Observation
  BY <1>1 DEF Run, Observation, Attempt
<1>4. Lasting' /\ verified' \subseteq Observation /\ acked' \subseteq Digest
  BY <1>3 DEF VerifyRun, Inv, TypeOK, Lasting
<1>5. live' \in LiveType /\ BackupsType' /\ WasPublished'
  BY DEF VerifyRun, Inv, TypeOK, LiveType, BackupsType, WasPublished
<1>6. Finish(p) /\ LockMoves(p)
  BY ReleaseMoves DEF VerifyRun
<1>7. QED
  BY <1>1, <1>2, <1>4, <1>5, <1>6, FinishedRun, HolderStep DEF VerifyRun

\* The observation is inserted without the lock: it only adds a row.
LEMMA PersistKeeps ==
  ASSUME Inv, NEW p \in Procs, Persist(p) PROVE Inv'
<1>1. /\ run \in [Procs -> Run] /\ run[p] \in Run /\ Placed(p) /\ Agrees(p)
      /\ faults \in 0 .. MaxFaults
  BY InvParts
<1>2. /\ run' = [run EXCEPT ![p] = run'[p]]
      /\ run'[p] = [run[p] EXCEPT !.pc = "wait"]
  BY <1>1 DEF Persist, Goto
<1>3. run[p].pc = "observe" /\ run[p].task = "observe"
  BY <1>1 DEF Persist, At, Placed, StepsOf, Run
<1>4. live \in LiveType /\ <<p, run[p].nth>> \in Observation
  BY <1>1 DEF Inv, TypeOK, LiveType, Run, Observation, Attempt
<1>5. /\ live'.inode = live.inode /\ live'.db.snaps = live.db.snaps
      /\ live.db.obs \subseteq live'.db.obs /\ live' \in LiveType
  <2> DEFINE row == <<p, run[p].nth>>
             written == [live EXCEPT !.db.obs = @ \cup {row}]
  <2>1. /\ written.inode = live.inode /\ written.db.snaps = live.db.snaps
        /\ live.db.obs \subseteq written.db.obs /\ written \in LiveType
    BY <1>4 DEF LiveType, File, Content
  <2>2. live' \in {live, written}
    BY DEF Persist
  <2> HIDE DEF written
  <2>3. QED
    BY <1>4, <2>1, <2>2
<1>6. run'[p] \in Run
  BY <1>1, <1>2, StepNames DEF Run
<1>7. Placed(p)'
  BY <1>1, <1>2, <1>3 DEF Placed, StepsOf, Held, Run
<1>8. Agrees(p)'
  BY <1>1, <1>2, <1>3 DEF Agrees, Run
<1>9. \A q \in Procs \ {p} : run'[q] = run[q]
  BY <1>1, <1>2
<1>10. \A q \in Procs : Placed(q)' /\ Agrees(q)'
  BY <1>5, <1>7, <1>8, <1>9, OthersKept DEF Persist, LockMoves, histories
<1>11. TypeOK'
  BY <1>1, <1>2, <1>5, <1>6 DEF Persist, Inv, TypeOK, LiveType, histories
<1>12. WasPublished' /\ Lasting'
  BY <1>5 DEF Persist, Inv, WasPublished, Lasting, histories
<1>13. QED
  BY <1>10, <1>11, <1>12 DEF Inv

\* What surrounds the attempts may change; what they hold still agrees.
LEMMA Untouched ==
  ASSUME Inv, UNCHANGED <<lock, backups, run, verified, past>>,
         live'.inode = live.inode, live'.db = live.db, NEW p \in Procs
  PROVE  Placed(p)' /\ Agrees(p)'
<1>1. Placed(p) /\ Agrees(p)
  BY DEF Inv
<1>2. Placed(p)'
  BY <1>1 DEF Placed
<1>3. BackupFor(p)' = BackupFor(p)
  BY DEF BackupFor
<1>4. Agrees(p)'
  BY <1>1, <1>3 DEF Agrees
<1>5. QED
  BY <1>2, <1>4

\* The clock, the Registry and the damaged file change nobody's attempt.
LEMMA SurroundingsKeep ==
  ASSUME Inv, Tick \/ Damage \/ \E k \in Servers : Update(k) PROVE Inv'
<1>1. /\ UNCHANGED <<lock, backups, bundles, status, run, acked, verified, past>>
      /\ live'.inode = live.inode /\ live'.db = live.db
      /\ live' \in LiveType
  BY DEF Tick, Damage, Update, histories, Inv, TypeOK, LiveType
<1>2. now' \in Nat /\ faults' \in 0 .. MaxFaults
  BY BoundsAssumption DEF Tick, Damage, Update, Inv, TypeOK
<1>3. reg' \in [Servers -> [version : Nat, at : Nat]]
  BY DEF Tick, Damage, Update, Inv, TypeOK
<1>4. TypeOK'
  BY <1>1, <1>2, <1>3 DEF Inv, TypeOK, LiveType
<1>5. WasPublished' /\ Lasting'
  BY <1>1 DEF Inv, WasPublished, Lasting
<1>6. \A p \in Procs : Placed(p)' /\ Agrees(p)'
  BY <1>1, Untouched
<1>7. QED
  BY <1>4, <1>5, <1>6 DEF Inv

-----------------------------------------------------------------------------
(* The invariant, and what follows from it                                 *)

LEMMA InitKeeps == ASSUME Init PROVE Inv
<1>1. EmptyFile \in File /\ Whole(EmptyFile.snaps)
  BY EmptyFileType
<1>2. \A p \in Procs : IdleRun(p, 0, 0) \in Run
  BY IdleType
<1>3. TypeOK
  <2>1. reg \in [Servers -> [version : Nat, at : Nat]]
    BY DEF Init
  <2>2. run \in [Procs -> Run]
    BY <1>2 DEF Init
  <2>3. status \in [state : {"none", "succeeded", "failed"}, last : Seq(Attempt)]
    BY DEF Init
  <2>4. DOMAIN backups = {}
    BY DEF Init
  <2>5. live \in [inode : Nat, valid : BOOLEAN, db : File]
    BY <1>1 DEF Init
  <2>6. now \in Nat /\ lock \in Procs \cup {Free} /\ faults \in 0 .. MaxFaults
    BY BoundsAssumption DEF Init
  <2>7. bundles \subseteq Bundle /\ acked \subseteq Digest /\ verified \subseteq Observation
    BY DEF Init
  <2>8. QED
    BY <2>1, <2>2, <2>3, <2>4, <2>5, <2>6, <2>7 DEF TypeOK
<1>4. WasPublished /\ Lasting
  BY <1>1 DEF Init, WasPublished, Lasting
<1>5. \A p \in Procs : Placed(p) /\ Agrees(p)
  BY <1>1 DEF Init, IdleRun, Placed, Agrees, StepsOf, Held
<1>6. QED
  BY <1>3, <1>4, <1>5 DEF Inv

LEMMA ProceedKeeps ==
  ASSUME Inv, NEW p \in Procs, Proceed(p) PROVE Inv'
<1>1. CASE RefreshStep(p)
  BY <1>1, StageCopyKeeps, FetchKeeps, CompleteBundleKeeps, ImportStagedKeeps,
     StagedMismatchKeeps, PruneKeeps, WriteSuccessKeeps, LoadStatusKeeps,
     WriteFailureKeeps DEF RefreshStep
<1>2. CASE SharedStep(p)
  BY <1>2, AcquireKeeps, BackupFileKeeps, BackupMetadataKeeps, PublishKeeps,
     LiveInvalidKeeps DEF SharedStep
<1>3. CASE OperatorStep(p)
  BY <1>3, CopySourceKeeps, RecoverKeeps, OpenCatalogKeeps, CommitIndexKeeps,
     IndexFailsKeeps DEF OperatorStep
<1>4. CASE ObserverStep(p)
  BY <1>4, PersistKeeps, VerifyRunKeeps DEF ObserverStep
<1>5. QED
  BY <1>1, <1>2, <1>3, <1>4 DEF Proceed

LEMMA StutterKeeps == ASSUME Inv, UNCHANGED vars PROVE Inv'
<1>1. TypeOK' /\ WasPublished' /\ Lasting'
  BY DEF Inv, TypeOK, WasPublished, Lasting, vars
<1>2. \A p \in Procs : Placed(p)' /\ Agrees(p)'
  BY Untouched DEF vars
<1>3. QED
  BY <1>1, <1>2 DEF Inv

LEMMA NextKeeps == ASSUME Inv, [Next]_vars PROVE Inv'
<1>1. CASE Begin
  BY <1>1, BeginRefreshKeeps, BeginBackupKeeps, BeginRestoreKeeps,
     BeginIndexKeeps, BeginObserveKeeps DEF Begin, Procs
<1>2. CASE \E p \in Procs : Proceed(p)
  BY <1>2, ProceedKeeps
<1>3. CASE Fault
  BY <1>3, SurroundingsKeep, FailKeeps, PruneFailsKeeps, KillKeeps DEF Fault
<1>4. CASE Tick \/ \E k \in Servers : Update(k)
  BY <1>4, SurroundingsKeep
<1>5. CASE UNCHANGED vars
  BY <1>5, StutterKeeps
<1>6. QED
  BY <1>1, <1>2, <1>3, <1>4, <1>5 DEF Next

\* The strengthened invariant holds at every step.
LEMMA Invariance == Spec => []Inv
<1>1. Init => Inv
  BY InitKeeps
<1>2. Inv /\ [Next]_vars => Inv'
  BY NextKeeps
<1>3. QED
  BY <1>1, <1>2, PTL DEF Spec

\* Every file, backup, bundle and status record keeps its form, whoever is
\* killed where, and no attempt stands at a step its task does not have.
THEOREM TypeCorrect == Spec => []TypeOK
<1>1. Inv => TypeOK
  BY DEF Inv
<1>2. QED
  BY <1>1, Invariance, PTL

\* What was acknowledged as imported is in the published catalog until a
\* restore goes behind it: registry_maintenance.py copies, imports into and
\* replaces the database under the writer lock that `registry index` takes.
THEOREM ImportsSurvive == Spec => []AcknowledgedImportsSurvive
<1>1. Inv => AcknowledgedImportsSurvive
  BY DEF Inv, Lasting, AcknowledgedImportsSurvive
<1>2. QED
  BY <1>1, Invariance, PTL

\* An observation that bulk_remote_runtime_discovery.py recorded as completed
\* is never lost to a refresh, though the runner writes it without the lock:
\* the scheduler looks for it again under the lock.
THEOREM ObservationsSurvive == Spec => []VerifiedObservationsSurvive
<1>1. Inv => VerifiedObservationsSurvive
  BY DEF Inv, Lasting, VerifiedObservationsSurvive
<1>2. QED
  BY <1>1, Invariance, PTL

-----------------------------------------------------------------------------
(* The refinement *)

\* An import of a bundle is one more snapshot, or nothing new.
LEMMA IndexExtends ==
  ASSUME NEW snaps, Whole(snaps), NEW b \in Bundle
  PROVE  LET longer == Index(snaps, b) IN
         \/ longer = snaps
         \/ /\ Len(longer) = Len(snaps) + 1
            /\ SubSeq(longer, 1, Len(snaps)) = snaps
            /\ longer[Len(longer)] \in Bundle
            /\ longer[Len(longer)].records \notin Digests(snaps)
<1>1. CASE b.records \in Digests(snaps)
  BY <1>1 DEF Index
<1>2. CASE b.records \notin Digests(snaps)
  <2> DEFINE longer == Append(snaps, b)
  <2>1. snaps \in Seq(Bundle)
    BY DEF Whole
  <2>2. /\ Len(longer) = Len(snaps) + 1 /\ longer[Len(longer)] = b
        /\ SubSeq(longer, 1, Len(snaps)) = snaps
    BY <2>1
  <2>3. QED
    BY <1>2, <2>2 DEF Index
<1>3. QED
  BY <1>1, <1>2

\* Only a publication and a direct import change what readers see.
LEMMA ReadersSee ==
  ASSUME Inv, Next,
         \A p \in Procs : ~Publish(p) /\ ~CommitIndex(p)
  PROVE  live'.db.snaps = live.db.snaps /\ past' = past
<1>1. CASE Begin
  BY <1>1 DEF Begin, BeginRefresh, BeginBackup, BeginRestore, BeginIndex,
     BeginObserve, histories
<1>2. ASSUME NEW p \in Procs, RefreshStep(p)
      PROVE  live'.db.snaps = live.db.snaps /\ past' = past
  BY <1>2 DEF RefreshStep, StageCopy, Fetch, CompleteBundle, ImportStaged,
     StagedMismatch, Prune, WriteSuccess, LoadStatus, WriteFailure, histories
<1>3. ASSUME NEW p \in Procs, SharedStep(p)
      PROVE  live'.db.snaps = live.db.snaps /\ past' = past
  BY <1>3 DEF SharedStep, Acquire, BackupFile, BackupMetadata, LiveInvalid, histories
<1>4. ASSUME NEW p \in Procs, OperatorStep(p)
      PROVE  live'.db.snaps = live.db.snaps /\ past' = past
  BY <1>4 DEF OperatorStep, CopySource, Recover, OpenCatalog, IndexFails, histories
<1>5. ASSUME NEW p \in Procs, ObserverStep(p)
      PROVE  live'.db.snaps = live.db.snaps /\ past' = past
  <2>1. live \in LiveType
    BY DEF Inv, TypeOK, LiveType
  <2>2. QED
    BY <1>5, <2>1 DEF ObserverStep, Persist, VerifyRun, histories, LiveType, File,
       Content
<1>6. CASE Fault
  <2>1. live \in LiveType
    BY DEF Inv, TypeOK, LiveType
  <2>2. QED
    BY <1>6, <2>1 DEF Fault, Damage, Fail, PruneFails, Kill, histories, LiveType
<1>7. CASE Tick \/ \E k \in Servers : Update(k)
  BY <1>7 DEF Tick, Update, histories
<1>8. QED
  BY <1>1, <1>2, <1>3, <1>4, <1>5, <1>6, <1>7 DEF Next, Proceed

\* The instance's own copy of Catalog defines the same values.
LEMMA SameCatalogs ==
  Published!Bundle = Bundle /\ \A snaps : Published!Digests(snaps) = Digests(snaps)
BY DEF Published!Bundle, Published!Digest, Published!Record, Published!Digests,
   Bundle, Digest, Record, Digests

LEMMA ImportRefines ==
  ASSUME Inv, NEW b \in Bundle, live'.db.snaps = Index(live.db.snaps, b),
         past' = past \cup {live'.db.snaps}
  PROVE  [Published!Next]_(Published!vars)
<1>1. Whole(live.db.snaps) /\ live.db.snaps \in past
  BY DEF Inv, WasPublished
<1>2. CASE live'.db.snaps = live.db.snaps
  BY <1>1, <1>2 DEF Published!vars
<1>3. CASE live'.db.snaps # live.db.snaps
  <2>1. Published!Extend
    BY <1>1, <1>3, IndexExtends, SameCatalogs DEF Published!Extend
  <2>2. QED
    BY <2>1 DEF Published!Next
<1>4. QED
  BY <1>2, <1>3

LEMMA StepRefines ==
  ASSUME Inv, [Next]_vars PROVE [Published!Next]_(Published!vars)
<1>1. ASSUME NEW p \in Procs, Publish(p)
      PROVE  [Published!Next]_(Published!vars)
  <2>1. run[p].bundle \in Bundle /\ run[p].task \in {"refresh", "restore"} /\ Agrees(p)
    BY <1>1, InvParts DEF Publish, At, Placed, StepsOf, Run
  <2>2. live'.db.snaps = run[p].stage.snaps /\ past' = past \cup {run[p].stage.snaps}
    BY <1>1 DEF Publish
  <2>3. CASE run[p].task = "refresh"
    <3>1. live'.db.snaps = Index(live.db.snaps, run[p].bundle)
      BY <1>1, <2>1, <2>2, <2>3 DEF Publish, At, Agrees
    <3>2. QED
      BY <2>1, <2>2, <3>1, ImportRefines
  <2>4. CASE run[p].task = "restore"
    <3>1. run[p].stage.snaps \in past
      BY <1>1, <2>1, <2>4 DEF Publish, At, Agrees
    <3>2. Published!GoBack
      BY <2>2, <3>1 DEF Published!GoBack
    <3>3. QED
      BY <3>2 DEF Published!Next
  <2>5. QED
    BY <2>1, <2>3, <2>4
<1>2. ASSUME NEW p \in Procs, CommitIndex(p)
      PROVE  [Published!Next]_(Published!vars)
  <2>1. run[p].bundle \in Bundle /\ run[p].inode = live.inode /\ live \in LiveType
    BY <1>2, InvParts DEF CommitIndex, At, Agrees, Run, Inv, TypeOK, LiveType
  <2>2. live'.db.snaps = Index(live.db.snaps, run[p].bundle)
        /\ past' = past \cup {Index(live.db.snaps, run[p].bundle)}
    BY <1>2, <2>1 DEF CommitIndex, LiveType, File, Content
  <2>3. QED
    BY <2>1, <2>2, ImportRefines
<1>3. CASE Next /\ \A p \in Procs : ~Publish(p) /\ ~CommitIndex(p)
  BY <1>3, ReadersSee DEF Published!vars
<1>4. CASE UNCHANGED vars
  BY <1>4 DEF vars, Published!vars
<1>5. QED
  BY <1>1, <1>2, <1>3, <1>4

LEMMA InitRefines == ASSUME Init PROVE Published!Init
<1>1. live.db.snaps = <<Baseline>> /\ past = {live.db.snaps}
  BY DEF Init, EmptyFile
<1>2. QED
  BY <1>1, BaselineType, SameCatalogs DEF Published!Init

\* The readers only ever see whole catalogs: the one before with one more
\* snapshot of new contents, or one that was published before.  Every step of
\* a refresh, a restore and a direct import is a step of PublishedCatalog or
\* changes nothing it speaks of.
THEOREM Refinement == Spec => ImplementsPublishedCatalog
<1>1. Init => Published!Init
  BY InitRefines
<1>2. Inv /\ [Next]_vars => [Published!Next]_(Published!vars)
  BY StepRefines
<1>3. QED
  BY <1>1, <1>2, Invariance, PTL
     DEF Spec, ImplementsPublishedCatalog, Published!Spec

-----------------------------------------------------------------------------
(***************************************************************************)
(* One refresher, as with the systemd timer: a oneshot service has one     *)
(* instance.  With two, the retention that sorts by the time of an         *)
(* attempt's start may remove the backup of the refresh that waited longer *)
(* for the lock.                                                           *)
(***************************************************************************)

(* The invariant *)

OneRefresher == \A p, q \in Refreshers : p = q

\* A collection that began, and ended, in the second its baseline ended.
Instant(b) == b.since = b.completed

\* Every snapshot is of a completed bundle, but the first.
Kept == bundles \cup {Baseline}

Covers(b, k) ==
  b.since <= reg[k].at /\ reg[k].at < b.started => <<k, reg[k].version>> \in b.records

Sound(b) ==
  /\ b.since <= b.started /\ b.started <= b.completed /\ b.completed <= now
  /\ b.base = {} => b.since = 0
  /\ \A source \in b.base : source[2] = b.since
  /\ \A k \in Servers : Covers(b, k)

Precedes(b, c) ==
  \/ b.completed < c.completed
  \/ b.completed = c.completed /\ (Instant(b) => Instant(c))

Earliest(snaps, a) ==
  (\E i \in DOMAIN snaps : a < snaps[i].completed) =>
     \E i \in DOMAIN snaps :
        /\ a < snaps[i].completed
        /\ \A j \in DOMAIN snaps :
             a < snaps[j].completed => Precedes(snaps[i], snaps[j])

Traceable(snaps) ==
  /\ \A i \in DOMAIN snaps : snaps[i] \in Kept
  /\ \A i, j \in DOMAIN snaps : snaps[i].records = snaps[j].records => i = j
  /\ \A a \in Nat : Earliest(snaps, a)

BundlesInv ==
  /\ 2 <= now
  /\ \A b \in Kept : Sound(b)
  /\ \A b, c \in bundles :
       Instant(b) /\ Instant(c) /\ b.completed = c.completed => b = c
  /\ \A snaps \in past : Traceable(snaps)

Stamped(p) ==
  /\ run[p].stamp <= now
  /\ p \in Refreshers =>
       /\ run[p].task \in {"none", "refresh"}
       /\ \A b \in bundles : Instant(b) => b.completed <= run[p].stamp
       /\ run[p].pc \in {"wait", "stage", "fetch"} =>
            /\ 1 <= run[p].stamp
            /\ \A b \in bundles :
                 /\ b.completed <= run[p].stamp
                 /\ Instant(b) => b.completed < run[p].stamp
       /\ \A n \in RefreshBackups :
            n.by[1] = p => /\ n.stamp <= run[p].stamp
                           /\ n.stamp = run[p].stamp => n.by[2] = run[p].nth

Collected(p) ==
  /\ run[p].pc = "fetch" =>
       LET b == run[p].bundle IN
       /\ b.since <= run[p].stamp
       /\ run[p].stamp <= b.started /\ b.started <= now
       /\ b.base # {} /\ \A source \in b.base : source[2] = b.since
       /\ \A k \in Servers \ run[p].left : Covers(b, k)
  /\ run[p].task = "refresh"
       /\ run[p].pc \in {"import", "backup", "metadata", "prune", "publish"} =>
       run[p].bundle \in bundles
  /\ run[p].task = "index" => run[p].bundle \in bundles

Secured(p) ==
  /\ run[p].pc = "prune" =>
       /\ BackupFor(p) \in DOMAIN backups
       /\ Verified(backups[BackupFor(p)])
       /\ backups[BackupFor(p)].db.snaps = live.db.snaps
  /\ run[p].pc = "publish" /\ live.valid =>
       \E n \in DOMAIN backups :
         /\ Verified(backups[n])
         /\ backups[n].db.snaps = live.db.snaps

SingleInv ==
  /\ Inv /\ BundlesInv
  /\ \A n \in RefreshBackups : n.by[1] \in Refreshers
  /\ \A p \in Procs : Stamped(p) /\ Collected(p) /\ Secured(p)


-----------------------------------------------------------------------------
(* Catalogs whose rows can be traced to their collections                  *)

LEMMA KeptType == ASSUME Inv PROVE Kept \subseteq Bundle
BY BaselineType DEF Inv, TypeOK, Kept

LEMMA PrecedesOrders ==
  ASSUME NEW b \in Bundle, NEW c \in Bundle
  PROVE  /\ Precedes(b, c) \/ Precedes(c, b)
         /\ Precedes(b, b)
         /\ \A d \in Bundle : Precedes(b, c) /\ Precedes(c, d) => Precedes(b, d)
BY DEF Precedes, Instant, Bundle

LEMMA EarliestGrows ==
  ASSUME NEW snaps \in Seq(Bundle), NEW b \in Bundle, NEW a \in Nat, Earliest(snaps, a)
  PROVE  Earliest(Append(snaps, b), a)
<1> DEFINE longer == Append(snaps, b)
<1>1. /\ longer \in Seq(Bundle) /\ Len(snaps) \in Nat
      /\ DOMAIN snaps = 1 .. Len(snaps) /\ DOMAIN longer = 1 .. Len(snaps) + 1
      /\ \A j \in DOMAIN snaps : longer[j] = snaps[j]
      /\ longer[Len(snaps) + 1] = b
  BY AppendRows
<1>2. \A j \in DOMAIN longer : longer[j] \in Bundle
  BY <1>1
<1> HIDE DEF longer
<1>3. \A j \in DOMAIN longer : j \in DOMAIN snaps \/ j = Len(snaps) + 1
  BY <1>1
<1>4. \A j \in DOMAIN snaps : j \in DOMAIN longer /\ snaps[j] \in Bundle
  BY <1>1
<1>5. Len(snaps) + 1 \in DOMAIN longer
  BY <1>1
<1>6. CASE \A j \in DOMAIN snaps : ~(a < snaps[j].completed)
  <2>1. \A j \in DOMAIN longer : a < longer[j].completed => longer[j] = b
    BY <1>1, <1>3, <1>6
  <2>2. Earliest(longer, a)
    BY <1>2, <1>5, <2>1, PrecedesOrders DEF Earliest
  <2>3. QED
    BY <2>2 DEF longer
<1>7. CASE \E j \in DOMAIN snaps : a < snaps[j].completed
  <2>1. PICK i \in DOMAIN snaps :
          /\ a < snaps[i].completed
          /\ \A j \in DOMAIN snaps :
               a < snaps[j].completed => Precedes(snaps[i], snaps[j])
    BY <1>7 DEF Earliest
  <2>2. CASE ~(a < b.completed) \/ Precedes(snaps[i], b)
    <3>1. \A j \in DOMAIN longer :
            a < longer[j].completed => Precedes(longer[i], longer[j])
      BY <1>1, <1>3, <2>1, <2>2
    <3>2. Earliest(longer, a)
      BY <1>1, <1>4, <2>1, <3>1 DEF Earliest
    <3>3. QED
      BY <3>2 DEF longer
  <2>3. CASE a < b.completed /\ ~Precedes(snaps[i], b)
    <3>1. Precedes(b, snaps[i]) /\ Precedes(b, b)
      BY <1>4, <2>3, PrecedesOrders
    <3>2. \A j \in DOMAIN snaps : a < snaps[j].completed => Precedes(b, snaps[j])
      BY <1>4, <2>1, <3>1, PrecedesOrders
    <3>3. \A j \in DOMAIN longer : a < longer[j].completed => Precedes(b, longer[j])
      BY <1>1, <1>3, <3>1, <3>2
    <3>4. Earliest(longer, a)
      BY <1>1, <1>5, <2>3, <3>3 DEF Earliest
    <3>5. QED
      BY <3>4 DEF longer
  <2>4. QED
    BY <2>2, <2>3
<1>8. QED
  BY <1>6, <1>7

LEMMA IndexTraceable ==
  ASSUME Inv, NEW snaps \in Seq(Bundle), Traceable(snaps), NEW b \in bundles
  PROVE  Traceable(Index(snaps, b))
<1>1. b \in Bundle /\ b \in Kept
  BY DEF Inv, TypeOK, Kept
<1>2. CASE b.records \in Digests(snaps)
  BY <1>2 DEF Index
<1>3. CASE b.records \notin Digests(snaps)
  <2> DEFINE longer == Append(snaps, b)
  <2>1. /\ Len(snaps) \in Nat
        /\ DOMAIN snaps = 1 .. Len(snaps) /\ DOMAIN longer = 1 .. Len(snaps) + 1
        /\ \A j \in DOMAIN snaps : longer[j] = snaps[j]
        /\ longer[Len(snaps) + 1] = b
    BY <1>1, AppendRows
  <2>2. \A a \in Nat : Earliest(longer, a)
    BY <1>1, EarliestGrows DEF Traceable
  <2> HIDE DEF longer
  <2>3. \A i \in DOMAIN longer : longer[i] \in Kept
    BY <1>1, <2>1 DEF Traceable
  <2>4. \A i \in DOMAIN snaps : snaps[i].records # b.records
    BY <1>3 DEF Digests
  <2>5. \A i, j \in DOMAIN longer : longer[i].records = longer[j].records => i = j
    BY <2>1, <2>4 DEF Traceable
  <2>6. Traceable(longer)
    BY <2>2, <2>3, <2>5 DEF Traceable
  <2>7. QED
    BY <1>3, <2>6 DEF Index, longer
<1>4. QED
  BY <1>2, <1>3

-----------------------------------------------------------------------------
(* What the invariant says of missed updates                               *)

\* Of the collections that ended after an update the earliest either ran
\* then, or saw it, or its filter began later: then its baseline, which ended
\* later too, would be earlier, unless the catalog does not hold it.
LEMMA MissedFollows == ASSUME SingleInv PROVE MissedOnlyDuringCollection
<1> DEFINE snaps == live.db.snaps
<1> SUFFICES ASSUME NEW k \in Servers,
                    <<k, reg[k].version>> \notin Indexed(snaps),
                    ~(reg[k].at >= Latest(snaps).completed)
             PROVE  \E i \in DOMAIN snaps :
                      \/ snaps[i].started <= reg[k].at /\ reg[k].at <= snaps[i].completed
                      \/ Unbased(snaps, i) /\ reg[k].at <= snaps[i].since
  BY DEF MissedOnlyDuringCollection
<1> DEFINE at == reg[k].at
<1>1. at \in Nat /\ Whole(snaps) /\ Traceable(snaps) /\ Kept \subseteq Bundle
  BY KeptType DEF SingleInv, Inv, TypeOK, WasPublished, BundlesInv
<1>2. \A j \in DOMAIN snaps : snaps[j] \in Kept /\ snaps[j] \in Bundle /\ Sound(snaps[j])
  BY <1>1 DEF Traceable, SingleInv, BundlesInv
<1>3. PICK l \in DOMAIN snaps : Latest(snaps) = snaps[l]
  BY <1>1, LatestIsRow
<1>4. at < snaps[l].completed
  BY <1>1, <1>2, <1>3 DEF Bundle
<1>5. PICK i \in DOMAIN snaps :
        /\ at < snaps[i].completed
        /\ \A j \in DOMAIN snaps :
             at < snaps[j].completed => Precedes(snaps[i], snaps[j])
  BY <1>1, <1>4 DEF Traceable, Earliest
<1> DEFINE b == snaps[i]
<1>6. b \in Bundle /\ Sound(b) /\ b \in Kept
  BY <1>2
<1> HIDE DEF b
<1>7. CASE b.started <= at
  BY <1>1, <1>5, <1>6, <1>7 DEF Bundle, b
<1>8. CASE at < b.started /\ b.since <= at
  <2>1. <<k, reg[k].version>> \in b.records
    BY <1>6, <1>8 DEF Sound, Covers
  <2>2. <<k, reg[k].version>> \in Indexed(snaps)
    BY <2>1 DEF Indexed, Digests, b
  <2>3. QED
    BY <2>2
<1>9. CASE at < b.since
  <2>1. b.base # {}
    BY <1>1, <1>6, <1>9 DEF Sound
  <2>2. CASE Unbased(snaps, i)
    BY <1>1, <1>6, <1>9, <2>2 DEF Bundle, b
  <2>3. ASSUME NEW j \in DOMAIN snaps \ {i},
               <<snaps[j].records, snaps[j].completed>> \in b.base
        PROVE  FALSE
    <3> DEFINE c == snaps[j]
    <3>1. c.completed = b.since
      BY <1>6, <2>3 DEF Sound
    <3>2. c \in Bundle /\ c \in Kept
      BY <1>2
    <3>3. Precedes(b, c)
      BY <1>5, <1>9, <3>1 DEF b
    <3> HIDE DEF c
    <3>4. b.since <= b.completed
      BY <1>6 DEF Sound, Bundle
    <3>5. Instant(b) /\ Instant(c) /\ b.completed = c.completed
      BY <1>6, <3>1, <3>2, <3>3, <3>4 DEF Precedes, Instant, Bundle
    <3>6. b \in bundles /\ c \in bundles
      BY <1>6, <3>2, <3>5 DEF Kept, Instant, Baseline
    <3>7. b = c
      BY <3>5, <3>6 DEF SingleInv, BundlesInv
    <3>8. QED
      BY <1>1, <3>7 DEF Traceable, b, c
  <2>4. QED
    BY <2>1, <2>2, <2>3 DEF Unbased, b
<1>10. QED
  BY <1>1, <1>6, <1>7, <1>8, <1>9 DEF Bundle

-----------------------------------------------------------------------------
(* What one process does to the others *)

LEMMA SingleParts ==
  ASSUME SingleInv, NEW p \in Procs
  PROVE  /\ Inv /\ BundlesInv
         /\ Stamped(p) /\ Collected(p) /\ Secured(p)
         /\ run \in [Procs -> Run] /\ run[p] \in Run /\ Placed(p) /\ Agrees(p)
         /\ now \in Nat /\ bundles \subseteq Bundle /\ run[p].bundle \in Bundle
         /\ reg \in [Servers -> [version : Nat, at : Nat]]
         /\ run[p].pc = "prune" => lock = p /\ run[p].task = "refresh"
         /\ run[p].pc = "publish" => lock = p /\ run[p].task \in {"refresh", "restore"}
         /\ run[p].pc \in {"stage", "fetch"} => run[p].task = "refresh"
         /\ run[p].task = "refresh" => p \in Refreshers
<1>1. Inv /\ BundlesInv /\ Stamped(p) /\ Collected(p) /\ Secured(p)
  BY DEF SingleInv
<1>2. /\ run \in [Procs -> Run] /\ run[p] \in Run /\ Placed(p) /\ Agrees(p)
      /\ now \in Nat /\ bundles \subseteq Bundle
  BY <1>1, InvParts
<1>3. reg \in [Servers -> [version : Nat, at : Nat]] /\ run[p].bundle \in Bundle
  BY <1>1, <1>2 DEF Inv, TypeOK, Run
<1>4. /\ run[p].pc = "prune" => lock = p /\ run[p].task = "refresh"
      /\ run[p].pc = "publish" => lock = p /\ run[p].task \in {"refresh", "restore"}
      /\ run[p].pc \in {"stage", "fetch"} => run[p].task = "refresh"
      /\ run[p].task = "refresh" => p \in Refreshers
  BY <1>2 DEF Placed, StepsOf, Held, Run
<1>5. QED
  BY <1>1, <1>2, <1>3, <1>4

\* A step of p, as the invariant sees it: new bundles come from the refresher,
\* new backups are its own, and only the holder of the lock touches what a
\* publication relies on.
LEMMA SingleStep ==
  ASSUME OneRefresher, SingleInv, Inv', NEW p \in Procs,
         run' = [run EXCEPT ![p] = run'[p]],
         UNCHANGED <<reg, now>>,
         bundles' = bundles \/ (p \in Refreshers /\ bundles \subseteq bundles'),
         \/ lock = p
         \/ /\ backups' = backups /\ live'.db.snaps = live.db.snaps
            /\ live'.valid => live.valid,
         \A n \in RefreshBackups' :
           n \in RefreshBackups \/ (n.by[1] = p /\ p \in Refreshers),
         BundlesInv', Stamped(p)', Collected(p)', Secured(p)'
  PROVE  SingleInv'
<1>1. run \in [Procs -> Run]
  BY SingleParts
<1>2. \A n \in RefreshBackups' : n.by[1] \in Refreshers
  BY DEF SingleInv
<1>3. ASSUME NEW q \in Procs \ {p}
      PROVE  Stamped(q)' /\ Collected(q)' /\ Secured(q)'
  <2>1. run'[q] = run[q] /\ BackupFor(q)' = BackupFor(q)
    BY <1>1 DEF BackupFor
  <2>2. q \in Refreshers => bundles' = bundles
    BY DEF OneRefresher
  <2>3. \A n \in RefreshBackups' : n.by[1] = q => n \in RefreshBackups
    OBVIOUS
  <2>4. Stamped(q)'
    BY <2>1, <2>2, <2>3, SingleParts DEF Stamped
  <2>5. Collected(q)'
    BY <2>1, SingleParts DEF Collected, Covers
  <2>6. Secured(q)'
    <3>1. CASE lock = p
      BY <2>1, <3>1, SingleParts DEF Secured
    <3>2. CASE /\ backups' = backups /\ live'.db.snaps = live.db.snaps
               /\ live'.valid => live.valid
      BY <2>1, <3>2, SingleParts DEF Secured, Verified
    <3>3. QED
      BY <3>1, <3>2
  <2>7. QED
    BY <2>4, <2>5, <2>6
<1>4. QED
  BY <1>2, <1>3 DEF SingleInv

LEMMA BundlesKept ==
  ASSUME BundlesInv, UNCHANGED <<reg, now, bundles, past>> PROVE BundlesInv'
BY DEF BundlesInv, Sound, Covers, Kept, Traceable

\* Most steps only move p on, or end its attempt.
LEMMA RoutineStep ==
  ASSUME OneRefresher, SingleInv, Inv', NEW p \in Procs,
         run' = [run EXCEPT ![p] = run'[p]],
         UNCHANGED <<reg, now, bundles, past, backups>>,
         live'.db.snaps = live.db.snaps, live'.valid => live.valid,
         run'[p].stamp = run[p].stamp, run'[p].nth = run[p].nth,
         \/ run'[p].task = "none" /\ run'[p].pc = "idle"
         \/ /\ run'[p].task = run[p].task /\ run'[p].bundle = run[p].bundle
            /\ run'[p].pc \notin {"fetch", "prune"}
            /\ run'[p].pc = "publish" => ~live'.valid
            /\ run[p].task = "refresh" /\ run'[p].pc \in {"wait", "stage"} =>
                 run[p].pc = "wait"
            /\ run[p].task = "refresh"
                 /\ run'[p].pc \in {"import", "backup", "metadata", "publish"} =>
                 run[p].pc \in {"import", "backup", "metadata", "prune", "publish"}
  PROVE  SingleInv'
<1>1. Stamped(p) /\ Collected(p) /\ run[p] \in Run /\ Placed(p)
  BY SingleParts
<1>2. Stamped(p)'
  <2>1. CASE p \notin Refreshers
    BY <1>1, <2>1 DEF Stamped
  <2>2. CASE p \in Refreshers
    <3>1. run[p].task \in {"none", "refresh"} /\ run'[p].task \in {"none", "refresh"}
      BY <1>1, <2>2 DEF Stamped
    <3>2. run'[p].task = "none" => run'[p].pc = "idle"
      BY DEF Inv, Placed, StepsOf
    <3>3. run'[p].pc \in {"wait", "stage", "fetch"} =>
            run[p].pc \in {"wait", "stage", "fetch"}
      BY <3>1, <3>2
    <3>4. QED
      BY <1>1, <3>1, <3>3 DEF Stamped, RefreshBackups
  <2>3. QED
    BY <2>1, <2>2
<1>3. Collected(p)'
  BY <1>1 DEF Collected
<1>4. Secured(p)'
  BY DEF Secured
<1>5. BundlesInv'
  BY BundlesKept, SingleParts
<1>6. QED
  BY <1>2, <1>3, <1>4, <1>5, SingleStep DEF RefreshBackups

-----------------------------------------------------------------------------
(* Every step keeps the invariant: what is routine                         *)

LEMMA FinishedRoutine ==
  ASSUME OneRefresher, SingleInv, Inv', NEW p \in Procs, Finish(p),
         UNCHANGED <<reg, now, bundles, past, backups>>,
         live'.db.snaps = live.db.snaps, live'.valid => live.valid
  PROVE  SingleInv'
<1>1. /\ run' = [run EXCEPT ![p] = run'[p]]
      /\ run'[p] = IdleRun(p, run[p].nth, run[p].stamp)
  BY FinishedRun, SingleParts
<1>2. /\ run'[p].task = "none" /\ run'[p].pc = "idle"
      /\ run'[p].nth = run[p].nth /\ run'[p].stamp = run[p].stamp
  BY <1>1 DEF IdleRun
<1>3. QED
  BY <1>1, <1>2, RoutineStep

LEMMA FailedRoutine ==
  ASSUME OneRefresher, SingleInv, Inv', NEW p \in Procs, NEW error,
         run' = [run EXCEPT ![p].pc = "failed", ![p].error = error],
         UNCHANGED <<reg, now, bundles, past, backups, live>>
  PROVE  SingleInv'
<1>1. run \in [Procs -> Run] /\ run[p] \in Run
  BY SingleParts
<1>2. /\ run' = [run EXCEPT ![p] = run'[p]]
      /\ run'[p] = [run[p] EXCEPT !.pc = "failed", !.error = error]
  BY <1>1
<1>3. /\ run'[p].task = run[p].task /\ run'[p].pc = "failed"
      /\ run'[p].nth = run[p].nth /\ run'[p].stamp = run[p].stamp
      /\ run'[p].bundle = run[p].bundle
  BY <1>1, <1>2 DEF Run
<1>4. QED
  BY <1>2, <1>3, RoutineStep

LEMMA RoutineRefreshSteps ==
  ASSUME OneRefresher, SingleInv, Inv', NEW p \in Procs,
         \/ ImportStaged(p) \/ StagedMismatch(p) \/ WriteSuccess(p)
         \/ LoadStatus(p) \/ WriteFailure(p)
  PROVE  SingleInv'
<1>1. run \in [Procs -> Run] /\ run[p] \in Run
  BY SingleParts
<1>2. CASE ImportStaged(p)
  <2>1. /\ run' = [run EXCEPT ![p] = run'[p]]
        /\ run'[p].pc = "backup" /\ run[p].pc = "import"
        /\ run'[p].task = run[p].task /\ run'[p].bundle = run[p].bundle
        /\ run'[p].nth = run[p].nth /\ run'[p].stamp = run[p].stamp
    BY <1>1, <1>2 DEF ImportStaged, At, Run
  <2>2. QED
    BY <1>2, <2>1, RoutineStep DEF ImportStaged, histories
<1>3. CASE StagedMismatch(p)
  BY <1>3, FailedRoutine DEF StagedMismatch, histories
<1>4. CASE WriteSuccess(p) \/ WriteFailure(p)
  BY <1>4, FinishedRoutine DEF WriteSuccess, WriteFailure, histories
<1>5. CASE LoadStatus(p)
  <2>1. /\ run' = [run EXCEPT ![p] = run'[p]] /\ run'[p].pc = "report"
        /\ run'[p].task = run[p].task /\ run'[p].bundle = run[p].bundle
        /\ run'[p].nth = run[p].nth /\ run'[p].stamp = run[p].stamp
    BY <1>1, <1>5 DEF LoadStatus, Run
  <2>2. QED
    BY <1>5, <2>1, RoutineStep DEF LoadStatus, histories
<1>6. QED
  BY <1>2, <1>3, <1>4, <1>5

LEMMA RoutineOtherSteps ==
  ASSUME OneRefresher, SingleInv, Inv', NEW p \in Procs,
         \/ Acquire(p) \/ LiveInvalid(p) \/ CopySource(p) \/ Recover(p)
         \/ OpenCatalog(p) \/ IndexFails(p) \/ Persist(p) \/ VerifyRun(p)
  PROVE  SingleInv'
<1>1. run \in [Procs -> Run] /\ run[p] \in Run /\ Placed(p)
  BY SingleParts
<1>2. CASE Acquire(p)
  <2>1. /\ run' = [run EXCEPT ![p] = run'[p]] /\ run[p].pc = "wait"
        /\ run'[p] = [run[p] EXCEPT !.pc = FirstStep(p)]
    BY <1>1, <1>2 DEF Acquire, Goto, At
  <2>2. /\ run[p].task # "none"
        /\ run[p].task = "refresh" => FirstStep(p) = "stage"
        /\ run[p].task = "backup" => FirstStep(p) = "backup"
        /\ run[p].task = "restore" => FirstStep(p) = "recover"
        /\ run[p].task = "index" => FirstStep(p) = "open"
        /\ run[p].task = "observe" => FirstStep(p) = "verify"
    BY <1>1, <2>1 DEF FirstStep, Placed, StepsOf
  <2>3. /\ run'[p].task = run[p].task /\ run'[p].bundle = run[p].bundle
        /\ run'[p].nth = run[p].nth /\ run'[p].stamp = run[p].stamp
        /\ run'[p].pc = FirstStep(p)
    BY <1>1, <2>1 DEF Run
  <2>4. /\ FirstStep(p) \notin {"fetch", "prune", "publish", "wait", "import", "metadata"}
        /\ run[p].task = "refresh" => FirstStep(p) # "backup"
    BY <1>1, <2>2 DEF Run
  <2>5. QED
    BY <1>2, <2>1, <2>3, <2>4, RoutineStep DEF Acquire, histories
<1>3. CASE LiveInvalid(p)
  BY <1>3, FailedRoutine, FinishedRoutine DEF LiveInvalid, histories
<1>4. CASE CopySource(p)
  <2>1. CASE Finish(p)
    BY <1>4, <2>1, FinishedRoutine DEF CopySource, histories
  <2>2. CASE run' = [run EXCEPT ![p].stage = backups[run[p].source].db,
                                ![p].pc = "wait"]
    <3>1. run[p].task = "restore"
      BY <1>1, <1>4 DEF CopySource, At, Placed, StepsOf, Run
    <3>2. /\ run' = [run EXCEPT ![p] = run'[p]] /\ run'[p].pc = "wait"
          /\ run'[p].task = run[p].task /\ run'[p].bundle = run[p].bundle
          /\ run'[p].nth = run[p].nth /\ run'[p].stamp = run[p].stamp
      BY <1>1, <2>2 DEF Run
    <3>3. QED
      BY <1>4, <3>1, <3>2, RoutineStep DEF CopySource, histories
  <2>3. QED
    BY <1>4, <2>1, <2>2 DEF CopySource
<1>5. CASE Recover(p)
  <2>1. run[p].task = "restore"
    BY <1>1, <1>5 DEF Recover, At, Placed, StepsOf, Run
  <2>2. /\ run' = [run EXCEPT ![p] = run'[p]]
        /\ run'[p].pc = IF live.valid THEN "backup" ELSE "publish"
        /\ run'[p].task = run[p].task /\ run'[p].bundle = run[p].bundle
        /\ run'[p].nth = run[p].nth /\ run'[p].stamp = run[p].stamp
    BY <1>1, <1>5 DEF Recover, Goto, Run
  <2>3. QED
    BY <1>5, <2>1, <2>2, RoutineStep DEF Recover, histories
<1>6. CASE OpenCatalog(p)
  <2>1. /\ run' = [run EXCEPT ![p] = run'[p]] /\ run'[p].pc = "commit"
        /\ run'[p].task = run[p].task /\ run'[p].bundle = run[p].bundle
        /\ run'[p].nth = run[p].nth /\ run'[p].stamp = run[p].stamp
    BY <1>1, <1>6 DEF OpenCatalog, Run
  <2>2. QED
    BY <1>6, <2>1, RoutineStep DEF OpenCatalog, histories
<1>7. CASE IndexFails(p)
  BY <1>7, FinishedRoutine DEF IndexFails, histories
<1>8. CASE Persist(p)
  <2>1. run[p].task = "observe"
    BY <1>1, <1>8 DEF Persist, At, Placed, StepsOf, Run
  <2>2. /\ run' = [run EXCEPT ![p] = run'[p]] /\ run'[p].pc = "wait"
        /\ run'[p].task = run[p].task /\ run'[p].bundle = run[p].bundle
        /\ run'[p].nth = run[p].nth /\ run'[p].stamp = run[p].stamp
    BY <1>1, <1>8 DEF Persist, Goto, Run
  <2>3. live \in LiveType
    BY SingleParts DEF Inv, TypeOK, LiveType
  <2>4. live'.db.snaps = live.db.snaps /\ live'.valid = live.valid
    BY <1>8, <2>3 DEF Persist, LiveType, File, Content
  <2>5. QED
    BY <1>8, <2>1, <2>2, <2>4, RoutineStep DEF Persist, histories
<1>9. CASE VerifyRun(p)
  BY <1>9, FinishedRoutine DEF VerifyRun
<1>10. QED
  BY <1>2, <1>3, <1>4, <1>5, <1>6, <1>7, <1>8, <1>9

LEMMA RoutineFaults ==
  ASSUME OneRefresher, SingleInv, Inv', NEW p \in Procs, Fail(p) \/ Kill(p)
  PROVE  SingleInv'
BY FailedRoutine, FinishedRoutine DEF Fail, Kill, histories

\* The clock only grows, and what the Registry changes is changed now.
LEMMA SurroundingsRoutine ==
  ASSUME SingleInv, Inv', Tick \/ Damage \/ \E k \in Servers : Update(k)
  PROVE  SingleInv'
<1>1. /\ UNCHANGED <<bundles, backups, run, past, lock>>
      /\ live'.db.snaps = live.db.snaps
      /\ live'.valid => live.valid
      /\ now' \in Nat /\ now \in Nat /\ now <= now'
      /\ reg \in [Servers -> [version : Nat, at : Nat]]
      /\ \A k \in Servers : reg'[k] = reg[k] \/ reg'[k].at = now
  <2>1. /\ now \in Nat /\ reg \in [Servers -> [version : Nat, at : Nat]]
        /\ live \in LiveType
    BY DEF SingleInv, Inv, TypeOK, LiveType
  <2>2. CASE Tick
    BY <2>1, <2>2 DEF Tick, histories
  <2>3. CASE Damage
    BY <2>1, <2>3 DEF Damage, histories, LiveType
  <2>4. CASE \E k \in Servers : Update(k)
    BY <2>1, <2>4 DEF Update, histories
  <2>5. QED
    BY <2>2, <2>3, <2>4
<1>2. \A b \in Bundle, k \in Servers : b.started <= now /\ Covers(b, k) => Covers(b, k)'
  BY <1>1 DEF Covers, Bundle
<1>3. \A b \in Kept : b \in Bundle
  BY KeptType DEF SingleInv
<1>4. BundlesInv'
  <2>1. \A b \in Kept : Sound(b)'
    BY <1>1, <1>2, <1>3 DEF SingleInv, BundlesInv, Sound, Bundle
  <2>2. Kept' = Kept /\ \A snaps : Traceable(snaps)' <=> Traceable(snaps)
    BY <1>1 DEF Kept, Traceable
  <2>3. QED
    BY <1>1, <2>1, <2>2 DEF SingleInv, BundlesInv
<1>5. ASSUME NEW p \in Procs
      PROVE  Stamped(p)' /\ Collected(p)' /\ Secured(p)'
  <2>1. /\ Stamped(p) /\ Collected(p) /\ Secured(p) /\ run[p] \in Run
        /\ run[p].bundle \in Bundle
    BY SingleParts
  <2>2. Stamped(p)'
    BY <1>1, <2>1 DEF Stamped, RefreshBackups, Run
  <2>3. Collected(p)'
    BY <1>1, <1>2, <2>1 DEF Collected, Bundle
  <2>4. Secured(p)'
    <3>1. BackupFor(p)' = BackupFor(p)
      BY <1>1 DEF BackupFor
    <3>2. QED
      BY <1>1, <2>1, <3>1 DEF Secured
  <2>5. QED
    BY <2>2, <2>3, <2>4
<1>6. \A n \in RefreshBackups' : n.by[1] \in Refreshers
  BY <1>1 DEF SingleInv, RefreshBackups
<1>7. QED
  BY <1>4, <1>5, <1>6 DEF SingleInv

-----------------------------------------------------------------------------
(* What is not: beginnings and the collection                              *)

LEMMA BeginRefreshSingle ==
  ASSUME OneRefresher, SingleInv, Inv', NEW p \in Refreshers, BeginRefresh(p)
  PROVE  SingleInv'
<1>1. p \in Procs
  BY DEF Procs
<1>2. /\ run \in [Procs -> Run] /\ run[p] \in Run /\ Stamped(p) /\ BundlesInv
      /\ now \in Nat /\ bundles \subseteq Bundle
  BY <1>1, SingleParts
<1>3. /\ run' = [run EXCEPT ![p] = run'[p]]
      /\ run'[p].task = "refresh" /\ run'[p].pc = "wait"
      /\ run'[p].stamp = now
  BY <1>1, <1>2 DEF BeginRefresh, Run
<1>4. /\ run[p].stamp < now /\ run[p].stamp \in Nat
      /\ UNCHANGED <<reg, now, bundles, past, backups, live>>
  BY <1>2 DEF BeginRefresh, histories, Run
<1>5. \A b \in bundles :
        /\ b.completed <= now
        /\ Instant(b) => b.completed < now
  BY <1>2, <1>4 DEF Stamped, BundlesInv, Kept, Sound, Bundle
<1>6. Stamped(p)'
  <2>1. \A n \in RefreshBackups' : n.by[1] = p => n.stamp < now
    <3>1. \A n \in RefreshBackups : n.stamp \in Nat
      BY DEF SingleInv, Inv, TypeOK, RefreshBackups, BackupName
    <3>2. QED
      BY <1>2, <1>4, <3>1 DEF Stamped, RefreshBackups
  <2>2. \A n \in RefreshBackups' : n.stamp \in Nat
    BY DEF Inv, TypeOK, RefreshBackups, BackupName
  <2>3. 1 <= now
    BY <1>2 DEF BundlesInv
  <2>4. \A b \in bundles : b.completed \in Nat
    BY <1>2 DEF Bundle
  <2>5. QED
    BY <1>2, <1>3, <1>4, <1>5, <2>1, <2>2, <2>3, <2>4 DEF Stamped
<1>7. Collected(p)' /\ Secured(p)'
  BY <1>3 DEF Collected, Secured
<1>8. BundlesInv'
  BY <1>2, <1>4, BundlesKept
<1>9. QED
  BY <1>1, <1>3, <1>4, <1>6, <1>7, <1>8, SingleStep DEF RefreshBackups

LEMMA BeginOtherSingle ==
  ASSUME OneRefresher, SingleInv, Inv', NEW p \in Operators \cup Observers,
         BeginBackup(p) \/ BeginRestore(p) \/ BeginIndex(p) \/ BeginObserve(p)
  PROVE  SingleInv'
<1>1. p \in Procs /\ p \notin Refreshers
  BY ProcsAssumption DEF Procs
<1>2. /\ run \in [Procs -> Run] /\ run[p] \in Run /\ Stamped(p) /\ BundlesInv
  BY <1>1, SingleParts
<1>3. UNCHANGED <<reg, now, bundles, past, backups, live>>
  BY DEF BeginBackup, BeginRestore, BeginIndex, BeginObserve, histories
<1>4. /\ run' = [run EXCEPT ![p] = run'[p]] /\ run'[p].stamp = run[p].stamp
      /\ run'[p].pc \in {"wait", "copy", "observe"}
      /\ run'[p].task = "index" => run'[p].bundle \in bundles
  <2>1. CASE BeginBackup(p)
    BY <1>1, <1>2, <2>1 DEF BeginBackup, Run
  <2>2. CASE BeginRestore(p)
    <3>1. PICK n \in DOMAIN backups :
            run' = [run EXCEPT ![p].task = "restore", ![p].pc = "copy",
                               ![p].nth = @ + 1, ![p].source = n,
                               ![p].expect = Latest(backups[n].db.snaps).records]
      BY <2>2 DEF BeginRestore
    <3>2. QED
      BY <1>1, <1>2, <3>1 DEF Run
  <2>3. CASE BeginIndex(p)
    <3>1. PICK b \in bundles :
            run' = [run EXCEPT ![p].task = "index", ![p].pc = "wait",
                               ![p].nth = @ + 1, ![p].bundle = b]
      BY <2>3 DEF BeginIndex
    <3>2. QED
      BY <1>1, <1>2, <3>1 DEF Run
  <2>4. CASE BeginObserve(p)
    BY <1>1, <1>2, <2>4 DEF BeginObserve, Run
  <2>5. QED
    BY <2>1, <2>2, <2>3, <2>4
<1>5. Stamped(p)'
  BY <1>1, <1>2, <1>3, <1>4 DEF Stamped
<1>6. Collected(p)' /\ Secured(p)'
  BY <1>3, <1>4 DEF Collected, Secured
<1>7. BundlesInv'
  BY <1>2, <1>3, BundlesKept
<1>8. QED
  BY <1>1, <1>3, <1>4, <1>5, <1>6, <1>7, SingleStep DEF RefreshBackups

LEMMA StageCopySingle ==
  ASSUME OneRefresher, SingleInv, Inv', NEW p \in Procs, StageCopy(p)
  PROVE  SingleInv'
<1> DEFINE latest == Latest(live.db.snaps)
           b == [records |-> {}, base |-> {<<latest.records, latest.completed>>},
                 since |-> latest.completed, started |-> now, completed |-> now]
<1>1. /\ run \in [Procs -> Run] /\ run[p] \in Run /\ Stamped(p) /\ BundlesInv
      /\ now \in Nat /\ run[p].pc = "stage" /\ run[p].task = "refresh"
      /\ p \in Refreshers /\ Inv
  BY SingleParts DEF StageCopy, At
<1>2. UNCHANGED <<reg, now, bundles, past, backups, live>>
  BY DEF StageCopy, histories
<1>3. /\ run' = [run EXCEPT ![p] = run'[p]] /\ run'[p].bundle = b
      /\ run'[p].pc = "fetch" /\ run'[p].task = run[p].task
      /\ run'[p].stamp = run[p].stamp /\ run'[p].nth = run[p].nth
      /\ run'[p].left = Servers
  BY <1>1 DEF StageCopy, Run
<1>4. latest \in Kept /\ latest \in Bundle
  <2>1. Whole(live.db.snaps) /\ Traceable(live.db.snaps)
    BY <1>1 DEF Inv, WasPublished, BundlesInv
  <2>2. QED
    BY <2>1, LatestIsRow, LatestType DEF Traceable
<1>5. latest.completed <= run[p].stamp
  BY <1>1, <1>4 DEF Stamped, Kept, Baseline
<1> HIDE DEF latest
<1>6. /\ b.since = latest.completed /\ b.started = now /\ b.base # {}
      /\ \A source \in b.base : source[2] = b.since
  <2>1. b.base = {<<latest.records, latest.completed>>}
    OBVIOUS
  <2>2. b.since = latest.completed /\ b.started = now
    OBVIOUS
  <2> HIDE DEF b
  <2>3. QED
    BY <2>1, <2>2
<1> HIDE DEF b
<1>7. Collected(p)'
  BY <1>1, <1>2, <1>3, <1>5, <1>6 DEF Collected, Stamped
<1>8. Stamped(p)'
  BY <1>1, <1>2, <1>3 DEF Stamped, RefreshBackups
<1>9. Secured(p)'
  BY <1>3 DEF Secured
<1>10. BundlesInv'
  BY <1>1, <1>2, BundlesKept
<1>11. QED
  BY <1>2, <1>3, <1>7, <1>8, <1>9, <1>10, SingleStep DEF RefreshBackups

LEMMA FetchSingle ==
  ASSUME OneRefresher, SingleInv, Inv', NEW p \in Procs, NEW k \in Servers, Fetch(p, k)
  PROVE  SingleInv'
<1> DEFINE old == run[p].bundle
<1> PICK b \in Bundle : b = run'[p].bundle
  BY DEF Inv, TypeOK, Run
<1>1. /\ run \in [Procs -> Run] /\ run[p] \in Run /\ Stamped(p) /\ BundlesInv
      /\ Collected(p) /\ old \in Bundle /\ run[p].pc = "fetch" /\ k \in run[p].left
      /\ run[p].task = "refresh" /\ reg[k].at \in Nat
  BY SingleParts DEF Fetch, At
<1>2. UNCHANGED <<reg, now, bundles, past, backups, live>>
  BY DEF Fetch, histories
<1>3. /\ run' = [run EXCEPT ![p] = run'[p]]
      /\ run'[p].pc = "fetch" /\ run'[p].task = run[p].task
      /\ run'[p].stamp = run[p].stamp /\ run'[p].nth = run[p].nth
      /\ run'[p].left = run[p].left \ {k}
  BY <1>1 DEF Fetch, Run
<1>4. /\ b.since = old.since /\ b.started = old.started /\ b.base = old.base
      /\ old.records \subseteq b.records
      /\ reg[k].at >= old.since => <<k, reg[k].version>> \in b.records
  BY <1>1 DEF Fetch, Run, Bundle
<1>5. Collected(p)'
  <2>1. \A j \in Servers \ run[p].left : Covers(old, j)
    BY <1>1 DEF Collected
  <2>2. \A j \in Servers \ run[p].left : Covers(b, j)
    BY <1>4, <2>1 DEF Covers
  <2>3. Covers(b, k)
    BY <1>1, <1>4 DEF Covers, Bundle
  <2>4. \A j \in Servers \ run'[p].left : Covers(b, j)
    BY <1>3, <2>2, <2>3
  <2>5. \A j \in Servers : Covers(b, j)' <=> Covers(b, j)
    BY <1>2 DEF Covers
  <2>6. QED
    BY <1>1, <1>2, <1>3, <1>4, <2>4, <2>5 DEF Collected
<1>6. Stamped(p)'
  BY <1>1, <1>2, <1>3 DEF Stamped, RefreshBackups
<1>7. Secured(p)'
  BY <1>3 DEF Secured
<1>8. BundlesInv'
  BY <1>1, <1>2, BundlesKept
<1>9. QED
  BY <1>2, <1>3, <1>5, <1>6, <1>7, <1>8, SingleStep DEF RefreshBackups

\* The only collection of its second: an attempt starts in a later second than
\* the one before it, and asks for what follows a baseline that was there then.
LEMMA CompleteBundleSingle ==
  ASSUME OneRefresher, SingleInv, Inv', NEW p \in Procs, CompleteBundle(p)
  PROVE  SingleInv'
<1> DEFINE old == run[p].bundle
           b == [old EXCEPT !.completed = now]
<1>1. /\ run \in [Procs -> Run] /\ run[p] \in Run /\ Stamped(p) /\ BundlesInv
      /\ Collected(p) /\ old \in Bundle /\ now \in Nat /\ bundles \subseteq Bundle
      /\ run[p].task = "refresh" /\ p \in Refreshers /\ run[p].pc = "fetch"
      /\ run[p].stamp \in Nat
  BY SingleParts DEF CompleteBundle, At, Run
<1>2. /\ UNCHANGED <<reg, now, past, backups, live>>
      /\ bundles' = bundles \cup {b} /\ run[p].left = {}
  BY DEF CompleteBundle, histories
<1>3. /\ run' = [run EXCEPT ![p] = run'[p]] /\ run'[p].bundle = b
      /\ run'[p].pc = "import" /\ run'[p].task = "refresh"
      /\ run'[p].stamp = run[p].stamp /\ run'[p].nth = run[p].nth
  BY <1>1 DEF CompleteBundle, Run
<1>4. /\ b \in Bundle /\ b.since = old.since /\ b.started = old.started
      /\ b.base = old.base /\ b.records = old.records /\ b.completed = now
  BY <1>1 DEF Bundle
<1> HIDE DEF b
<1>5. /\ b.since <= run[p].stamp /\ run[p].stamp <= b.started /\ b.started <= now
      /\ b.base # {} /\ \A source \in b.base : source[2] = b.since
      /\ \A k \in Servers : Covers(b, k)
  BY <1>1, <1>2, <1>4 DEF Collected, Covers
<1>6. Sound(b)
  <2>1. b.since <= b.started
    BY <1>1, <1>4, <1>5 DEF Bundle
  <2>2. QED
    BY <1>1, <1>4, <1>5, <2>1 DEF Sound
<1>7. Instant(b) => b.completed <= run[p].stamp
  BY <1>1, <1>4, <1>5 DEF Instant, Bundle
<1>8. \A c \in bundles : Instant(c) => c.completed < run[p].stamp
  BY <1>1 DEF Stamped
<1>9. \A c, d \in bundles' :
        Instant(c) /\ Instant(d) /\ c.completed = d.completed => c = d
  <2>1. \A c \in bundles : Instant(c) /\ Instant(b) => c.completed < b.completed
    BY <1>1, <1>4, <1>5, <1>8 DEF Instant, Bundle
  <2>2. \A c \in bundles : c.completed \in Nat
    BY <1>1 DEF Bundle
  <2>3. b.completed \in Nat
    BY <1>1, <1>4
  <2>4. QED
    BY <1>1, <1>2, <2>1, <2>2, <2>3 DEF BundlesInv
<1>10. BundlesInv'
  <2>1. Kept' = Kept \cup {b}
    BY <1>2 DEF Kept
  <2>2. \A c \in Kept' : Sound(c)'
    BY <1>1, <1>2, <1>6, <2>1 DEF BundlesInv, Sound, Covers
  <2>3. \A snaps \in past' : Traceable(snaps)'
    BY <1>1, <1>2, <2>1 DEF BundlesInv, Traceable
  <2>4. QED
    BY <1>1, <1>2, <1>9, <2>2, <2>3 DEF BundlesInv
<1>11. Stamped(p)'
  BY <1>1, <1>2, <1>3, <1>7 DEF Stamped, RefreshBackups
<1>12. Collected(p)' /\ Secured(p)'
  BY <1>2, <1>3 DEF Collected, Secured
<1>13. QED
  BY <1>1, <1>2, <1>3, <1>10, <1>11, <1>12, SingleStep DEF RefreshBackups

-----------------------------------------------------------------------------
(* Backups, retention, publication                                         *)

LEMMA OwnBackup ==
  ASSUME NEW p \in Procs, run[p].task = "refresh"
  PROVE  /\ BackupFor(p).kind = "refresh" /\ BackupFor(p).stamp = run[p].stamp
         /\ BackupFor(p).by[1] = p /\ BackupFor(p).by[2] = run[p].nth
BY DEF BackupFor

LEMMA OtherBackup ==
  ASSUME NEW p \in Procs, run[p].task # "refresh"
  PROVE  BackupFor(p).kind # "refresh"
BY DEF BackupFor

\* A backup written under this attempt's name, with the attempt's own stamp.
LEMMA PutSingle ==
  ASSUME OneRefresher, SingleInv, Inv', NEW p \in Procs, lock = p, NEW backup,
         backups' = Put(BackupFor(p), backup),
         UNCHANGED <<reg, now, bundles, past, live>>,
         run' = [run EXCEPT ![p] = run'[p]],
         run'[p].stamp = run[p].stamp, run'[p].nth = run[p].nth,
         \/ run'[p].task = "none" /\ run'[p].pc = "idle"
         \/ run'[p].task = run[p].task /\ run'[p].bundle = run[p].bundle,
         run[p].pc \in {"backup", "metadata"},
         run'[p].pc \notin {"wait", "stage", "fetch"},
         Secured(p)'
  PROVE  SingleInv'
<1>1. /\ Stamped(p) /\ Collected(p) /\ BundlesInv /\ run[p] \in Run
      /\ run[p].task = "refresh" => p \in Refreshers
  BY SingleParts
<1>2. DOMAIN backups' = DOMAIN backups \cup {BackupFor(p)}
  BY DEF Put
<1>3. \A n \in RefreshBackups' :
        \/ n \in RefreshBackups
        \/ n = BackupFor(p) /\ run[p].task = "refresh"
  BY <1>2, OtherBackup DEF RefreshBackups
<1>4. \A n \in RefreshBackups' :
        n \in RefreshBackups \/ (n.by[1] = p /\ p \in Refreshers)
  BY <1>1, <1>3, OwnBackup
<1>5. Stamped(p)'
  <2>1. \A n \in RefreshBackups' :
          n.by[1] = p /\ p \in Refreshers =>
            /\ n.stamp <= run[p].stamp
            /\ n.stamp = run[p].stamp => n.by[2] = run[p].nth
    BY <1>1, <1>3, OwnBackup DEF Stamped, Run
  <2>2. QED
    BY <1>1, <2>1 DEF Stamped
<1>6. Collected(p)'
  BY <1>1 DEF Collected
<1>7. BundlesInv'
  BY <1>1, BundlesKept
<1>8. QED
  BY <1>4, <1>5, <1>6, <1>7, SingleStep

LEMMA BackupFileSingle ==
  ASSUME OneRefresher, SingleInv, Inv', NEW p \in Procs, BackupFile(p)
  PROVE  SingleInv'
<1>1. run \in [Procs -> Run] /\ run[p] \in Run /\ Placed(p)
  BY SingleParts
<1>2. run[p].pc = "backup" /\ lock = p
  BY <1>1 DEF BackupFile, At, Placed, Held
<1>3. /\ run' = [run EXCEPT ![p] = run'[p]] /\ run'[p].pc = "metadata"
      /\ run'[p].task = run[p].task /\ run'[p].bundle = run[p].bundle
      /\ run'[p].stamp = run[p].stamp /\ run'[p].nth = run[p].nth
  BY <1>1 DEF BackupFile, Goto, Run
<1>4. PICK backup : backups' = Put(BackupFor(p), backup)
  BY DEF BackupFile
<1>5. Secured(p)'
  BY <1>3 DEF Secured
<1>6. QED
  BY <1>2, <1>3, <1>4, <1>5, PutSingle DEF BackupFile, histories

LEMMA BackupMetadataSingle ==
  ASSUME OneRefresher, SingleInv, Inv', NEW p \in Procs, BackupMetadata(p)
  PROVE  SingleInv'
<1> DEFINE name == BackupFor(p)
           backup == [backups[name] EXCEPT !.meta = <<backups[name].db>>]
<1>1. run \in [Procs -> Run] /\ run[p] \in Run /\ Placed(p) /\ Agrees(p) /\ Inv
  BY SingleParts
<1>2. run[p].pc = "metadata" /\ lock = p /\ run[p].task \in {"refresh", "backup", "restore"}
  BY <1>1 DEF BackupMetadata, At, Placed, StepsOf, Held, Run
<1>3. backups' = Put(name, backup) /\ UNCHANGED <<reg, now, bundles, past, live>>
  BY DEF BackupMetadata, histories
<1>4. /\ name \in DOMAIN backups' /\ backups'[name] = backup
  BY <1>3 DEF Put
<1>5. Verified(backup) /\ backup.db.snaps = live.db.snaps
  <2>1. name \in DOMAIN backups /\ backups[name].db.snaps = live.db.snaps
    BY <1>1, <1>2 DEF Agrees
  <2>2. backups[name] \in Backup
    BY <1>1, <2>1, BackupWhole
  <2>3. QED
    BY <2>1, <2>2 DEF Verified, Backup
<1> HIDE DEF backup
<1>6. CASE run[p].task = "backup"
  <2>1. Finish(p)
    BY <1>6 DEF BackupMetadata
  <2>2. /\ run' = [run EXCEPT ![p] = run'[p]]
        /\ run'[p] = IdleRun(p, run[p].nth, run[p].stamp)
    BY <1>1, <2>1, FinishedRun
  <2>3. /\ run'[p].task = "none" /\ run'[p].pc = "idle"
        /\ run'[p].nth = run[p].nth /\ run'[p].stamp = run[p].stamp
    BY <2>2 DEF IdleRun
  <2>4. Secured(p)'
    BY <2>3 DEF Secured
  <2>5. QED
    BY <1>2, <1>3, <2>2, <2>3, <2>4, PutSingle
<1>7. ASSUME NEW step \in {"prune", "publish"}, Goto(p, step)
      PROVE  SingleInv'
  <2>1. /\ run' = [run EXCEPT ![p] = run'[p]] /\ run'[p].pc = step
        /\ run'[p].task = run[p].task /\ run'[p].bundle = run[p].bundle
        /\ run'[p].stamp = run[p].stamp /\ run'[p].nth = run[p].nth
    BY <1>1, <1>7 DEF Goto, Run
  <2>2. BackupFor(p)' = name
    BY <2>1 DEF BackupFor
  <2>3. Secured(p)'
    BY <1>3, <1>4, <1>5, <2>2 DEF Secured
  <2>4. QED
    BY <1>2, <1>3, <2>1, <2>3, PutSingle
<1>8. QED
  BY <1>2, <1>6, <1>7 DEF BackupMetadata

\* What is kept names no attempt that was not kept before.
LEMMA PrunedSingle ==
  ASSUME OneRefresher, SingleInv, Inv', NEW p \in Procs, lock = p,
         DOMAIN backups' \subseteq DOMAIN backups,
         UNCHANGED <<reg, now, bundles, past, live>>,
         run' = [run EXCEPT ![p] = run'[p]],
         run'[p].stamp = run[p].stamp, run'[p].nth = run[p].nth,
         run'[p].task = run[p].task, run'[p].bundle = run[p].bundle,
         run[p].pc = "prune", run'[p].pc \in {"publish", "failed"},
         Secured(p)'
  PROVE  SingleInv'
<1>1. Stamped(p) /\ Collected(p) /\ BundlesInv
  BY SingleParts
<1>2. \A n \in RefreshBackups' : n \in RefreshBackups
  BY DEF RefreshBackups
<1>3. Stamped(p)'
  BY <1>1, <1>2 DEF Stamped
<1>4. Collected(p)'
  BY <1>1 DEF Collected
<1>5. BundlesInv'
  BY <1>1, BundlesKept
<1>6. QED
  BY <1>2, <1>3, <1>4, <1>5, SingleStep

\* The attempt's own backup is the newest: retention of at least one keeps it.
LEMMA NewestIsOwn ==
  ASSUME OneRefresher, SingleInv, NEW p \in Procs, run[p].pc = "prune",
         NEW keep \in SUBSET RefreshBackups, Newest(keep)
  PROVE  BackupFor(p) \in keep
<1> DEFINE own == BackupFor(p)
<1>1. /\ run[p] \in Run /\ run[p].task = "refresh" /\ p \in Refreshers
      /\ Stamped(p) /\ Secured(p) /\ Inv
  BY SingleParts
<1>2. /\ own.kind = "refresh" /\ own.stamp = run[p].stamp
      /\ own.by[1] = p /\ own.by[2] = run[p].nth
  BY <1>1, OwnBackup
<1>3. own \in RefreshBackups
  BY <1>1, <1>2 DEF Secured, RefreshBackups
<1> HIDE DEF own
<1>4. SUFFICES ASSUME own \notin keep PROVE FALSE
  BY DEF own
<1>5. Cardinality(keep) = Retention /\ \A n \in keep : own.stamp <= n.stamp
  BY <1>3, <1>4 DEF Newest
<1>6. keep # {}
  BY <1>5, RetentionAssumption, FS_EmptySet
<1>7. PICK n \in keep : own.stamp <= n.stamp
  BY <1>5, <1>6
<1>8. n \in BackupName /\ n.kind = "refresh" /\ n \in RefreshBackups
  BY <1>1, BackupWhole DEF RefreshBackups
<1>9. n.by[1] = p
  BY <1>1, <1>8 DEF SingleInv, OneRefresher
<1>10. n.stamp = own.stamp /\ n.by[2] = own.by[2]
  BY <1>1, <1>2, <1>7, <1>8, <1>9 DEF Stamped, Run, BackupName
<1>11. own \in BackupName
  BY <1>1, <1>3, BackupWhole DEF RefreshBackups
<1>12. n.by = own.by
  BY <1>2, <1>8, <1>9, <1>10, <1>11 DEF BackupName, Attempt
<1>13. n = own
  BY <1>2, <1>8, <1>10, <1>11, <1>12 DEF BackupName
<1>14. QED
  BY <1>4, <1>13

LEMMA PruneSingle ==
  ASSUME OneRefresher, SingleInv, Inv', NEW p \in Procs, Prune(p)
  PROVE  SingleInv'
<1>1. /\ run \in [Procs -> Run] /\ run[p] \in Run /\ run[p].pc = "prune"
      /\ lock = p /\ run[p].task = "refresh" /\ Secured(p)
  BY SingleParts DEF Prune, At
<1>2. PICK keep \in SUBSET RefreshBackups :
        /\ Newest(keep)
        /\ backups' = [n \in (DOMAIN backups \ RefreshBackups) \cup keep |-> backups[n]]
  BY DEF Prune
<1>3. BackupFor(p) \in keep
  BY <1>1, <1>2, NewestIsOwn
<1>4. /\ run' = [run EXCEPT ![p] = run'[p]] /\ run'[p].pc = "publish"
      /\ run'[p].task = run[p].task /\ run'[p].bundle = run[p].bundle
      /\ run'[p].stamp = run[p].stamp /\ run'[p].nth = run[p].nth
  BY <1>1 DEF Prune, Goto, Run
<1>5. BackupFor(p) \in DOMAIN backups' /\ backups'[BackupFor(p)] = backups[BackupFor(p)]
  BY <1>2, <1>3
<1>6. Secured(p)'
  BY <1>1, <1>4, <1>5 DEF Prune, Secured
<1>7. DOMAIN backups' \subseteq DOMAIN backups
  BY <1>2 DEF RefreshBackups
<1>8. QED
  BY <1>1, <1>4, <1>6, <1>7, PrunedSingle DEF Prune, histories

LEMMA PruneFailsSingle ==
  ASSUME OneRefresher, SingleInv, Inv', NEW p \in Procs, PruneFails(p)
  PROVE  SingleInv'
<1>1. /\ run \in [Procs -> Run] /\ run[p] \in Run /\ run[p].pc = "prune" /\ lock = p
  BY SingleParts DEF PruneFails, At
<1>2. /\ run' = [run EXCEPT ![p] = run'[p]] /\ run'[p].pc = "failed"
      /\ run'[p].task = run[p].task /\ run'[p].bundle = run[p].bundle
      /\ run'[p].stamp = run[p].stamp /\ run'[p].nth = run[p].nth
  BY <1>1 DEF PruneFails, Run
<1>3. Secured(p)'
  BY <1>2 DEF Secured
<1>4. DOMAIN backups' \subseteq DOMAIN backups
  BY DEF PruneFails
<1>5. QED
  BY <1>1, <1>2, <1>3, <1>4, PrunedSingle DEF PruneFails, histories

\* A catalog is published: it is traceable, and its holder is past its steps.
LEMMA PublishedSingle ==
  ASSUME OneRefresher, SingleInv, Inv', NEW p \in Procs, lock = p,
         NEW snaps, Traceable(snaps), past' = past \cup {snaps},
         UNCHANGED <<reg, now, bundles, backups>>,
         run' = [run EXCEPT ![p] = run'[p]],
         run'[p].stamp = run[p].stamp, run'[p].nth = run[p].nth,
         \/ run'[p].task = "none" /\ run'[p].pc = "idle"
         \/ run'[p].task = run[p].task /\ run'[p].task = "refresh"
              /\ run'[p].pc = "status"
  PROVE  SingleInv'
<1>1. Stamped(p) /\ Collected(p) /\ BundlesInv
  BY SingleParts
<1>2. Stamped(p)'
  BY <1>1 DEF Stamped, RefreshBackups
<1>3. Collected(p)' /\ Secured(p)'
  BY DEF Collected, Secured
<1>4. BundlesInv'
  BY <1>1 DEF BundlesInv, Sound, Covers, Kept, Traceable
<1>5. QED
  BY <1>2, <1>3, <1>4, SingleStep DEF RefreshBackups

LEMMA PublishSingle ==
  ASSUME OneRefresher, SingleInv, Inv', NEW p \in Procs, Publish(p)
  PROVE  SingleInv'
<1>1. /\ run \in [Procs -> Run] /\ run[p] \in Run /\ run[p].pc = "publish"
      /\ lock = p /\ run[p].task \in {"refresh", "restore"}
      /\ Agrees(p) /\ Collected(p) /\ BundlesInv /\ Inv
  BY SingleParts DEF Publish, At
<1>2. /\ past' = past \cup {run[p].stage.snaps}
      /\ UNCHANGED <<reg, now, bundles, backups>>
  BY DEF Publish
<1>3. CASE run[p].task = "refresh"
  <2>1. Traceable(run[p].stage.snaps)
    <3>1. run[p].stage.snaps = Index(live.db.snaps, run[p].bundle)
          /\ run[p].bundle \in bundles
      BY <1>1, <1>3 DEF Agrees, Collected
    <3>2. live.db.snaps \in Seq(Bundle) /\ Traceable(live.db.snaps)
      BY <1>1 DEF Inv, WasPublished, Whole, BundlesInv
    <3>3. QED
      BY <1>1, <3>1, <3>2, IndexTraceable
  <2>2. /\ run' = [run EXCEPT ![p] = run'[p]] /\ run'[p].pc = "status"
        /\ run'[p].task = run[p].task
        /\ run'[p].stamp = run[p].stamp /\ run'[p].nth = run[p].nth
    BY <1>1, <1>3 DEF Publish, Goto, Run
  <2>3. QED
    BY <1>1, <1>2, <1>3, <2>1, <2>2, PublishedSingle
<1>4. CASE run[p].task = "restore"
  <2>1. Traceable(run[p].stage.snaps)
    BY <1>1, <1>4 DEF Agrees, BundlesInv
  <2>2. Finish(p)
    BY <1>4 DEF Publish
  <2>3. /\ run' = [run EXCEPT ![p] = run'[p]]
        /\ run'[p] = IdleRun(p, run[p].nth, run[p].stamp)
    BY <1>1, <2>2, FinishedRun
  <2>4. /\ run'[p].task = "none" /\ run'[p].pc = "idle"
        /\ run'[p].nth = run[p].nth /\ run'[p].stamp = run[p].stamp
    BY <2>3 DEF IdleRun
  <2>5. QED
    BY <1>1, <1>2, <2>1, <2>3, <2>4, PublishedSingle
<1>5. QED
  BY <1>1, <1>3, <1>4

LEMMA CommitIndexSingle ==
  ASSUME OneRefresher, SingleInv, Inv', NEW p \in Procs, CommitIndex(p)
  PROVE  SingleInv'
<1> DEFINE snaps == Index(live.db.snaps, run[p].bundle)
<1>1. /\ run \in [Procs -> Run] /\ run[p] \in Run /\ run[p].pc = "commit"
      /\ Placed(p) /\ Agrees(p) /\ Collected(p) /\ BundlesInv /\ Inv
  BY SingleParts DEF CommitIndex, At
<1>2. run[p].task = "index" /\ lock = p /\ run[p].inode = live.inode
  BY <1>1 DEF Placed, StepsOf, Held, Agrees, Run
<1>3. /\ past' = past \cup {snaps} /\ UNCHANGED <<reg, now, bundles, backups>>
      /\ Finish(p)
  BY <1>2 DEF CommitIndex
<1>4. Traceable(snaps)
  <2>1. live.db.snaps \in Seq(Bundle) /\ Traceable(live.db.snaps)
    BY <1>1 DEF Inv, WasPublished, Whole, BundlesInv
  <2>2. run[p].bundle \in bundles
    BY <1>1, <1>2 DEF Collected
  <2>3. QED
    BY <1>1, <2>1, <2>2, IndexTraceable
<1> HIDE DEF snaps
<1>5. /\ run' = [run EXCEPT ![p] = run'[p]]
      /\ run'[p] = IdleRun(p, run[p].nth, run[p].stamp)
  BY <1>1, <1>3, FinishedRun
<1>6. /\ run'[p].task = "none" /\ run'[p].pc = "idle"
      /\ run'[p].nth = run[p].nth /\ run'[p].stamp = run[p].stamp
  BY <1>5 DEF IdleRun
<1>7. QED
  BY <1>2, <1>3, <1>4, <1>5, <1>6, PublishedSingle

-----------------------------------------------------------------------------
(* The theorems                                                            *)

LEMMA InitSingle == ASSUME Init PROVE SingleInv
<1>1. Inv
  BY InitKeeps
<1>2. now = 2 /\ bundles = {} /\ Kept = {Baseline} /\ DOMAIN backups = {}
  BY DEF Init, Kept
<1>3. Sound(Baseline)
  <2>1. \A k \in Servers : Covers(Baseline, k)
    BY DEF Init, Covers, Baseline
  <2>2. /\ Baseline.since = 0 /\ Baseline.started = 1 /\ Baseline.completed = 1
        /\ Baseline.base = {}
    BY DEF Baseline
  <2>3. QED
    BY <1>2, <2>1, <2>2 DEF Sound
<1>4. Traceable(EmptyFile.snaps)
  <2>1. EmptyFile.snaps = <<Baseline>>
    BY DEF EmptyFile
  <2>2. Precedes(Baseline, Baseline)
    BY BaselineType, PrecedesOrders
  <2>3. QED
    BY <1>2, <2>1, <2>2 DEF Traceable, Earliest
<1>5. BundlesInv
  BY <1>2, <1>3, <1>4 DEF Init, BundlesInv
<1>6. \A p \in Procs : Stamped(p) /\ Collected(p) /\ Secured(p)
  BY <1>2 DEF Init, IdleRun, Stamped, Collected, Secured, RefreshBackups
<1>7. QED
  BY <1>1, <1>2, <1>5, <1>6 DEF SingleInv, RefreshBackups

LEMMA ProceedSingle ==
  ASSUME OneRefresher, SingleInv, Inv', NEW p \in Procs, Proceed(p)
  PROVE  SingleInv'
<1>1. CASE RefreshStep(p)
  BY <1>1, StageCopySingle, FetchSingle, CompleteBundleSingle, RoutineRefreshSteps,
     PruneSingle DEF RefreshStep
<1>2. CASE SharedStep(p)
  BY <1>2, RoutineOtherSteps, BackupFileSingle, BackupMetadataSingle, PublishSingle
     DEF SharedStep
<1>3. CASE OperatorStep(p)
  BY <1>3, RoutineOtherSteps, CommitIndexSingle DEF OperatorStep
<1>4. CASE ObserverStep(p)
  BY <1>4, RoutineOtherSteps DEF ObserverStep
<1>5. QED
  BY <1>1, <1>2, <1>3, <1>4 DEF Proceed

LEMMA NextSingle ==
  ASSUME OneRefresher, SingleInv, [Next]_vars PROVE SingleInv'
<1>1. Inv'
  BY NextKeeps DEF SingleInv
<1>2. CASE Begin
  BY <1>1, <1>2, BeginRefreshSingle, BeginOtherSingle DEF Begin
<1>3. CASE \E p \in Procs : Proceed(p)
  BY <1>1, <1>3, ProceedSingle
<1>4. CASE Fault
  BY <1>1, <1>4, SurroundingsRoutine, RoutineFaults, PruneFailsSingle DEF Fault
<1>5. CASE Tick \/ \E k \in Servers : Update(k)
  BY <1>1, <1>5, SurroundingsRoutine
<1>6. CASE UNCHANGED vars
  <2>1. UNCHANGED <<reg, now, live, lock, backups, bundles, run, past>>
    BY <1>6 DEF vars
  <2>2. BundlesInv'
    BY <2>1, BundlesKept DEF SingleInv
  <2>3. ASSUME NEW p \in Procs
        PROVE  Stamped(p)' /\ Collected(p)' /\ Secured(p)'
    <3>1. Stamped(p)'
      BY <2>1, SingleParts DEF Stamped, RefreshBackups
    <3>2. Collected(p)'
      BY <2>1, SingleParts DEF Collected, Covers
    <3>3. Secured(p)'
      BY <2>1, SingleParts DEF Secured, BackupFor
    <3>4. QED
      BY <3>1, <3>2, <3>3
  <2>4. QED
    BY <1>1, <2>1, <2>2, <2>3 DEF SingleInv, RefreshBackups
<1>7. QED
  BY <1>2, <1>3, <1>4, <1>5, <1>6 DEF Next

\* With one refresher the strengthened invariant holds at every step.
LEMMA SingleInvariance == ASSUME OneRefresher PROVE Spec => []SingleInv
<1>1. Init => SingleInv
  BY InitSingle
<1>2. SingleInv /\ [Next]_vars => SingleInv'
  BY NextSingle
<1>3. QED
  BY <1>1, <1>2, PTL DEF Spec

\* A refresh or a restore that replaces a valid catalog leaves a verified
\* backup of it: publish_backup writes the file, then its metadata, and
\* prune_refresh_backups, which runs between the backup and the publication,
\* cannot remove the backup of its own attempt.
THEOREM Reversible ==
  ASSUME OneRefresher PROVE Spec => []PublicationIsReversible
<1>1. SingleInv => PublicationIsReversible
  BY DEF SingleInv, Secured, PublicationIsReversible, At
<1>2. QED
  BY <1>1, SingleInvariance, PTL

\* What the incremental refresh misses, it misses because a collection ran in
\* that second, or because a restore dropped the baseline of a bundle that is
\* indexed: registry refresh takes updated_since from the completion time of
\* the latest staged snapshot, and a bundle names its baseline.
THEOREM MissedOnlyThen ==
  ASSUME OneRefresher PROVE Spec => []MissedOnlyDuringCollection
<1>1. SingleInv => MissedOnlyDuringCollection
  BY MissedFollows
<1>2. QED
  BY <1>1, SingleInvariance, PTL

=============================================================================
