----------------------- MODULE StaticScheduler_proofs -----------------------
(***************************************************************************)
(* Theorems about StaticScheduler, for every set of declarations and       *)
(* schedulers, all limits and every number of faults and restores.         *)
(***************************************************************************)
EXTENDS StaticScheduler, TLAPS

\* A scheduler dies at most once for each fault.
Lives == \A s \in Schedulers : scheduler[s].life <= faults

\* Who waits for a child has not used up its batch.
Awaiting ==
  \A s \in Schedulers :
    scheduler[s].pc = "await" => scheduler[s].processed < BatchSize

\* Every row has its package, in the catalog and in a copy of it.
Rowed ==
  /\ Len(rows) <= Len(packages)
  /\ \A i \in DOMAIN backup : Len(backup[i].rows) <= Len(backup[i].packages)

\* The inductive invariant behind TypeOK: a new life, one more package of
\* the batch and the declaration of a claimed row are within their bounds.
TypeInv == TypeOK /\ Lives /\ Awaiting /\ Rowed

-----------------------------------------------------------------------------
(* Values                                                                  *)

LEMMA OldestType == Oldest \in Nat
BY LimitsAssumption DEF Oldest

LEMMA OlderType == ASSUME NEW age \in 0 .. Oldest PROVE Older(age) \in 0 .. Oldest
BY OldestType DEF Older

LEMMA ArtifactType ==
  ASSUME NEW d \in Declarations
  PROVE  Artifact[d] \in Artifacts /\ {Artifact[d]} \in Digests
BY DEF Artifacts, Digests

LEMMA FailureType ==
  ASSUME NEW state \in {"failed", "unsupported", "unresolvable"}
  PROVE  Failure(state) \in Result
BY DEF Failure, Result, Digests

LEMMA NoChildType == NoChild \in Child
<1>1. (CHOOSE d \in Declarations : TRUE) \in Declarations
  BY KindAssumption
<1>2. Failure("failed") \in Result
  BY FailureType
<1>3. QED
  BY <1>1, <1>2, OldestType DEF NoChild, Child

\* One row, or one element, of a sequence is replaced.
LEMMA ReplaceElement ==
  ASSUME NEW S, NEW t \in Seq(S), NEW p \in DOMAIN t, NEW e \in S
  PROVE  [t EXCEPT ![p] = e] \in Seq(S)
<1>1. t \in [1 .. Len(t) -> S]
  OBVIOUS
<1>2. [t EXCEPT ![p] = e] \in [1 .. Len(t) -> S]
  BY <1>1
<1>3. QED
  BY <1>2

LEMMA MapElements ==
  ASSUME NEW S, NEW n \in Nat, NEW t \in [1 .. n -> S]
  PROVE  t \in Seq(S) /\ Len(t) = n
OBVIOUS

LEMMA AgedType ==
  ASSUME NEW table \in Seq(Row) PROVE Aged(table) \in Seq(Row)
<1>1. \A p \in DOMAIN table :
        [table[p] EXCEPT !.age = Older(@)] \in Row
  <2> SUFFICES ASSUME NEW p \in DOMAIN table
               PROVE  [table[p] EXCEPT !.age = Older(@)] \in Row
    OBVIOUS
  <2>1. table[p] \in Row
    OBVIOUS
  <2>2. Older(table[p].age) \in 0 .. Oldest
    BY <2>1, OlderType DEF Row
  <2>3. QED
    BY <2>1, <2>2 DEF Row
<1>2. Aged(table) \in [1 .. Len(table) -> Row]
  BY <1>1 DEF Aged
<1>3. QED
  BY <1>2, MapElements

LEMMA AgedLength ==
  ASSUME NEW S, NEW table \in Seq(S) PROVE Len(Aged(table)) = Len(table)
BY DEF Aged

LEMMA MineType ==
  ASSUME TypeOK, NEW s \in Schedulers PROVE Mine(s) \in Children
<1>1. scheduler[s] \in Scheduler
  BY DEF TypeOK
<1>2. QED
  BY <1>1 DEF Mine, Children, Scheduler

\* Whatever a child exits with, its table and the lock keep their types.
LEMMA ExitType ==
  ASSUME TypeOK, NEW c \in Children, NEW result \in Result, Exit(c, result)
  PROVE  child' \in [Children -> Child] /\ lock' \in Children \cup {Free}
<1>1. child[c] \in Child /\ NoChild \in Child
  BY NoChildType DEF TypeOK
<1>2. [child[c] EXCEPT !.pc = "exited", !.result = result] \in Child
  BY <1>1 DEF Child
<1>3. QED
  BY <1>1, <1>2 DEF Exit, TypeOK

LEMMA NewRowType ==
  ASSUME TypeOK, NEW p \in DOMAIN packages PROVE NewRow(p) \in Row
<1>1. packages[p] \in Declarations /\ Len(packages) \in Nat
  BY DEF TypeOK
<1>2. classify(packages[p]) \in States
  BY DEF classify, States
<1>3. QED
  BY <1>1, <1>2, OldestType, LimitsAssumption DEF NewRow, Row, Digests

\* What synchronize makes of a row.
LEMMA SyncedRowType ==
  ASSUME TypeOK, NEW p \in DOMAIN packages
  PROVE  SyncedRow(p) \in Row
<1> DEFINE row == IF p \in DOMAIN rows THEN rows[p] ELSE NewRow(p)
           state == classify(packages[p])
<1>1. packages[p] \in Declarations /\ Len(packages) \in Nat
  BY DEF TypeOK
<1>2. state \in {"unsupported", "unresolvable", "eligible"}
  BY DEF classify
<1>3. NewRow(p) \in Row
  BY <1>1, <1>2, OldestType, LimitsAssumption DEF NewRow, Row, States, Digests
<1>4. row \in Row
  BY <1>3 DEF TypeOK
<1>5. \A n \in DOMAIN runs : n \in Nat /\ {runs[n].artifact} \in Digests
  <2> SUFFICES ASSUME NEW n \in DOMAIN runs
               PROVE  n \in Nat /\ {runs[n].artifact} \in Digests
    OBVIOUS
  <2>1. n \in Nat /\ runs[n] \in Run
    BY DEF TypeOK
  <2>2. runs[n].artifact \in Artifacts
    BY <2>1 DEF Run
  <2>3. QED
    BY <2>1, <2>2 DEF Digests
<1>6. compatible_run(p) \subseteq DOMAIN runs
  BY DEF compatible_run, Latest
<1> HIDE DEF row, state
<1>7. Interrupted(row) \in Row
  BY <1>4 DEF Interrupted, Row, States
<1>8. [row EXCEPT !.state = state, !.run = 0, !.artifact = None] \in Row
  BY <1>2, <1>4 DEF Row, States, Digests
<1>9. ASSUME compatible_run(p) # {}
      PROVE  LET n == CHOOSE m \in compatible_run(p) : TRUE IN
             [row EXCEPT !.state = "completed", !.run = n,
                         !.artifact = {runs[n].artifact}] \in Row
  <2> DEFINE n == CHOOSE m \in compatible_run(p) : TRUE
  <2>1. n \in DOMAIN runs
    BY <1>6, <1>9
  <2> HIDE DEF n
  <2>2. QED
    BY <2>1, <1>4, <1>5 DEF Row, States, n
<1>10. QED
  BY <1>7, <1>8, <1>9 DEF SyncedRow, row, state

-----------------------------------------------------------------------------
(* Type correctness                                                        *)

LEMMA InitTypeInv == Init => TypeInv
<1> SUFFICES ASSUME Init PROVE TypeInv
  OBVIOUS
<1>1. \A s \in Schedulers : scheduler[s] \in Scheduler /\ scheduler[s].life = 0
        /\ scheduler[s].pc = "idle"
  BY LimitsAssumption, BoundsAssumption DEF Init, Scheduler
<1>2. scheduler \in [Schedulers -> Scheduler]
  BY <1>1 DEF Init
<1>3. child \in [Children -> Child]
  BY NoChildType DEF Init
<1>4. QED
  BY <1>1, <1>2, <1>3, BoundsAssumption
  DEF Init, TypeInv, TypeOK, Lives, Awaiting, Rowed

\* One scheduler goes on, in the same life.
LEMMA Advance ==
  ASSUME TypeInv, NEW s \in Schedulers, NEW e \in Scheduler,
         e.life = scheduler[s].life,
         e.pc = "await" => e.processed < BatchSize,
         scheduler' = [scheduler EXCEPT ![s] = e], faults' = faults
  PROVE  scheduler' \in [Schedulers -> Scheduler] /\ Lives' /\ Awaiting'
BY DEF TypeInv, TypeOK, Lives, Awaiting

\* The steps of children change neither rows nor copies nor schedulers.
LEMMA ChildOnly ==
  ASSUME TypeInv, child' \in [Children -> Child],
         lock' \in Children \cup {Free}, faults' \in faults .. MaxFaults,
         UNCHANGED <<packages, rows, scheduler, backup, restores>>,
         runs' \in Seq(Run)
  PROVE  TypeInv'
<1>1. TypeOK'
  BY DEF TypeInv, TypeOK
<1>2. Lives'
  BY DEF TypeInv, TypeOK, Lives, Scheduler
<1>3. Awaiting' /\ Rowed'
  BY DEF TypeInv, Awaiting, Rowed
<1>4. QED
  BY <1>1, <1>2, <1>3 DEF TypeInv

LEMMA SynchronizeTypes ==
  ASSUME TypeInv, NEW s \in Schedulers, Synchronize(s) PROVE TypeInv'
<1>1. rows' \in [1 .. Len(packages) -> Row]
  BY SyncedRowType DEF Synchronize, TypeInv, TypeOK
<1>2. rows' \in Seq(Row) /\ Len(rows') = Len(packages)
  <2>1. Len(packages) \in Nat
    BY DEF TypeInv, TypeOK
  <2>2. QED
    BY ONLY <1>1, <2>1, MapElements
<1> DEFINE e == [scheduler[s] EXCEPT !.pc = "claim", !.processed = 0]
<1>3. scheduler[s] \in Scheduler
  BY DEF TypeInv, TypeOK
<1>4. /\ e \in Scheduler /\ e.life = scheduler[s].life /\ e.pc # "await"
  <2>1. 0 \in 0 .. BatchSize
    BY LimitsAssumption
  <2>2. QED
    BY <1>3, <2>1 DEF Scheduler
<1>5. scheduler' = [scheduler EXCEPT ![s] = e] /\ faults' = faults
  BY DEF Synchronize
<1> HIDE DEF e
<1>6. scheduler' \in [Schedulers -> Scheduler] /\ Lives' /\ Awaiting'
  BY <1>4, <1>5, Advance
<1>7. TypeOK'
  BY <1>2, <1>6 DEF Synchronize, TypeInv, TypeOK
<1>8. Rowed'
  BY <1>2 DEF Synchronize, TypeInv, Rowed, TypeOK
<1>9. QED
  BY <1>6, <1>7, <1>8 DEF TypeInv

LEMMA ClaimTypes ==
  ASSUME TypeInv, NEW s \in Schedulers, Claim(s) PROVE TypeInv'
<1>1. PICK p \in First(candidates) :
        /\ set_running(p)
        /\ scheduler' = [scheduler EXCEPT ![s] =
             [@ EXCEPT !.pc = "await", !.item = p]]
        /\ child' = [child EXCEPT ![Mine(s)] =
             [NoChild EXCEPT !.pc = "resolve", !.declaration = packages[p]]]
  BY DEF Claim
<1>2. p \in DOMAIN rows /\ p \in Nat /\ Due(rows[p]) /\ rows[p] \in Row
  BY DEF First, candidates, TypeInv, TypeOK
<1>3. rows' \in Seq(Row) /\ Len(rows') = Len(rows)
  <2> DEFINE r == [rows[p] EXCEPT !.state = "running", !.attempt = rows[p].attempt + 1,
                                  !.age = 0]
  <2>1. r \in Row
    <3>1. /\ rows[p].attempt + 1 \in 0 .. MaximumAttempts
          /\ 0 \in 0 .. Oldest
      BY <1>2, OldestType, LimitsAssumption DEF Due, Row
    <3>2. QED
      BY <1>2, <3>1 DEF Row, States
  <2>2. rows' = [rows EXCEPT ![p] = r]
    BY <1>1 DEF set_running
  <2> HIDE DEF r
  <2>3. QED
    BY <2>1, <2>2, <1>2, ReplaceElement DEF TypeInv, TypeOK
<1>4. packages[p] \in Declarations
  BY <1>2 DEF TypeInv, TypeOK, Rowed
<1>5. child' \in [Children -> Child]
  <2> DEFINE k == [NoChild EXCEPT !.pc = "resolve", !.declaration = packages[p]]
  <2>1. k \in Child
    BY <1>4, NoChildType DEF Child
  <2>2. child' = [child EXCEPT ![Mine(s)] = k]
    BY <1>1
  <2> HIDE DEF k
  <2>3. QED
    BY <2>1, <2>2 DEF TypeInv, TypeOK
<1> DEFINE e == [scheduler[s] EXCEPT !.pc = "await", !.item = p]
<1>6. scheduler[s] \in Scheduler /\ scheduler[s].processed < BatchSize
  BY DEF Claim, TypeInv, TypeOK
<1>7. /\ e \in Scheduler /\ e.life = scheduler[s].life
      /\ e.processed < BatchSize
  BY <1>2, <1>6 DEF Scheduler
<1>8. scheduler' = [scheduler EXCEPT ![s] = e] /\ faults' = faults
  BY <1>1 DEF Claim
<1> HIDE DEF e
<1>9. scheduler' \in [Schedulers -> Scheduler] /\ Lives' /\ Awaiting'
  BY <1>7, <1>8, Advance
<1>10. TypeOK'
  BY <1>3, <1>5, <1>9 DEF Claim, TypeInv, TypeOK
<1>11. Rowed'
  BY <1>3 DEF Claim, TypeInv, Rowed
<1>12. QED
  BY <1>9, <1>10, <1>11 DEF TypeInv

LEMMA LeaveTypes ==
  ASSUME TypeInv, NEW s \in Schedulers, Leave(s) PROVE TypeInv'
<1> DEFINE e == [scheduler[s] EXCEPT !.pc = "idle", !.processed = 0]
<1>1. scheduler[s] \in Scheduler
  BY DEF TypeInv, TypeOK
<1>2. e \in Scheduler /\ e.life = scheduler[s].life /\ e.pc # "await"
  <2>1. 0 \in 0 .. BatchSize
    BY LimitsAssumption
  <2>2. QED
    BY <1>1, <2>1 DEF Scheduler
<1>3. scheduler' = [scheduler EXCEPT ![s] = e] /\ faults' = faults
  BY DEF Leave
<1> HIDE DEF e
<1>4. scheduler' \in [Schedulers -> Scheduler] /\ Lives' /\ Awaiting'
  BY <1>2, <1>3, Advance
<1>5. TypeOK' /\ Rowed'
  BY <1>4 DEF Leave, catalog, TypeInv, TypeOK, Rowed
<1>6. QED
  BY <1>4, <1>5 DEF TypeInv

\* What Record writes is a result.
LEMMA RecordedType ==
  ASSUME NEW result \in Result PROVE Recorded(result) \in Result
BY FailureType DEF Recorded

LEMMA RecordTypes ==
  ASSUME TypeInv, NEW s \in Schedulers, Record(s) PROVE TypeInv'
<1> DEFINE p == scheduler[s].item
           result == Recorded(child[Mine(s)].result)
<1>1. child[Mine(s)].result \in Result
  BY MineType DEF TypeInv, TypeOK, Child
<1>2. result \in Result
  BY <1>1, RecordedType
<1>3. rows' \in Seq(Row) /\ Len(rows') = Len(rows)
  <2>1. CASE p \notin DOMAIN rows
    BY <2>1 DEF Record, TypeInv, TypeOK
  <2>2. CASE p \in DOMAIN rows
    <3> DEFINE r == [rows[p] EXCEPT !.state = result.state,
                       !.run = result.run, !.artifact = result.artifact]
    <3>1. rows[p] \in Row
      BY <2>2 DEF TypeInv, TypeOK
    <3>2. rows' = [rows EXCEPT ![p] = r]
      BY <2>2 DEF Record
    <3> HIDE DEF result
    <3>3. r \in Row
      BY <1>2, <3>1 DEF Row, Result, States
    <3> HIDE DEF r
    <3>4. QED
      BY <2>2, <3>2, <3>3, ReplaceElement DEF TypeInv, TypeOK
  <2>3. QED
    BY <2>1, <2>2
<1>4. child' \in [Children -> Child]
  BY NoChildType DEF Record, TypeInv, TypeOK
<1> DEFINE e == [scheduler[s] EXCEPT !.pc = "claim", !.item = 0,
                           !.processed = scheduler[s].processed + 1]
<1>5. scheduler[s] \in Scheduler /\ scheduler[s].processed < BatchSize
  BY DEF Record, TypeInv, TypeOK, Awaiting
<1>6. e \in Scheduler /\ e.life = scheduler[s].life /\ e.pc # "await"
  <2>1. scheduler[s].processed + 1 \in 0 .. BatchSize
    BY <1>5, LimitsAssumption DEF Scheduler
  <2>2. QED
    BY <1>5, <2>1 DEF Scheduler
<1>7. scheduler' = [scheduler EXCEPT ![s] = e] /\ faults' = faults
  BY DEF Record
<1> HIDE DEF e
<1>8. scheduler' \in [Schedulers -> Scheduler] /\ Lives' /\ Awaiting'
  BY <1>6, <1>7, Advance
<1>9. TypeOK'
  BY <1>3, <1>4, <1>8 DEF Record, TypeInv, TypeOK
<1>10. Rowed'
  BY <1>3 DEF Record, TypeInv, Rowed
<1>11. QED
  BY <1>8, <1>9, <1>10 DEF TypeInv

LEMMA ResolveTypes ==
  ASSUME TypeInv, NEW c \in Children, Resolve(c) PROVE TypeInv'
<1> DEFINE ids == {p \in DOMAIN packages : packages[p] = child[c].declaration}
           n == CHOOSE p \in ids : TRUE
           k == [child[c] EXCEPT !.pc = "lock", !.package = n]
<1>1. TypeOK /\ child[c] \in Child
  BY DEF TypeInv, TypeOK
<1>2. ids \subseteq Nat
  BY DEF TypeInv, TypeOK
<1>3. child' \in [Children -> Child] /\ lock' \in Children \cup {Free}
  <2>1. CASE Exit(c, Failure("unresolvable")) \/ Exit(c, Failure("unsupported"))
    BY <2>1, <1>1, ExitType, FailureType
  <2>2. CASE ids # {} /\ child' = [child EXCEPT ![c] = k] /\ UNCHANGED lock
    <3>1. n \in Nat
      BY <1>2, <2>2
    <3> HIDE DEF n
    <3>2. k \in Child
      BY <1>1, <3>1 DEF Child
    <3> HIDE DEF k
    <3>3. QED
      BY <2>2, <3>2 DEF TypeInv, TypeOK
  <2>3. QED
    BY <2>1, <2>2 DEF Resolve
<1>4. QED
  BY <1>3, ChildOnly DEF Resolve, catalog, TypeInv, TypeOK

\* A child goes on to another step.
LEMMA ChildMoves ==
  ASSUME TypeOK, NEW c \in Children,
         NEW pc \in {"none", "resolve", "lock", "analyse", "work", "print",
                     "exited"},
         child' = [child EXCEPT ![c].pc = pc]
  PROVE  child' \in [Children -> Child]
<1>1. [child[c] EXCEPT !.pc = pc] \in Child
  BY DEF TypeOK, Child
<1>2. QED
  BY <1>1 DEF TypeOK

LEMMA AcquireTypes ==
  ASSUME TypeInv, NEW c \in Children, Acquire(c) PROVE TypeInv'
<1>1. child' \in [Children -> Child]
  BY ChildMoves DEF Acquire, TypeInv
<1>2. QED
  BY <1>1, ChildOnly DEF Acquire, catalog, TypeInv, TypeOK

LEMMA RejectTypes ==
  ASSUME TypeInv, NEW c \in Children, Reject(c) PROVE TypeInv'
BY ExitType, FailureType, ChildOnly DEF Reject, catalog, TypeInv, TypeOK

\* The child has a run to report.
LEMMA ReportType ==
  ASSUME TypeOK, NEW c \in Children, NEW n \in Nat, Report(c, n)
  PROVE  child' \in [Children -> Child]
<1> DEFINE r == [state |-> "completed", run |-> n,
                 artifact |-> {Artifact[child[c].declaration]}]
           k == [child[c] EXCEPT !.pc = "print", !.result = r]
<1>1. child[c] \in Child /\ child[c].declaration \in Declarations
  BY DEF TypeOK, Child
<1>2. r \in Result
  BY <1>1, ArtifactType DEF Result
<1>3. k \in Child
  BY <1>1, <1>2 DEF Child
<1>4. child' = [child EXCEPT ![c] = k]
  BY DEF Report
<1> HIDE DEF k
<1>5. QED
  BY <1>3, <1>4 DEF TypeOK

LEMMA ReuseTypes ==
  ASSUME TypeInv, NEW c \in Children, Reuse(c) PROVE TypeInv'
<1>1. PICK n \in Latest(Reusable(c)) : Report(c, n)
  BY DEF Reuse
<1>2. n \in Nat
  BY DEF Latest, Reusable, TypeInv, TypeOK
<1>3. child' \in [Children -> Child]
  BY <1>1, <1>2, ReportType DEF TypeInv
<1>4. QED
  BY <1>3, ChildOnly DEF Reuse, catalog, TypeInv, TypeOK

LEMMA AnalyseTypes ==
  ASSUME TypeInv, NEW c \in Children, Analyse(c) PROVE TypeInv'
<1>1. child' \in [Children -> Child]
  BY ChildMoves DEF Analyse, TypeInv
<1>2. QED
  BY <1>1, ChildOnly DEF Analyse, catalog, TypeInv, TypeOK

LEMMA CommitTypes ==
  ASSUME TypeInv, NEW c \in Children, Commit(c) PROVE TypeInv'
<1> DEFINE r == [package |-> child[c].package,
                 artifact |-> Artifact[child[c].declaration]]
<1>1. child[c].package \in Nat /\ child[c].declaration \in Declarations
  BY DEF TypeInv, TypeOK, Child
<1>2. r \in Run
  BY <1>1, ArtifactType DEF Run
<1>3. runs' \in Seq(Run)
  BY <1>2 DEF Commit, TypeInv, TypeOK
<1>4. Len(runs) + 1 \in Nat
  BY DEF TypeInv, TypeOK
<1>5. child' \in [Children -> Child]
  BY <1>4, ReportType DEF Commit, TypeInv
<1>6. QED
  BY <1>3, <1>5, ChildOnly DEF Commit, TypeInv, TypeOK

LEMMA FinishTypes ==
  ASSUME TypeInv, NEW c \in Children, Finish(c) PROVE TypeInv'
<1>1. child[c].result \in Result
  BY DEF TypeInv, TypeOK, Child
<1>2. QED
  BY <1>1, ExitType, ChildOnly DEF Finish, catalog, TypeInv, TypeOK

LEMMA FailTypes ==
  ASSUME TypeInv, NEW c \in Children, Fail(c) PROVE TypeInv'
<1>1. child' \in [Children -> Child] /\ lock' \in Children \cup {Free}
  BY ExitType, FailureType DEF Fail, TypeInv
<1>2. faults' \in faults .. MaxFaults
  BY BoundsAssumption DEF Fail, Fault, TypeInv, TypeOK
<1>3. QED
  BY <1>1, <1>2, ChildOnly DEF Fail, catalog, TypeInv, TypeOK

LEMMA TimeoutTypes ==
  ASSUME TypeInv, NEW s \in Schedulers, Timeout(s) PROVE TypeInv'
<1>1. child' \in [Children -> Child] /\ lock' \in Children \cup {Free}
  BY MineType, ExitType, FailureType DEF Timeout, TypeInv
<1>2. faults' \in faults .. MaxFaults
  BY BoundsAssumption DEF Timeout, Fault, TypeInv, TypeOK
<1>3. QED
  BY <1>1, <1>2, ChildOnly DEF Timeout, catalog, TypeInv, TypeOK

LEMMA KillTypes ==
  ASSUME TypeInv, NEW s \in Schedulers, Kill(s) PROVE TypeInv'
<1> DEFINE e == [pc |-> "idle", item |-> 0, processed |-> 0,
                 life |-> scheduler[s].life + 1]
<1>1. /\ faults \in Nat /\ faults < MaxFaults /\ faults' = faults + 1
      /\ scheduler[s].life \in Nat /\ scheduler[s].life <= faults
  BY BoundsAssumption DEF Kill, Fault, TypeInv, TypeOK, Lives, Scheduler
<1>2. e \in Scheduler
  BY <1>1, BoundsAssumption, LimitsAssumption DEF Scheduler
<1>3. scheduler' = [scheduler EXCEPT ![s] = e]
  BY DEF Kill
<1>4. child' \in [Children -> Child] /\ lock' \in Children \cup {Free}
  BY NoChildType DEF Kill, TypeInv, TypeOK
<1>5. Lives'
  <2> SUFFICES ASSUME NEW t \in Schedulers PROVE scheduler'[t].life <= faults'
    BY DEF Lives
  <2>1. scheduler[t].life \in Nat /\ scheduler[t].life <= faults
    BY DEF TypeInv, TypeOK, Lives, Scheduler
  <2>2. QED
    BY <1>1, <1>3, <2>1 DEF TypeInv, TypeOK
<1>6. Awaiting'
  BY <1>3 DEF TypeInv, TypeOK, Awaiting
<1>7. TypeOK' /\ Rowed'
  <2> HIDE DEF e
  <2> QED BY <1>1, <1>2, <1>3, <1>4, BoundsAssumption
          DEF Kill, catalog, TypeInv, TypeOK, Rowed
<1>8. QED
  BY <1>5, <1>6, <1>7 DEF TypeInv

LEMMA DiscoverTypes ==
  ASSUME TypeInv, NEW d \in Declarations, Discover(d) PROVE TypeInv'
<1>1. packages' \in Seq(Declarations) /\ Len(packages') = Len(packages) + 1
  BY DEF Discover, TypeInv, TypeOK
<1>2. Len(rows) \in Nat /\ Len(packages) \in Nat
  BY DEF TypeInv, TypeOK
<1>3. QED
  BY <1>1, <1>2 DEF Discover, TypeInv, TypeOK, Lives, Awaiting, Rowed

LEMMA TickTypes == ASSUME TypeInv, Tick PROVE TypeInv'
<1>1. rows' \in Seq(Row) /\ Len(rows') = Len(rows)
  <2>1. rows \in Seq(Row) /\ rows' = Aged(rows)
    BY DEF Tick, TypeInv, TypeOK
  <2>2. QED
    BY <2>1, AgedType, AgedLength
<1>2. child' \in [Children -> Child]
  <2>1. \A c \in Children : [child[c] EXCEPT !.age = Older(@)] \in Child
    BY OlderType DEF TypeInv, TypeOK, Child
  <2>2. QED
    BY <2>1 DEF Tick, TypeInv, TypeOK
<1>3. /\ backup' \in Seq(Saved)
      /\ DOMAIN backup' = DOMAIN backup
      /\ \A i \in DOMAIN backup :
           /\ Len(backup'[i].rows) = Len(backup[i].rows)
           /\ backup'[i].packages = backup[i].packages
  <2>1. \A i \in DOMAIN backup :
          /\ [backup[i] EXCEPT !.rows = Aged(@)] \in Saved
          /\ Len(Aged(backup[i].rows)) = Len(backup[i].rows)
    <3> SUFFICES ASSUME NEW i \in DOMAIN backup
                 PROVE  /\ [backup[i] EXCEPT !.rows = Aged(@)] \in Saved
                        /\ Len(Aged(backup[i].rows)) = Len(backup[i].rows)
      OBVIOUS
    <3>1. backup[i] \in Saved
      BY DEF TypeInv, TypeOK
    <3>2. backup[i].rows \in Seq(Row)
      BY <3>1 DEF Saved
    <3>3. Aged(backup[i].rows) \in Seq(Row)
      BY <3>2, AgedType
    <3>4. QED
      BY <3>1, <3>2, <3>3, AgedLength DEF Saved
  <2>2. backup' = [i \in DOMAIN backup |-> [backup[i] EXCEPT !.rows = Aged(@)]]
    BY DEF Tick
  <2>3. backup' \in [1 .. Len(backup) -> Saved]
    BY <2>1, <2>2 DEF TypeInv, TypeOK
  <2>4. backup' \in Seq(Saved)
    <3>1. Len(backup) \in Nat
      BY DEF TypeInv, TypeOK
    <3>2. QED
      BY ONLY <2>3, <3>1, MapElements
  <2>5. \A i \in DOMAIN backup :
          backup'[i].rows = Aged(backup[i].rows)
          /\ backup'[i].packages = backup[i].packages
    <3> SUFFICES ASSUME NEW i \in DOMAIN backup
                 PROVE  backup'[i].rows = Aged(backup[i].rows)
                        /\ backup'[i].packages = backup[i].packages
      OBVIOUS
    <3>1. backup[i] \in Saved
      BY DEF TypeInv, TypeOK
    <3>2. backup'[i] = [backup[i] EXCEPT !.rows = Aged(@)]
      BY <2>2
    <3>3. QED
      BY <3>1, <3>2 DEF Saved
  <2>6. QED
    BY <2>1, <2>2, <2>4, <2>5
<1>4. TypeOK'
  BY <1>1, <1>2, <1>3 DEF Tick, TypeInv, TypeOK
<1>5. Lives' /\ Awaiting' /\ Rowed'
  BY <1>1, <1>3 DEF Tick, TypeInv, Lives, Awaiting, Rowed
<1>6. QED
  BY <1>4, <1>5 DEF TypeInv

LEMMA TakeBackupTypes == ASSUME TypeInv, TakeBackup PROVE TypeInv'
<1> DEFINE copy == [packages |-> packages, rows |-> rows, runs |-> runs]
<1>1. copy \in Saved /\ Len(copy.rows) <= Len(copy.packages)
  BY DEF TypeInv, TypeOK, Rowed, Saved
<1>2. backup' = <<copy>>
  BY DEF TakeBackup
<1> HIDE DEF copy
<1>3. backup' \in Seq(Saved) /\ DOMAIN backup' = {1} /\ backup'[1] = copy
  BY <1>1, <1>2
<1>4. QED
  BY <1>1, <1>3 DEF TakeBackup, catalog, TypeInv, TypeOK, Lives, Awaiting, Rowed

LEMMA RestoreTypes == ASSUME TypeInv, Restore PROVE TypeInv'
<1>1. 1 \in DOMAIN backup /\ backup[1] \in Saved
  BY DEF Restore, TypeInv, TypeOK
<1>2. /\ packages' \in Seq(Declarations) /\ rows' \in Seq(Row)
      /\ runs' \in Seq(Run) /\ Len(rows') <= Len(packages')
  BY <1>1 DEF Restore, TypeInv, Rowed, Saved
<1>3. QED
  BY <1>2, BoundsAssumption
  DEF Restore, TypeInv, TypeOK, Lives, Awaiting, Rowed

LEMMA StepTypeInv == TypeInv /\ [Next]_vars => TypeInv'
<1> SUFFICES ASSUME TypeInv, [Next]_vars PROVE TypeInv'
  OBVIOUS
<1>1. CASE \E s \in Schedulers : SchedulerStep(s) \/ Timeout(s) \/ Kill(s)
  BY <1>1, SynchronizeTypes, ClaimTypes, LeaveTypes, RecordTypes, TimeoutTypes,
     KillTypes DEF SchedulerStep
<1>2. CASE \E c \in Children : ChildStep(c) \/ Fail(c)
  BY <1>2, ResolveTypes, AcquireTypes, RejectTypes, ReuseTypes, AnalyseTypes,
     CommitTypes, FinishTypes, FailTypes DEF ChildStep
<1>3. CASE \E d \in Declarations : Discover(d)
  BY <1>3, DiscoverTypes
<1>4. CASE Tick \/ TakeBackup \/ Restore
  BY <1>4, TickTypes, TakeBackupTypes, RestoreTypes
<1>5. CASE UNCHANGED vars
  BY <1>5 DEF vars, TypeInv, TypeOK, Lives, Awaiting, Rowed
<1>6. QED
  BY <1>1, <1>2, <1>3, <1>4, <1>5 DEF Next

LEMMA TypeInvariant == Spec => []TypeInv
BY InitTypeInv, StepTypeInv, PTL DEF Spec

\* Every variable has its type, whatever is killed, late or restored.
THEOREM TypeCorrect == Spec => []TypeOK
<1>1. TypeInv => TypeOK
  BY DEF TypeInv
<1>2. QED
  BY <1>1, TypeInvariant, PTL

-----------------------------------------------------------------------------
(* One analysis for each artifact                                          *)

\* A child past Acquire and not yet gone.
Busy(c) == child[c].pc \in {"analyse", "work", "print"}

\* The lock is held from Acquire to the exit, by one child.
Locked == \A c \in Children : Busy(c) <=> lock = c

\* Since it looked for runs to reuse, nobody has added one.
Fresh ==
  \A c \in Children : child[c].pc = "work" =>
    \A n \in DOMAIN runs : runs[n].artifact # Artifact[child[c].declaration]

Once(table) ==
  \A m, n \in DOMAIN table : table[m].artifact = table[n].artifact => m = n

\* The inductive invariant behind OneRunPerArtifact: a copy may come back.
OnceInv ==
  /\ Locked /\ Fresh /\ Once(runs)
  /\ \A i \in DOMAIN backup : Once(backup[i].runs)

LEMMA ChildIsNotFree == \A c \in Children : c # Free
<1> SUFFICES ASSUME NEW c \in Children PROVE c # Free
  OBVIOUS
<1>1. PICK s \in Schedulers, n \in 0 .. MaxFaults : c = <<s, n>>
  BY DEF Children
<1>2. Len(<<s, n>>) = 2 /\ Len(<< >>) = 0
  OBVIOUS
<1>3. QED
  BY <1>1, <1>2 DEF Free

\* While the lock is free nobody is between the look and the insert.
LEMMA OnceWhileFree ==
  ASSUME OnceInv, lock = Free, lock' = Free,
         \A c \in Children : child'[c].pc \notin {"analyse", "work", "print"},
         Once(runs'), \A i \in DOMAIN backup' : Once(backup'[i].runs)
  PROVE  OnceInv'
BY ChildIsNotFree DEF OnceInv, Locked, Fresh, Busy, Once

LEMMA NobodyIsBusy ==
  ASSUME OnceInv, lock = Free PROVE \A c \in Children : ~Busy(c)
BY ChildIsNotFree DEF OnceInv, Locked

\* One child changes, and no other is touched by it: it keeps the lock just
\* while it is busy, and works only on what is not there.
LEMMA OnceOneChild ==
  ASSUME OnceInv, TypeOK, NEW c \in Children, NEW k,
         child' = [child EXCEPT ![c] = k],
         k.pc = "work" => child[c].pc = "work" /\ k.declaration = child[c].declaration,
         \/ k.pc \in {"analyse", "work", "print"} /\ lock \in {c, Free} /\ lock' = c
         \/ /\ k.pc \notin {"analyse", "work", "print"}
            /\ lock' = IF lock = c THEN Free ELSE lock,
         UNCHANGED <<runs, backup>>
  PROVE  OnceInv'
<1>1. \A b \in Children : child'[b] = IF b = c THEN k ELSE child[b]
  BY DEF TypeOK
<1>2. Locked'
  BY <1>1, ChildIsNotFree DEF OnceInv, Locked, Busy
<1>3. Fresh'
  BY <1>1 DEF OnceInv, Fresh
<1>4. QED
  BY <1>2, <1>3 DEF OnceInv, Once

LEMMA ExitOnce ==
  ASSUME OnceInv, TypeOK, NEW c \in Children, NEW result, Exit(c, result),
         UNCHANGED <<runs, backup>>
  PROVE  OnceInv'
<1> DEFINE k == IF c = Mine(c[1])
                THEN [child[c] EXCEPT !.pc = "exited", !.result = result]
                ELSE NoChild
<1>1. child[c] \in Child
  BY DEF TypeOK
<1>2. k.pc \notin {"analyse", "work", "print"}
  BY <1>1 DEF Child, NoChild
<1>3. child' = [child EXCEPT ![c] = k] /\ lock' = IF lock = c THEN Free ELSE lock
  BY DEF Exit
<1> HIDE DEF k
<1>4. QED
  BY <1>2, <1>3, OnceOneChild

LEMMA ReportOnce ==
  ASSUME TypeOK, NEW c \in Children, NEW n, Report(c, n)
  PROVE  \E k : child' = [child EXCEPT ![c] = k] /\ k.pc = "print"
<1> DEFINE k == [child[c] EXCEPT !.pc = "print",
              !.result = [state |-> "completed", run |-> n,
                          artifact |-> {Artifact[child[c].declaration]}]]
<1>1. child[c] \in Child
  BY DEF TypeOK
<1>2. k.pc = "print"
  BY <1>1 DEF Child
<1>3. child' = [child EXCEPT ![c] = k]
  BY DEF Report
<1> HIDE DEF k
<1>4. QED
  BY <1>2, <1>3

\* A child's next step, where that is no exit.
LEMMA MovesOnce ==
  ASSUME TypeOK, NEW c \in Children,
         NEW pc, child' = [child EXCEPT ![c].pc = pc]
  PROVE  \E k : /\ child' = [child EXCEPT ![c] = k] /\ k.pc = pc
                /\ k.declaration = child[c].declaration
<1> DEFINE k == [child[c] EXCEPT !.pc = pc]
<1>1. child[c] \in Child
  BY DEF TypeOK
<1>2. k.pc = pc /\ k.declaration = child[c].declaration
  BY <1>1 DEF Child
<1>3. child' = [child EXCEPT ![c] = k]
  OBVIOUS
<1> HIDE DEF k
<1>4. QED
  BY <1>2, <1>3

LEMMA SchedulerOnce ==
  ASSUME TypeInv, OnceInv, NEW s \in Schedulers,
         SchedulerStep(s) \/ Timeout(s) \/ Kill(s)
  PROVE  OnceInv'
<1>0. TypeOK /\ Mine(s) \in Children
  BY MineType DEF TypeInv
<1>1. CASE Synchronize(s)
  BY <1>1 DEF Synchronize, OnceInv, Locked, Fresh, Busy, Once
<1>2. CASE Claim(s)
  <2>1. PICK p \in First(candidates) : child' = [child EXCEPT ![Mine(s)] =
          [NoChild EXCEPT !.pc = "resolve", !.declaration = packages[p]]]
    BY <1>2 DEF Claim
  <2>2. \A c \in Children : child'[c].pc \notin {"analyse", "work", "print"}
    <3>1. lock = Free
      BY <1>2 DEF Claim
    <3>2. [NoChild EXCEPT !.pc = "resolve", !.declaration = packages[p]].pc = "resolve"
      BY DEF NoChild
    <3>3. QED
      BY <1>0, <2>1, <3>1, <3>2, NobodyIsBusy DEF Busy, TypeOK
  <2>3. QED
    BY <1>2, <2>2, OnceWhileFree DEF Claim, OnceInv
<1>3. CASE Leave(s)
  BY <1>3 DEF Leave, catalog, OnceInv, Locked, Fresh, Busy, Once
<1>4. CASE Record(s)
  <2>1. \A c \in Children : child'[c].pc \notin {"analyse", "work", "print"}
    BY <1>0, <1>4, NobodyIsBusy DEF Record, Busy, TypeOK, NoChild
  <2>2. QED
    BY <1>4, <2>1, OnceWhileFree DEF Record, OnceInv
<1>5. CASE Timeout(s)
  BY <1>0, <1>5, ExitOnce DEF Timeout, catalog
<1>6. CASE Kill(s)
  <2>1. CASE UNCHANGED <<child, lock>>
    BY <1>6, <2>1 DEF Kill, catalog, OnceInv, Locked, Fresh, Busy, Once
  <2>2. CASE /\ child' = [child EXCEPT ![Mine(s)] = NoChild]
             /\ lock' = IF lock = Mine(s) THEN Free ELSE lock
    <3>1. NoChild.pc = "none"
      BY DEF NoChild
    <3>2. QED
      BY <1>0, <1>6, <2>2, <3>1, OnceOneChild DEF Kill, catalog
  <2>3. QED
    BY <1>6, <2>1, <2>2 DEF Kill
<1>7. QED
  BY <1>1, <1>2, <1>3, <1>4, <1>5, <1>6 DEF SchedulerStep

LEMMA CommitOnce ==
  ASSUME TypeInv, OnceInv, NEW c \in Children, Commit(c) PROVE OnceInv'
<1> DEFINE r == [package |-> child[c].package,
                 artifact |-> Artifact[child[c].declaration]]
<1>1. /\ child[c].pc = "work" /\ lock = c /\ lock' = lock
      /\ backup' = backup /\ runs' = Append(runs, r)
  BY DEF Commit, OnceInv, Locked, Busy
<1>2. PICK k : child' = [child EXCEPT ![c] = k] /\ k.pc = "print"
  BY ReportOnce DEF Commit, TypeInv
<1>3. \A b \in Children : child'[b] = IF b = c THEN k ELSE child[b]
  BY <1>2 DEF TypeInv, TypeOK
<1>4. Locked'
  BY <1>1, <1>2, <1>3 DEF OnceInv, Locked, Busy
<1>5. Fresh'
  <2>1. \A b \in Children : child'[b].pc # "work"
    BY <1>1, <1>2, <1>3 DEF OnceInv, Locked, Busy
  <2>2. QED
    BY <2>1 DEF Fresh
<1>6. Once(runs')
  <2>1. \A n \in DOMAIN runs : runs[n].artifact # r.artifact
    BY <1>1 DEF OnceInv, Fresh
  <2>2. runs \in Seq(Run)
    BY DEF TypeInv, TypeOK
  <2> HIDE DEF r
  <2>3. /\ DOMAIN runs' = 1 .. Len(runs) + 1 /\ DOMAIN runs = 1 .. Len(runs)
        /\ Len(runs) \in Nat /\ runs'[Len(runs) + 1] = r
        /\ \A n \in 1 .. Len(runs) : runs'[n] = runs[n]
    BY <1>1, <2>2
  <2>4. QED
    BY <2>1, <2>3 DEF OnceInv, Once
<1>7. QED
  BY <1>1, <1>4, <1>5, <1>6 DEF OnceInv

LEMMA AnalyseOnce ==
  ASSUME TypeInv, OnceInv, NEW c \in Children, Analyse(c) PROVE OnceInv'
<1>1. /\ child[c].pc = "analyse" /\ lock' = lock /\ runs' = runs
      /\ backup' = backup /\ child' = [child EXCEPT ![c].pc = "work"]
      /\ Reusable(c) = {}
  BY DEF Analyse, catalog
<1>2. PICK k : /\ child' = [child EXCEPT ![c] = k] /\ k.pc = "work"
               /\ k.declaration = child[c].declaration
  BY <1>1, MovesOnce DEF TypeInv
<1>3. \A b \in Children : child'[b] = IF b = c THEN k ELSE child[b]
  BY <1>2 DEF TypeInv, TypeOK
<1>4. Locked'
  BY <1>1, <1>2, <1>3 DEF OnceInv, Locked, Busy
<1>5. Fresh'
  BY <1>1, <1>2, <1>3 DEF OnceInv, Fresh, Reusable
<1>6. QED
  BY <1>1, <1>4, <1>5 DEF OnceInv

LEMMA ChildOnce ==
  ASSUME TypeInv, OnceInv, NEW c \in Children, ChildStep(c) \/ Fail(c)
  PROVE  OnceInv'
<1>0. TypeOK
  BY DEF TypeInv
<1>1. CASE Resolve(c)
  <2> DEFINE ids == {p \in DOMAIN packages : packages[p] = child[c].declaration}
             k == [child[c] EXCEPT !.pc = "lock", !.package = CHOOSE p \in ids : TRUE]
  <2>1. /\ UNCHANGED <<runs, backup>> /\ child[c].pc = "resolve"
        /\ \/ Exit(c, Failure("unresolvable")) \/ Exit(c, Failure("unsupported"))
           \/ child' = [child EXCEPT ![c] = k] /\ UNCHANGED lock
    BY <1>1 DEF Resolve, catalog
  <2>2. k.pc = "lock"
    BY <1>0 DEF TypeOK, Child
  <2>3. lock # c
    BY <2>1 DEF OnceInv, Locked, Busy
  <2> HIDE DEF k
  <2>4. QED
    BY <1>0, <2>1, <2>2, <2>3, ExitOnce, OnceOneChild
<1>2. CASE Acquire(c)
  <2>1. /\ lock = Free /\ lock' = c /\ UNCHANGED <<runs, backup>>
        /\ child' = [child EXCEPT ![c].pc = "analyse"]
    BY <1>2 DEF Acquire, catalog
  <2>2. PICK k : /\ child' = [child EXCEPT ![c] = k] /\ k.pc = "analyse"
                 /\ k.declaration = child[c].declaration
    BY <1>0, <2>1, MovesOnce
  <2>3. QED
    BY <1>0, <2>1, <2>2, OnceOneChild
<1>3. CASE Reject(c)
  BY <1>0, <1>3, ExitOnce DEF Reject, catalog
<1>4. CASE Reuse(c)
  <2>1. PICK n : Report(c, n)
    BY <1>4 DEF Reuse
  <2>2. PICK k : child' = [child EXCEPT ![c] = k] /\ k.pc = "print"
    BY <1>0, <2>1, ReportOnce
  <2>3. /\ lock = c /\ lock' = c /\ UNCHANGED <<runs, backup>>
    BY <1>4 DEF Reuse, catalog, OnceInv, Locked, Busy
  <2>4. QED
    BY <1>0, <2>2, <2>3, OnceOneChild
<1>5. CASE Analyse(c)
  BY <1>5, AnalyseOnce
<1>6. CASE Commit(c)
  BY <1>6, CommitOnce
<1>7. CASE Finish(c)
  BY <1>0, <1>7, ExitOnce DEF Finish, catalog
<1>8. CASE Fail(c)
  BY <1>0, <1>8, ExitOnce DEF Fail, catalog
<1>9. QED
  BY <1>1, <1>2, <1>3, <1>4, <1>5, <1>6, <1>7, <1>8 DEF ChildStep

\* What time does to the copies.
LEMMA TickCopies ==
  ASSUME TypeInv, Tick
  PROVE  /\ DOMAIN backup' = DOMAIN backup
         /\ \A i \in DOMAIN backup : /\ backup'[i].rows = Aged(backup[i].rows)
                                     /\ backup'[i].runs = backup[i].runs
<1>1. backup' = [i \in DOMAIN backup |-> [backup[i] EXCEPT !.rows = Aged(@)]]
  BY DEF Tick
<1>2. ASSUME NEW i \in DOMAIN backup
      PROVE  /\ backup'[i].rows = Aged(backup[i].rows)
             /\ backup'[i].runs = backup[i].runs
  <2>1. backup[i] \in Saved
    BY DEF TypeInv, TypeOK
  <2>2. backup'[i] = [backup[i] EXCEPT !.rows = Aged(@)]
    BY <1>1
  <2>3. QED
    BY <2>1, <2>2 DEF Saved
<1>3. QED
  BY <1>1, <1>2

LEMMA StepOnce == TypeInv /\ OnceInv /\ [Next]_vars => OnceInv'
<1> SUFFICES ASSUME TypeInv, OnceInv, [Next]_vars PROVE OnceInv'
  OBVIOUS
<1>1. CASE \E s \in Schedulers : SchedulerStep(s) \/ Timeout(s) \/ Kill(s)
  BY <1>1, SchedulerOnce
<1>2. CASE \E c \in Children : ChildStep(c) \/ Fail(c)
  BY <1>2, ChildOnce
<1>3. CASE \E d \in Declarations : Discover(d)
  BY <1>3 DEF Discover, OnceInv, Locked, Fresh, Busy, Once
<1>4. CASE Tick
  <2>1. \A c \in Children : /\ child'[c].pc = child[c].pc
                            /\ child'[c].declaration = child[c].declaration
    <3>1. \A c \in Children : child[c] \in Child
      BY DEF TypeInv, TypeOK
    <3>2. \A c \in Children : child'[c] = IF child[c].pc = "none" THEN child[c]
                                ELSE [child[c] EXCEPT !.age = Older(@)]
      BY <1>4 DEF Tick
    <3>3. QED
      BY <3>1, <3>2 DEF Child
  <2>2. runs' = runs /\ lock' = lock
    BY <1>4 DEF Tick
  <2>3. QED
    BY <1>4, <2>1, <2>2, TickCopies DEF OnceInv, Locked, Fresh, Busy, Once
<1>5. CASE TakeBackup
  <2>1. DOMAIN backup' = {1} /\ backup'[1].runs = runs
    BY <1>5 DEF TakeBackup
  <2>2. QED
    BY <1>5, <2>1 DEF TakeBackup, catalog, OnceInv, Locked, Fresh, Busy, Once
<1>6. CASE Restore
  <2>1. lock = Free /\ Once(runs')
    BY <1>6 DEF Restore, OnceInv, TypeInv, TypeOK
  <2>2. QED
    BY <1>6, <2>1, NobodyIsBusy, OnceWhileFree DEF Restore, OnceInv, Busy
<1>7. CASE UNCHANGED vars
  BY <1>7 DEF vars, OnceInv, Locked, Fresh, Busy, Once
<1>8. QED
  BY <1>1, <1>2, <1>3, <1>4, <1>5, <1>6, <1>7 DEF Next

LEMMA InitOnce == Init => OnceInv
<1> SUFFICES ASSUME Init PROVE OnceInv
  OBVIOUS
<1>1. \A c \in Children : child[c].pc = "none"
  BY DEF Init, NoChild
<1>2. QED
  BY <1>1, ChildIsNotFree DEF Init, OnceInv, Locked, Fresh, Busy, Once

\* However schedulers, orphaned children, kills and restores interleave, no
\* artifact is analysed twice.
THEOREM ArtifactsAnalysedOnce == Spec => []OneRunPerArtifact
<1>1. OnceInv => OneRunPerArtifact
  BY DEF OnceInv, Once, OneRunPerArtifact
<1>2. QED
  BY <1>1, InitOnce, StepOnce, TypeInvariant, PTL DEF Spec

-----------------------------------------------------------------------------
(* Completed rows have their runs                                          *)

Backed(table, list) ==
  \A p \in DOMAIN table : table[p].state = "completed" =>
    /\ table[p].run \in DOMAIN list
    /\ table[p].artifact = {list[table[p].run].artifact}

\* The inductive invariant behind CompletedIsBacked: a copy may come back.
BackedInv ==
  /\ Backed(rows, runs)
  /\ \A i \in DOMAIN backup : Backed(backup[i].rows, backup[i].runs)

\* Time changes ages only.
LEMMA AgedBacked ==
  ASSUME NEW table \in Seq(Row), NEW list, Backed(table, list)
  PROVE  Backed(Aged(table), list)
<1>1. ASSUME NEW p \in DOMAIN table
      PROVE  /\ Aged(table)[p].state = table[p].state
             /\ Aged(table)[p].run = table[p].run
             /\ Aged(table)[p].artifact = table[p].artifact
  <2>1. table[p] \in Row
    OBVIOUS
  <2>2. Aged(table)[p] = [table[p] EXCEPT !.age = Older(@)]
    BY DEF Aged
  <2>3. QED
    BY <2>1, <2>2 DEF Row
<1>2. DOMAIN Aged(table) = DOMAIN table
  BY DEF Aged
<1>3. QED
  BY <1>1, <1>2 DEF Backed

\* synchronize says completed only where it has found a run.
LEMMA SyncedCompleted ==
  ASSUME TypeOK, NEW p \in DOMAIN packages, compatible_run(p) = {}
  PROVE  SyncedRow(p).state # "completed"
<1> DEFINE row == IF p \in DOMAIN rows THEN rows[p] ELSE NewRow(p)
           state == classify(packages[p])
<1>1. row \in Row
  BY NewRowType DEF TypeOK
<1>2. state # "completed"
  BY DEF classify
<1> HIDE DEF row, state
<1>3. CASE row.state \in Kept /\ state = "eligible"
  <2>1. SyncedRow(p) = Interrupted(row)
    BY <1>3 DEF SyncedRow, row, state
  <2>2. Interrupted(row).state # "completed"
    BY <1>1, <1>3 DEF Interrupted, Kept, Row
  <2>3. QED
    BY <2>1, <2>2
<1>4. CASE ~(row.state \in Kept /\ state = "eligible")
  <2>1. SyncedRow(p) = [row EXCEPT !.state = state, !.run = 0, !.artifact = None]
    BY <1>4 DEF SyncedRow, row, state
  <2>2. SyncedRow(p).state = state
    BY <1>1, <2>1 DEF Row
  <2>3. QED
    BY <1>2, <2>2
<1>5. QED
  BY <1>3, <1>4

\* The run it then names is one that it has found.
LEMMA SyncedRun ==
  ASSUME TypeOK, NEW p \in DOMAIN packages, compatible_run(p) # {}
  PROVE  \E n \in compatible_run(p) :
           SyncedRow(p).run = n /\ SyncedRow(p).artifact = {runs[n].artifact}
<1> DEFINE row == IF p \in DOMAIN rows THEN rows[p] ELSE NewRow(p)
           n == CHOOSE m \in compatible_run(p) : TRUE
<1>1. row \in Row
  BY NewRowType DEF TypeOK
<1> HIDE DEF row
<1>2. n \in compatible_run(p)
  OBVIOUS
<1>3. SyncedRow(p) = [row EXCEPT !.state = "completed", !.run = n,
                                 !.artifact = {runs[n].artifact}]
  BY DEF SyncedRow, row
<1> HIDE DEF n
<1>4. SyncedRow(p).run = n /\ SyncedRow(p).artifact = {runs[n].artifact}
  BY <1>1, <1>3 DEF Row
<1>5. QED
  BY <1>2, <1>4

LEMMA SyncedRowBacked ==
  ASSUME TypeOK, NEW p \in DOMAIN packages, SyncedRow(p).state = "completed"
  PROVE  /\ SyncedRow(p).run \in DOMAIN runs
         /\ SyncedRow(p).artifact = {runs[SyncedRow(p).run].artifact}
<1>1. PICK n \in compatible_run(p) :
        SyncedRow(p).run = n /\ SyncedRow(p).artifact = {runs[n].artifact}
  BY SyncedCompleted, SyncedRun
<1>2. n \in DOMAIN runs
  BY DEF compatible_run, Latest
<1>3. QED
  BY <1>1, <1>2

\* A row that is not completed needs no run.
LEMMA BackedUpdate ==
  ASSUME TypeOK, BackedInv, NEW p \in DOMAIN rows, NEW r,
         rows' = [rows EXCEPT ![p] = r], UNCHANGED <<runs, backup>>,
         r.state = "completed" =>
           r.run \in DOMAIN runs /\ r.artifact = {runs[r.run].artifact}
  PROVE  BackedInv'
BY DEF TypeOK, BackedInv, Backed

LEMMA SchedulerBacked ==
  ASSUME TypeInv, BackedInv, NEW s \in Schedulers, SchedulerStep(s)
  PROVE  BackedInv'
<1>0. TypeOK
  BY DEF TypeInv
<1>1. CASE Synchronize(s)
  BY <1>0, <1>1, SyncedRowBacked DEF Synchronize, BackedInv, Backed
<1>2. CASE Claim(s)
  <2>1. PICK p \in First(candidates) : set_running(p)
    BY <1>2 DEF Claim
  <2> DEFINE r == [rows[p] EXCEPT !.state = "running",
                     !.attempt = rows[p].attempt + 1, !.age = 0]
  <2>2. p \in DOMAIN rows /\ rows[p] \in Row
    BY <1>0 DEF First, candidates, TypeOK
  <2>3. r.state = "running"
    BY <2>2 DEF Row
  <2>4. rows' = [rows EXCEPT ![p] = r] /\ UNCHANGED <<runs, backup>>
    BY <1>2, <2>1 DEF Claim, set_running
  <2> HIDE DEF r
  <2>5. QED
    BY <1>0, <2>2, <2>3, <2>4, BackedUpdate
<1>3. CASE Leave(s)
  BY <1>3 DEF Leave, catalog, BackedInv, Backed
<1>4. CASE Record(s)
  <2> DEFINE p == scheduler[s].item
             result == Recorded(child[Mine(s)].result)
             r == [rows[p] EXCEPT !.state = result.state,
                     !.run = result.run, !.artifact = result.artifact]
  <2>1. UNCHANGED <<runs, backup>>
    BY <1>4 DEF Record
  <2>2. CASE p \notin DOMAIN rows
    BY <1>4, <2>1, <2>2 DEF Record, BackedInv, Backed
  <2>3. CASE p \in DOMAIN rows
    <3>1. rows[p] \in Row
      BY <1>0, <2>3 DEF TypeOK
    <3>2. result.state = "completed" =>
            /\ result.run \in DOMAIN runs
            /\ result.artifact = {runs[result.run].artifact}
      BY DEF Recorded, verify_run, Failure
    <3>3. rows' = [rows EXCEPT ![p] = r]
      BY <1>4, <2>3 DEF Record
    <3> HIDE DEF result
    <3>4. /\ r.state = result.state /\ r.run = result.run
          /\ r.artifact = result.artifact
      BY <3>1 DEF Row
    <3> HIDE DEF r, p
    <3>5. QED
      BY <1>0, <2>1, <2>3, <3>2, <3>3, <3>4, BackedUpdate
  <2>4. QED
    BY <2>2, <2>3
<1>5. QED
  BY <1>1, <1>2, <1>3, <1>4 DEF SchedulerStep

LEMMA ChildBacked ==
  ASSUME TypeInv, BackedInv, NEW c \in Children, ChildStep(c) \/ Fail(c)
  PROVE  BackedInv'
<1>1. CASE Commit(c)
  <2>1. runs \in Seq(Run) /\ UNCHANGED <<rows, backup>>
    BY <1>1 DEF Commit, TypeInv, TypeOK
  <2>2. PICK r : runs' = Append(runs, r)
    BY <1>1 DEF Commit
  <2>3. \A n \in DOMAIN runs : n \in DOMAIN runs' /\ runs'[n] = runs[n]
    BY <2>1, <2>2
  <2>4. QED
    BY <2>1, <2>3 DEF BackedInv, Backed
<1>2. CASE Resolve(c) \/ Acquire(c) \/ Reject(c) \/ Reuse(c) \/ Analyse(c)
           \/ Finish(c) \/ Fail(c)
  <2>1. UNCHANGED <<rows, runs, backup>>
    BY <1>2 DEF Resolve, Acquire, Reject, Reuse, Analyse, Finish, Fail, catalog
  <2>2. QED
    BY <2>1 DEF BackedInv, Backed
<1>3. QED
  BY <1>1, <1>2 DEF ChildStep

LEMMA StepBacked == TypeInv /\ BackedInv /\ [Next]_vars => BackedInv'
<1> SUFFICES ASSUME TypeInv, BackedInv, [Next]_vars PROVE BackedInv'
  OBVIOUS
<1>1. CASE \E s \in Schedulers : SchedulerStep(s)
  BY <1>1, SchedulerBacked
<1>2. CASE \E s \in Schedulers : Timeout(s) \/ Kill(s)
  BY <1>2 DEF Timeout, Kill, catalog, BackedInv, Backed
<1>3. CASE \E c \in Children : ChildStep(c) \/ Fail(c)
  BY <1>3, ChildBacked
<1>4. CASE \E d \in Declarations : Discover(d)
  BY <1>4 DEF Discover, BackedInv, Backed
<1>5. CASE Tick
  <2>1. rows \in Seq(Row) /\ rows' = Aged(rows) /\ runs' = runs
    BY <1>5 DEF Tick, TypeInv, TypeOK
  <2>2. Backed(rows', runs')
    BY <2>1, AgedBacked DEF BackedInv
  <2>3. ASSUME NEW i \in DOMAIN backup
        PROVE  Backed(Aged(backup[i].rows), backup[i].runs)
    <3>1. backup[i] \in Saved
      BY DEF TypeInv, TypeOK
    <3>2. backup[i].rows \in Seq(Row)
      BY <3>1 DEF Saved
    <3>3. QED
      BY <3>2, AgedBacked DEF BackedInv
  <2>4. QED
    BY <1>5, <2>2, <2>3, TickCopies DEF BackedInv
<1>6. CASE TakeBackup
  <2>1. /\ DOMAIN backup' = {1} /\ backup'[1].runs = runs
        /\ backup'[1].rows = rows /\ rows' = rows /\ runs' = runs
    BY <1>6 DEF TakeBackup, catalog
  <2>2. QED
    BY <2>1 DEF BackedInv, Backed
<1>7. CASE Restore
  <2>1. 1 \in DOMAIN backup
    BY <1>7 DEF Restore, TypeInv, TypeOK
  <2>2. QED
    BY <1>7, <2>1 DEF Restore, BackedInv, Backed
<1>8. CASE UNCHANGED vars
  BY <1>8 DEF vars, BackedInv, Backed
<1>9. QED
  BY <1>1, <1>2, <1>3, <1>4, <1>5, <1>6, <1>7, <1>8 DEF Next

\* A row says completed only for a run of the same catalog with the row's
\* digest, across restores between a child's commit and its record.
THEOREM CompletionsAreBacked == Spec => []CompletedIsBacked
<1>1. Init => BackedInv
  BY DEF Init, BackedInv, Backed
<1>2. BackedInv => CompletedIsBacked
  BY DEF BackedInv, Backed, CompletedIsBacked
<1>3. QED
  BY <1>1, <1>2, StepBacked, TypeInvariant, PTL DEF Spec

-----------------------------------------------------------------------------
(* Completed rows are about their own package                              *)

\* The look of a child at the catalog, from Resolve to Commit.
Bound == {"lock", "analyse", "work"}

\* A run, and a child that may make one, is about the package it names.
RunsAreOwn ==
  \A n \in DOMAIN runs :
    /\ runs[n].package \in DOMAIN packages
    /\ runs[n].artifact = Artifact[packages[runs[n].package]]

ChildIsOwn(k, list) ==
  /\ k.pc \in Bound =>
       k.package \in DOMAIN list /\ list[k.package] = k.declaration
  /\ k.pc \in {"print", "exited"} /\ k.result.state = "completed" =>
       k.result.artifact = {Artifact[k.declaration]}

RowIsOwn(row, p, list) ==
  row.state = "completed" => row.artifact = {Artifact[list[p]]}

\* A scheduler waits for a child on the package it has claimed.
AwaitsOwn(s) ==
  scheduler[s].pc = "await" =>
    /\ scheduler[s].item \in DOMAIN packages
    /\ child[Mine(s)].pc # "none" =>
         child[Mine(s)].declaration = packages[scheduler[s].item]

\* The inductive invariant behind CompletedIsOwn.
OwnInv ==
  /\ RunsAreOwn
  /\ \A c \in Children : ChildIsOwn(child[c], packages)
  /\ \A p \in DOMAIN rows : RowIsOwn(rows[p], p, packages)
  /\ \A s \in Schedulers : AwaitsOwn(s)

UntilRestore == restores = 0 => OwnInv

\* Packages only grow, until a restore.
LEMMA PackagesStay ==
  ASSUME TypeInv, NEW d \in Declarations, Discover(d)
  PROVE  \A p \in DOMAIN packages :
           p \in DOMAIN packages' /\ packages'[p] = packages[p]
<1>1. packages \in Seq(Declarations) /\ packages' = Append(packages, d)
  BY DEF Discover, TypeInv, TypeOK
<1>2. QED
  BY <1>1

\* One child changes, and is still about the same package.
LEMMA OwnOneChild ==
  ASSUME TypeInv, OwnInv, NEW c \in Children, NEW k,
         child' = [child EXCEPT ![c] = k], ChildIsOwn(k, packages),
         k.pc # "none" => child[c].pc # "none" /\ k.declaration = child[c].declaration,
         UNCHANGED <<packages, rows, runs, scheduler>>
  PROVE  OwnInv'
<1>1. \A b \in Children : child'[b] = IF b = c THEN k ELSE child[b]
  BY DEF TypeInv, TypeOK
<1>2. \A b \in Children : ChildIsOwn(child'[b], packages')
  BY <1>1 DEF OwnInv, ChildIsOwn
<1>3. \A s \in Schedulers : AwaitsOwn(s)'
  <2> SUFFICES ASSUME NEW s \in Schedulers PROVE AwaitsOwn(s)'
    OBVIOUS
  <2>1. Mine(s) \in Children /\ Mine(s)' = Mine(s)
    BY MineType DEF TypeInv, Mine
  <2>2. QED
    BY <1>1, <2>1 DEF OwnInv, AwaitsOwn
<1>4. QED
  BY <1>2, <1>3 DEF OwnInv, RunsAreOwn, RowIsOwn

LEMMA ExitOwn ==
  ASSUME TypeInv, OwnInv, NEW c \in Children, NEW result, Exit(c, result),
         child[c].pc # "none",
         result.state = "completed" =>
           result.artifact = {Artifact[child[c].declaration]},
         UNCHANGED <<packages, rows, runs, scheduler>>
  PROVE  OwnInv'
<1> DEFINE k == IF c = Mine(c[1])
                THEN [child[c] EXCEPT !.pc = "exited", !.result = result]
                ELSE NoChild
<1>1. child[c] \in Child
  BY DEF TypeInv, TypeOK
<1>2. /\ ChildIsOwn(k, packages)
      /\ k.pc # "none" => k.declaration = child[c].declaration
  <2>1. CASE c = Mine(c[1])
    <3>1. /\ k.pc = "exited" /\ k.result = result
          /\ k.declaration = child[c].declaration
      BY <1>1, <2>1 DEF Child
    <3> HIDE DEF k
    <3>2. QED
      BY <3>1 DEF ChildIsOwn, Bound
  <2>2. CASE c # Mine(c[1])
    BY <2>2 DEF NoChild, ChildIsOwn, Bound
  <2>3. QED
    BY <2>1, <2>2
<1>3. child' = [child EXCEPT ![c] = k]
  BY DEF Exit
<1> HIDE DEF k
<1>4. QED
  BY <1>2, <1>3, OwnOneChild

LEMMA ReportOwn ==
  ASSUME TypeInv, NEW c \in Children, NEW n, Report(c, n)
  PROVE  \E k : /\ child' = [child EXCEPT ![c] = k] /\ k.pc = "print"
                /\ ChildIsOwn(k, packages) /\ k.declaration = child[c].declaration
<1> DEFINE r == [state |-> "completed", run |-> n,
                 artifact |-> {Artifact[child[c].declaration]}]
           k == [child[c] EXCEPT !.pc = "print", !.result = r]
<1>1. child[c] \in Child
  BY DEF TypeInv, TypeOK
<1>2. k.pc = "print" /\ k.result = r /\ k.declaration = child[c].declaration
  BY <1>1 DEF Child
<1>3. child' = [child EXCEPT ![c] = k]
  BY DEF Report
<1>4. r.artifact = {Artifact[child[c].declaration]}
  OBVIOUS
<1> HIDE DEF k, r
<1>5. ChildIsOwn(k, packages)
  BY <1>2, <1>4 DEF ChildIsOwn, Bound
<1>6. QED
  BY <1>2, <1>3, <1>5

\* A later step of the same look.
LEMMA MovesOwn ==
  ASSUME TypeInv, OwnInv, NEW c \in Children, NEW pc \in Bound,
         child[c].pc \in Bound, child' = [child EXCEPT ![c].pc = pc]
  PROVE  \E k : /\ child' = [child EXCEPT ![c] = k] /\ k.pc # "none"
                /\ ChildIsOwn(k, packages) /\ k.declaration = child[c].declaration
<1> DEFINE k == [child[c] EXCEPT !.pc = pc]
<1>1. child[c] \in Child
  BY DEF TypeInv, TypeOK
<1>2. /\ k.pc = pc /\ k.declaration = child[c].declaration
      /\ k.package = child[c].package
  BY <1>1 DEF Child
<1>3. child' = [child EXCEPT ![c] = k]
  OBVIOUS
<1> HIDE DEF k
<1>4. ChildIsOwn(k, packages)
  BY <1>2 DEF OwnInv, ChildIsOwn, Bound
<1>5. QED
  BY <1>2, <1>3, <1>4 DEF Bound

\* The run of another package that synchronize accepts for a row is the one
\* the row records, so it is of the row's own artifact.
LEMMA CompatibleIsOwn ==
  ASSUME TypeInv, OwnInv, NEW p \in DOMAIN packages, NEW n \in compatible_run(p)
  PROVE  n \in DOMAIN runs /\ runs[n].artifact = Artifact[packages[p]]
<1>1. CASE n \in DOMAIN runs /\ runs[n].package = p
  BY <1>1 DEF OwnInv, RunsAreOwn
<1>2. CASE /\ n \in DOMAIN runs /\ p \in DOMAIN rows
           /\ rows[p].state = "completed"
           /\ rows[p].artifact = {runs[n].artifact}
  BY <1>2 DEF OwnInv, RowIsOwn
<1>3. QED
  BY <1>1, <1>2 DEF compatible_run, Latest

LEMMA SyncedRowOwn ==
  ASSUME TypeInv, OwnInv, NEW p \in DOMAIN packages
  PROVE  RowIsOwn(SyncedRow(p), p, packages)
<1>1. CASE compatible_run(p) # {}
  BY <1>1, SyncedRun, CompatibleIsOwn DEF RowIsOwn, TypeInv
<1>2. CASE compatible_run(p) = {}
  BY <1>2, SyncedCompleted DEF RowIsOwn, TypeInv
<1>3. QED
  BY <1>1, <1>2

\* One row changes, and stays about its package.
LEMMA OwnOneRow ==
  ASSUME TypeInv, OwnInv, NEW p \in DOMAIN rows, NEW r,
         rows' = [rows EXCEPT ![p] = r], RowIsOwn(r, p, packages),
         UNCHANGED packages
  PROVE  \A q \in DOMAIN rows' : RowIsOwn(rows'[q], q, packages')
BY DEF TypeInv, TypeOK, OwnInv, RowIsOwn

LEMMA ClaimOwn ==
  ASSUME TypeInv, OwnInv, NEW s \in Schedulers, Claim(s) PROVE OwnInv'
<1>1. PICK p \in First(candidates) :
        /\ set_running(p)
        /\ scheduler' = [scheduler EXCEPT ![s] =
             [@ EXCEPT !.pc = "await", !.item = p]]
        /\ child' = [child EXCEPT ![Mine(s)] =
             [NoChild EXCEPT !.pc = "resolve", !.declaration = packages[p]]]
  BY DEF Claim
<1> DEFINE r == [rows[p] EXCEPT !.state = "running",
                   !.attempt = rows[p].attempt + 1, !.age = 0]
           k == [NoChild EXCEPT !.pc = "resolve", !.declaration = packages[p]]
           e == [scheduler[s] EXCEPT !.pc = "await", !.item = p]
<1>2. p \in DOMAIN rows /\ p \in DOMAIN packages /\ rows[p] \in Row
  BY DEF First, candidates, TypeInv, TypeOK, Rowed
<1>3. r.state = "running" /\ rows' = [rows EXCEPT ![p] = r]
  BY <1>1, <1>2 DEF Row, set_running
<1>4. /\ k.pc = "resolve" /\ k.declaration = packages[p]
      /\ child' = [child EXCEPT ![Mine(s)] = k]
  BY <1>1 DEF NoChild
<1>5. scheduler[s] \in Scheduler
  BY DEF TypeInv, TypeOK
<1>6. /\ e.pc = "await" /\ e.item = p /\ e.life = scheduler[s].life
      /\ scheduler' = [scheduler EXCEPT ![s] = e]
  BY <1>1, <1>5 DEF Scheduler
<1>7. packages' = packages /\ runs' = runs
  BY DEF Claim
<1> HIDE DEF r, k, e
<1>8. \A q \in DOMAIN rows' : RowIsOwn(rows'[q], q, packages')
  BY <1>2, <1>3, <1>7, OwnOneRow DEF RowIsOwn
<1>9. \A t \in Schedulers : Mine(t)' = Mine(t) /\ Mine(t) \in Children
  BY <1>6, MineType DEF Mine, TypeInv, TypeOK
<1>10. \A c \in Children : child'[c] = IF c = Mine(s) THEN k ELSE child[c]
  BY <1>4 DEF TypeInv, TypeOK
<1>11. \A t \in Schedulers : scheduler'[t] = IF t = s THEN e ELSE scheduler[t]
  BY <1>6 DEF TypeInv, TypeOK
<1>12. \A t \in Schedulers : AwaitsOwn(t)'
  <2> SUFFICES ASSUME NEW t \in Schedulers PROVE AwaitsOwn(t)'
    OBVIOUS
  <2>1. CASE t = s
    BY <2>1, <1>2, <1>4, <1>6, <1>7, <1>9, <1>10, <1>11 DEF AwaitsOwn
  <2>2. CASE t # s
    <3>1. Mine(t) # Mine(s)
      BY <2>2 DEF Mine
    <3>2. QED
      BY <2>2, <3>1, <1>7, <1>9, <1>10, <1>11 DEF AwaitsOwn, OwnInv
  <2>3. QED
    BY <2>1, <2>2
<1>13. \A c \in Children : ChildIsOwn(child'[c], packages')
  BY <1>4, <1>7, <1>10 DEF OwnInv, ChildIsOwn, Bound
<1>14. RunsAreOwn'
  BY <1>7 DEF OwnInv, RunsAreOwn
<1>15. QED
  BY <1>8, <1>12, <1>13, <1>14 DEF OwnInv

\* Schedulers that do not claim: what they wait for goes or stays.
LEMMA SchedulersOwn ==
  ASSUME TypeInv, OwnInv, UNCHANGED <<packages, runs>>,
         \A c \in Children : child'[c] \in {child[c], NoChild},
         \A s \in Schedulers :
           scheduler'[s] = scheduler[s] \/ scheduler'[s].pc # "await",
         \A p \in DOMAIN rows' : RowIsOwn(rows'[p], p, packages')
  PROVE  OwnInv'
<1>1. \A c \in Children : ChildIsOwn(child'[c], packages')
  BY DEF OwnInv, ChildIsOwn, Bound, NoChild
<1>2. \A s \in Schedulers : AwaitsOwn(s)'
  <2> SUFFICES ASSUME NEW s \in Schedulers, scheduler'[s] = scheduler[s]
               PROVE  AwaitsOwn(s)'
    BY DEF AwaitsOwn
  <2>1. Mine(s)' = Mine(s) /\ Mine(s) \in Children
    BY MineType DEF Mine, TypeInv
  <2>2. QED
    BY <2>1 DEF OwnInv, AwaitsOwn, NoChild
<1>3. RunsAreOwn'
  BY DEF OwnInv, RunsAreOwn
<1>4. QED
  BY <1>1, <1>2, <1>3 DEF OwnInv

LEMMA RecordOwn ==
  ASSUME TypeInv, OwnInv, NEW s \in Schedulers, Record(s) PROVE OwnInv'
<1> DEFINE p == scheduler[s].item
           result == Recorded(child[Mine(s)].result)
           r == [rows[p] EXCEPT !.state = result.state,
                   !.run = result.run, !.artifact = result.artifact]
<1>1. /\ scheduler[s].pc = "await" /\ child[Mine(s)].pc = "exited"
      /\ packages' = packages /\ runs' = runs
      /\ Mine(s) \in Children
  BY MineType DEF Record, TypeInv
<1>2. p \in DOMAIN packages /\ child[Mine(s)].declaration = packages[p]
  BY <1>1 DEF OwnInv, AwaitsOwn
<1>3. result.state = "completed" => result.artifact = {Artifact[packages[p]]}
  <2>1. result.state = "completed" => result = child[Mine(s)].result
    BY DEF Recorded, Failure
  <2>2. QED
    BY <1>1, <1>2, <2>1 DEF OwnInv, ChildIsOwn
<1>4. \A q \in DOMAIN rows' : RowIsOwn(rows'[q], q, packages')
  <2>1. CASE p \notin DOMAIN rows
    BY <2>1, <1>1 DEF Record, OwnInv, RowIsOwn
  <2>2. CASE p \in DOMAIN rows
    <3>1. rows[p] \in Row
      BY <2>2 DEF TypeInv, TypeOK
    <3>2. rows' = [rows EXCEPT ![p] = r]
      BY <2>2 DEF Record
    <3> HIDE DEF result
    <3>3. r.state = result.state /\ r.artifact = result.artifact
      BY <3>1 DEF Row
    <3> HIDE DEF r, p
    <3>4. RowIsOwn(r, p, packages)
      BY <3>3, <1>3 DEF RowIsOwn
    <3>5. QED
      BY <2>2, <3>2, <3>4, <1>1, OwnOneRow
  <2>3. QED
    BY <2>1, <2>2
<1>5. \A c \in Children : child'[c] \in {child[c], NoChild}
  BY DEF Record, TypeInv, TypeOK
<1>6. \A t \in Schedulers :
        scheduler'[t] = scheduler[t] \/ scheduler'[t].pc # "await"
  <2>1. scheduler[s] \in Scheduler
    BY DEF TypeInv, TypeOK
  <2>2. QED
    BY <2>1 DEF Record, TypeInv, TypeOK, Scheduler
<1> HIDE DEF p, result, r
<1>7. QED
  BY <1>1, <1>4, <1>5, <1>6, SchedulersOwn

LEMMA KillOwn ==
  ASSUME TypeInv, OwnInv, NEW s \in Schedulers, Kill(s) PROVE OwnInv'
<1>1. UNCHANGED <<packages, rows, runs>>
  BY DEF Kill, catalog
<1>2. \A c \in Children : child'[c] \in {child[c], NoChild}
  BY DEF Kill, TypeInv, TypeOK
<1>3. \A t \in Schedulers :
        scheduler'[t] = scheduler[t] \/ scheduler'[t].pc # "await"
  BY DEF Kill, TypeInv, TypeOK
<1>4. QED
  BY <1>1, <1>2, <1>3, SchedulersOwn DEF OwnInv, RowIsOwn

LEMMA SchedulerOwn ==
  ASSUME TypeInv, OwnInv, NEW s \in Schedulers,
         SchedulerStep(s) \/ Timeout(s) \/ Kill(s)
  PROVE  OwnInv'
<1>0. scheduler[s] \in Scheduler /\ Mine(s) \in Children
  BY MineType DEF TypeInv, TypeOK
<1>1. CASE Synchronize(s)
  <2>1. \A p \in DOMAIN rows' : RowIsOwn(rows'[p], p, packages')
    <3>1. /\ rows' = [p \in DOMAIN packages |-> SyncedRow(p)]
          /\ packages' = packages
      BY <1>1 DEF Synchronize
    <3>2. QED
      BY <3>1, SyncedRowOwn DEF RowIsOwn
  <2>2. \A t \in Schedulers :
          scheduler'[t] = scheduler[t] \/ scheduler'[t].pc # "await"
    BY <1>0, <1>1 DEF Synchronize, TypeInv, TypeOK, Scheduler
  <2>3. UNCHANGED <<packages, runs, child>>
    BY <1>1 DEF Synchronize
  <2>4. QED
    BY <2>1, <2>2, <2>3, SchedulersOwn
<1>2. CASE Claim(s)
  BY <1>2, ClaimOwn
<1>3. CASE Leave(s)
  <2>1. \A t \in Schedulers :
          scheduler'[t] = scheduler[t] \/ scheduler'[t].pc # "await"
    BY <1>0, <1>3 DEF Leave, TypeInv, TypeOK, Scheduler
  <2>2. UNCHANGED <<packages, rows, runs, child>>
    BY <1>3 DEF Leave, catalog
  <2>3. QED
    BY <2>1, <2>2, SchedulersOwn DEF OwnInv, RowIsOwn
<1>4. CASE Record(s)
  BY <1>4, RecordOwn
<1>5. CASE Timeout(s)
  BY <1>0, <1>5, ExitOwn DEF Timeout, catalog, Working, Failure
<1>6. CASE Kill(s)
  BY <1>6, KillOwn
<1>7. QED
  BY <1>1, <1>2, <1>3, <1>4, <1>5, <1>6 DEF SchedulerStep

LEMMA CommitOwn ==
  ASSUME TypeInv, OwnInv, NEW c \in Children, Commit(c) PROVE OwnInv'
<1> DEFINE r == [package |-> child[c].package,
                 artifact |-> Artifact[child[c].declaration]]
<1>1. /\ child[c].pc = "work" /\ UNCHANGED <<packages, rows, scheduler>>
      /\ runs' = Append(runs, r)
  BY DEF Commit
<1>2. /\ r.package \in DOMAIN packages
      /\ r.artifact = Artifact[packages[r.package]]
  BY <1>1 DEF OwnInv, ChildIsOwn, Bound
<1>3. runs \in Seq(Run)
  BY DEF TypeInv, TypeOK
<1> HIDE DEF r
<1>4. RunsAreOwn'
  <2>1. \A n \in DOMAIN runs' :
          runs'[n] = r \/ (n \in DOMAIN runs /\ runs'[n] = runs[n])
    BY <1>1, <1>3
  <2>2. QED
    BY <1>1, <1>2, <2>1 DEF OwnInv, RunsAreOwn
<1>5. PICK k : /\ child' = [child EXCEPT ![c] = k] /\ k.pc = "print"
               /\ ChildIsOwn(k, packages) /\ k.declaration = child[c].declaration
  BY ReportOwn DEF Commit
<1>6. \A b \in Children : child'[b] = IF b = c THEN k ELSE child[b]
  BY <1>5 DEF TypeInv, TypeOK
<1>7. \A b \in Children : ChildIsOwn(child'[b], packages')
  BY <1>1, <1>5, <1>6 DEF OwnInv, ChildIsOwn
<1>8. \A s \in Schedulers : AwaitsOwn(s)'
  <2> SUFFICES ASSUME NEW s \in Schedulers PROVE AwaitsOwn(s)'
    OBVIOUS
  <2>1. Mine(s) \in Children /\ Mine(s)' = Mine(s)
    BY <1>1, MineType DEF TypeInv, Mine
  <2>2. QED
    BY <1>1, <1>5, <1>6, <2>1 DEF OwnInv, AwaitsOwn
<1>9. QED
  BY <1>1, <1>4, <1>7, <1>8 DEF OwnInv, RowIsOwn

LEMMA ResolveOwn ==
  ASSUME TypeInv, OwnInv, NEW c \in Children, Resolve(c) PROVE OwnInv'
<1> DEFINE ids == {p \in DOMAIN packages : packages[p] = child[c].declaration}
           n == CHOOSE p \in ids : TRUE
           k == [child[c] EXCEPT !.pc = "lock", !.package = n]
<1>1. /\ UNCHANGED <<packages, rows, runs, scheduler>>
      /\ child[c].pc = "resolve" /\ child[c] \in Child
  BY DEF Resolve, catalog, TypeInv, TypeOK
<1>2. CASE Exit(c, Failure("unresolvable")) \/ Exit(c, Failure("unsupported"))
  BY <1>1, <1>2, ExitOwn DEF Failure
<1>3. CASE ids # {} /\ child' = [child EXCEPT ![c] = k]
  <2>1. n \in ids
    BY <1>3
  <2> HIDE DEF n
  <2>2. k.pc = "lock" /\ k.package = n /\ k.declaration = child[c].declaration
    BY <1>1 DEF Child
  <2> HIDE DEF k
  <2>3. ChildIsOwn(k, packages)
    BY <2>1, <2>2 DEF ChildIsOwn
  <2>4. QED
    BY <1>1, <1>3, <2>2, <2>3, OwnOneChild
<1>4. QED
  BY <1>2, <1>3 DEF Resolve

LEMMA ChildOwn ==
  ASSUME TypeInv, OwnInv, NEW c \in Children, ChildStep(c) \/ Fail(c)
  PROVE  OwnInv'
<1>1. CASE Resolve(c)
  BY <1>1, ResolveOwn
<1>2. CASE Acquire(c) \/ Analyse(c)
  <2>1. /\ child[c].pc \in Bound
        /\ UNCHANGED <<packages, rows, runs, scheduler>>
        /\ \E pc \in Bound : child' = [child EXCEPT ![c].pc = pc]
    BY <1>2 DEF Acquire, Analyse, catalog, Bound
  <2>2. PICK k : /\ child' = [child EXCEPT ![c] = k] /\ k.pc # "none"
                 /\ ChildIsOwn(k, packages) /\ k.declaration = child[c].declaration
    BY <2>1, MovesOwn
  <2>3. QED
    BY <2>1, <2>2, OwnOneChild DEF Bound
<1>3. CASE Reject(c)
  BY <1>3, ExitOwn DEF Reject, catalog, Failure
<1>4. CASE Reuse(c)
  <2>1. /\ child[c].pc = "analyse"
        /\ UNCHANGED <<packages, rows, runs, scheduler>>
    BY <1>4 DEF Reuse, catalog
  <2>2. PICK n : Report(c, n)
    BY <1>4 DEF Reuse
  <2>3. PICK k : /\ child' = [child EXCEPT ![c] = k] /\ k.pc = "print"
                 /\ ChildIsOwn(k, packages) /\ k.declaration = child[c].declaration
    BY <2>2, ReportOwn
  <2>4. QED
    BY <2>1, <2>3, OwnOneChild
<1>5. CASE Commit(c)
  BY <1>5, CommitOwn
<1>6. CASE Finish(c)
  BY <1>6, ExitOwn DEF Finish, catalog, OwnInv, ChildIsOwn
<1>7. CASE Fail(c)
  BY <1>7, ExitOwn DEF Fail, catalog, Failure
<1>8. QED
  BY <1>1, <1>2, <1>3, <1>4, <1>5, <1>6, <1>7 DEF ChildStep

LEMMA DiscoverOwn ==
  ASSUME TypeInv, OwnInv, NEW d \in Declarations, Discover(d) PROVE OwnInv'
<1>1. UNCHANGED <<rows, runs, child, scheduler>>
  BY DEF Discover
<1>2. \A p \in DOMAIN packages :
        p \in DOMAIN packages' /\ packages'[p] = packages[p]
  BY PackagesStay
<1>3. \A p \in DOMAIN rows : p \in DOMAIN packages
  BY DEF TypeInv, TypeOK, Rowed
<1>4. RunsAreOwn' /\ \A p \in DOMAIN rows' : RowIsOwn(rows'[p], p, packages')
  BY <1>1, <1>2, <1>3 DEF OwnInv, RunsAreOwn, RowIsOwn
<1>5. \A c \in Children : ChildIsOwn(child'[c], packages')
  BY <1>1, <1>2 DEF OwnInv, ChildIsOwn
<1>6. \A s \in Schedulers : AwaitsOwn(s)'
  BY <1>1, <1>2 DEF OwnInv, AwaitsOwn, Mine
<1>7. QED
  BY <1>4, <1>5, <1>6 DEF OwnInv

\* What time does to rows and children.
LEMMA TickAges ==
  ASSUME TypeInv, Tick
  PROVE  /\ DOMAIN rows' = DOMAIN rows
         /\ \A p \in DOMAIN rows : /\ rows'[p].state = rows[p].state
                                   /\ rows'[p].artifact = rows[p].artifact
                                   /\ rows'[p].age = Older(rows[p].age)
         /\ \A c \in Children : /\ child'[c].pc = child[c].pc
                                /\ child'[c].declaration = child[c].declaration
                                /\ child'[c].package = child[c].package
                                /\ child'[c].result = child[c].result
                                /\ child[c].pc # "none" =>
                                     child'[c].age = Older(child[c].age)
<1>1. \A p \in DOMAIN rows : rows[p] \in Row
  BY DEF TypeInv, TypeOK
<1>2. rows' = [p \in DOMAIN rows |-> [rows[p] EXCEPT !.age = Older(@)]]
  BY DEF Tick, Aged
<1>3. \A c \in Children : child[c] \in Child
  BY DEF TypeInv, TypeOK
<1>4. \A c \in Children : child'[c] = IF child[c].pc = "none" THEN child[c]
                            ELSE [child[c] EXCEPT !.age = Older(@)]
  BY DEF Tick
<1>5. \A p \in DOMAIN rows : /\ rows'[p].state = rows[p].state
                             /\ rows'[p].artifact = rows[p].artifact
                             /\ rows'[p].age = Older(rows[p].age)
  BY <1>1, <1>2 DEF Row
<1>6. QED
  BY <1>2, <1>3, <1>4, <1>5 DEF Child

LEMMA TickOwn == ASSUME TypeInv, OwnInv, Tick PROVE OwnInv'
<1>1. UNCHANGED <<packages, runs, scheduler>>
  BY DEF Tick
<1>2. RunsAreOwn' /\ \A p \in DOMAIN rows' : RowIsOwn(rows'[p], p, packages')
  BY <1>1, TickAges DEF OwnInv, RunsAreOwn, RowIsOwn
<1>3. \A c \in Children : ChildIsOwn(child'[c], packages')
  BY <1>1, TickAges DEF OwnInv, ChildIsOwn
<1>4. \A s \in Schedulers : AwaitsOwn(s)'
  <2> SUFFICES ASSUME NEW s \in Schedulers PROVE AwaitsOwn(s)'
    OBVIOUS
  <2>1. Mine(s) \in Children /\ Mine(s)' = Mine(s)
    BY <1>1, MineType DEF TypeInv, Mine
  <2>2. QED
    BY <1>1, <2>1, TickAges DEF OwnInv, AwaitsOwn
<1>5. QED
  BY <1>2, <1>3, <1>4 DEF OwnInv

\* Without a restore now there was none before.
LEMMA RestoresStay ==
  ASSUME TypeInv, [Next]_vars, restores' = 0 PROVE ~Restore /\ restores = 0
<1>1. ~Restore
  BY BoundsAssumption DEF Restore, TypeInv, TypeOK
<1>2. restores' = restores
  BY <1>1 DEF Next, SchedulerStep, ChildStep, Synchronize, Claim, Leave, Record,
     Timeout, Kill, Resolve, Acquire, Reject, Reuse, Analyse, Commit, Finish,
     Fail, Discover, Tick, TakeBackup, vars
<1>3. QED
  BY <1>1, <1>2

LEMMA StepOwn == TypeInv /\ UntilRestore /\ [Next]_vars => UntilRestore'
<1> SUFFICES ASSUME TypeInv, UntilRestore, [Next]_vars, restores' = 0
             PROVE  OwnInv'
  BY DEF UntilRestore
<1>0. ~Restore
  BY RestoresStay
<1>2. OwnInv
  BY RestoresStay DEF UntilRestore
<1>3. CASE \E s \in Schedulers : SchedulerStep(s) \/ Timeout(s) \/ Kill(s)
  BY <1>2, <1>3, SchedulerOwn
<1>4. CASE \E c \in Children : ChildStep(c) \/ Fail(c)
  BY <1>2, <1>4, ChildOwn
<1>5. CASE \E d \in Declarations : Discover(d)
  BY <1>2, <1>5, DiscoverOwn
<1>6. CASE Tick
  BY <1>2, <1>6, TickOwn
<1>7. CASE TakeBackup \/ UNCHANGED vars
  <2>1. UNCHANGED <<packages, rows, runs, child, scheduler>>
    BY <1>7 DEF TakeBackup, catalog, vars
  <2>2. QED
    BY <1>2, <2>1
    DEF OwnInv, RunsAreOwn, ChildIsOwn, RowIsOwn, AwaitsOwn, Mine
<1>8. QED
  BY <1>0, <1>3, <1>4, <1>5, <1>6, <1>7 DEF Next

\* Until a restore gives ids out again, a completed row gives the digest of
\* its own package, whoever made the run it names and whoever recorded it.
THEOREM CompletionsAreOwn == Spec => [](restores = 0 => CompletedIsOwn)
<1>1. Init => UntilRestore
  BY DEF Init, UntilRestore, OwnInv, RunsAreOwn, ChildIsOwn, Bound, NoChild,
     AwaitsOwn
<1>2. UntilRestore => (restores = 0 => CompletedIsOwn)
  BY DEF UntilRestore, OwnInv, RowIsOwn, CompletedIsOwn
<1>3. QED
  BY <1>1, <1>2, StepOwn, TypeInvariant, PTL DEF Spec

-----------------------------------------------------------------------------
(* Two children on one package                                             *)

\* A package has one record.
Distinct ==
  \A p, q \in DOMAIN packages : packages[p] = packages[q] => p = q

\* The row of a child's package was stamped when the child was started, or
\* later for another.
Stamped(c) ==
  child[c].pc # "none" =>
    \E p \in DOMAIN rows : /\ packages[p] = child[c].declaration
                           /\ rows[p].age <= child[c].age

Apart(b, c) ==
  /\ child[b].pc # "none" /\ child[c].pc # "none"
  /\ child[b].declaration = child[c].declaration
  => child[b].age >= StaleAfter \/ child[c].age >= StaleAfter

\* The inductive invariant behind ClaimIsExclusive, until a restore: the time
\* of the last attempt is never set back, so that a row that is due again
\* has only old children.
ClaimInv ==
  /\ Distinct
  /\ \A c \in Children : Stamped(c)
  /\ \A b, c \in Children : b # c => Apart(b, c)

ClaimsUntilRestore == restores = 0 => ClaimInv

LEMMA OlderGrows ==
  ASSUME NEW a \in 0 .. Oldest, NEW b \in 0 .. Oldest, a <= b
  PROVE  Older(a) <= Older(b)
BY OldestType DEF Older

LEMMA OlderStaysStale ==
  ASSUME NEW a \in 0 .. Oldest, a >= StaleAfter PROVE Older(a) >= StaleAfter
BY LimitsAssumption DEF Older, Oldest

\* Children only go, and rows keep their age.
LEMMA ClaimsKept ==
  ASSUME TypeInv, ClaimInv,
         \A c \in Children :
           \/ child'[c].pc = "none"
           \/ /\ child[c].pc # "none"
              /\ child'[c].declaration = child[c].declaration
              /\ child'[c].age = child[c].age,
         \A p \in DOMAIN rows : /\ p \in DOMAIN rows'
                                /\ rows'[p].age = rows[p].age,
         UNCHANGED packages
  PROVE  ClaimInv'
<1>1. Distinct'
  BY DEF ClaimInv, Distinct
<1>2. \A c \in Children : Stamped(c)'
  <2> SUFFICES ASSUME NEW c \in Children, child'[c].pc # "none"
               PROVE  \E p \in DOMAIN rows' :
                        /\ packages'[p] = child'[c].declaration
                        /\ rows'[p].age <= child'[c].age
    BY DEF Stamped
  <2>1. PICK p \in DOMAIN rows : /\ packages[p] = child[c].declaration
                                 /\ rows[p].age <= child[c].age
    BY DEF ClaimInv, Stamped
  <2>2. QED
    BY <2>1
<1>3. \A b, c \in Children : b # c => Apart(b, c)'
  BY DEF ClaimInv, Apart
<1>4. QED
  BY <1>1, <1>2, <1>3 DEF ClaimInv

\* A child goes on, with the package and the time of its claim.
LEMMA ChildClaims ==
  ASSUME TypeInv, ClaimInv, NEW c \in Children, NEW k,
         child' = [child EXCEPT ![c] = k],
         \/ k.pc = "none"
         \/ /\ child[c].pc # "none" /\ k.age = child[c].age
            /\ k.declaration = child[c].declaration,
         UNCHANGED <<packages, rows>>
  PROVE  ClaimInv'
<1>1. \A b \in Children : child'[b] = IF b = c THEN k ELSE child[b]
  BY DEF TypeInv, TypeOK
<1>2. QED
  BY <1>1, ClaimsKept

LEMMA ExitClaims ==
  ASSUME TypeInv, ClaimInv, NEW c \in Children, NEW result, Exit(c, result),
         child[c].pc # "none", UNCHANGED <<packages, rows>>
  PROVE  ClaimInv'
<1> DEFINE k == IF c = Mine(c[1])
                THEN [child[c] EXCEPT !.pc = "exited", !.result = result]
                ELSE NoChild
<1>1. child[c] \in Child
  BY DEF TypeInv, TypeOK
<1>2. \/ k.pc = "none"
      \/ k.age = child[c].age /\ k.declaration = child[c].declaration
  BY <1>1 DEF Child, NoChild
<1>3. child' = [child EXCEPT ![c] = k]
  BY DEF Exit
<1> HIDE DEF k
<1>4. QED
  BY <1>2, <1>3, ChildClaims

\* Every other step of a child.
LEMMA AdvanceClaims ==
  ASSUME TypeInv, ClaimInv, NEW c \in Children, child[c].pc # "none",
         NEW k, \E x, y : \/ k = [child[c] EXCEPT !.pc = x]
                          \/ k = [child[c] EXCEPT !.pc = x, !.package = y]
                          \/ k = [child[c] EXCEPT !.pc = x, !.result = y],
         child' = [child EXCEPT ![c] = k], UNCHANGED <<packages, rows>>
  PROVE  ClaimInv'
<1>1. child[c] \in Child
  BY DEF TypeInv, TypeOK
<1>2. k.age = child[c].age /\ k.declaration = child[c].declaration
  BY <1>1 DEF Child
<1>3. QED
  BY <1>2, ChildClaims

LEMMA ChildStepClaims ==
  ASSUME TypeInv, ClaimInv, NEW c \in Children, ChildStep(c) \/ Fail(c)
  PROVE  ClaimInv'
<1>0. UNCHANGED <<packages, rows>> /\ child[c].pc # "none"
  BY DEF ChildStep, Resolve, Acquire, Reject, Reuse, Analyse, Commit, Finish,
         Fail, catalog
<1>1. CASE \E result : Exit(c, result)
  BY <1>0, <1>1, ExitClaims
<1>2. CASE \E x : child' = [child EXCEPT ![c].pc = x]
  BY <1>0, <1>2, AdvanceClaims
<1>3. CASE \E x, y : child' = [child EXCEPT ![c] =
                                 [@ EXCEPT !.pc = x, !.package = y]]
  BY <1>0, <1>3, AdvanceClaims
<1>4. CASE \E n : Report(c, n)
  BY <1>0, <1>4, AdvanceClaims DEF Report
<1>5. QED
  <2>1. CASE Resolve(c)
    BY <2>1, <1>1, <1>3 DEF Resolve
  <2>2. CASE Acquire(c) \/ Analyse(c)
    BY <2>2, <1>2 DEF Acquire, Analyse
  <2>3. CASE Reject(c) \/ Finish(c) \/ Fail(c)
    BY <2>3, <1>1 DEF Reject, Finish, Fail
  <2>4. CASE Reuse(c) \/ Commit(c)
    BY <2>4, <1>4 DEF Reuse, Commit
  <2>5. QED
    BY <2>1, <2>2, <2>3, <2>4 DEF ChildStep

LEMMA SyncedRowAge ==
  ASSUME TypeInv, NEW p \in DOMAIN rows
  PROVE  p \in DOMAIN packages /\ SyncedRow(p).age = rows[p].age
<1> DEFINE row == rows[p]
           state == classify(packages[p])
           n == CHOOSE m \in compatible_run(p) : TRUE
<1>1. p \in DOMAIN packages /\ row \in Row
  BY DEF TypeInv, TypeOK, Rowed
<1> HIDE DEF row
<1>2. Interrupted(row).age = row.age
  BY <1>1 DEF Interrupted, Row
<1>3. SyncedRow(p) \in {Interrupted(row),
        [row EXCEPT !.state = "completed", !.run = n,
                    !.artifact = {runs[n].artifact}],
        [row EXCEPT !.state = state, !.run = 0, !.artifact = None]}
  BY Zenon DEF SyncedRow, row
<1> HIDE DEF n, state
<1>4. SyncedRow(p).age = row.age
  BY <1>1, <1>2, <1>3 DEF Row
<1>5. QED
  BY <1>1, <1>4 DEF row

\* A claim restarts the age of its row and starts a child of that age. The
\* other children of the package are as old as the row was.
LEMMA ClaimClaims ==
  ASSUME RetryAfter >= StaleAfter, TypeInv, ClaimInv,
         NEW s \in Schedulers, Claim(s)
  PROVE  ClaimInv'
<1>1. PICK p \in First(candidates) :
        /\ set_running(p)
        /\ child' = [child EXCEPT ![Mine(s)] =
             [NoChild EXCEPT !.pc = "resolve", !.declaration = packages[p]]]
  BY DEF Claim
<1> DEFINE r == [rows[p] EXCEPT !.state = "running",
                   !.attempt = rows[p].attempt + 1, !.age = 0]
           k == [NoChild EXCEPT !.pc = "resolve", !.declaration = packages[p]]
<1>2. p \in DOMAIN rows /\ p \in DOMAIN packages /\ rows[p] \in Row /\ Due(rows[p])
  BY DEF First, candidates, TypeInv, TypeOK, Rowed
<1>3. r.age = 0 /\ rows' = [rows EXCEPT ![p] = r]
  BY <1>1, <1>2 DEF Row, set_running
<1>4. /\ k.pc = "resolve" /\ k.declaration = packages[p] /\ k.age = 0
      /\ child' = [child EXCEPT ![Mine(s)] = k]
  BY <1>1 DEF NoChild
<1>5. packages' = packages /\ Mine(s) \in Children
  BY MineType DEF Claim, TypeInv
<1> HIDE DEF r, k
<1>6. \A c \in Children : child'[c] = IF c = Mine(s) THEN k ELSE child[c]
  BY <1>4 DEF TypeInv, TypeOK
<1>7. /\ DOMAIN rows' = DOMAIN rows
      /\ \A q \in DOMAIN rows : rows'[q] = IF q = p THEN r ELSE rows[q]
  BY <1>3 DEF TypeInv, TypeOK
<1>8. \A c \in Children : child[c].age \in 0 .. Oldest
  BY DEF TypeInv, TypeOK, Child
<1>9. \A c \in Children :
        child[c].pc # "none" /\ child[c].declaration = packages[p] =>
          child[c].age >= StaleAfter
  <2> SUFFICES ASSUME NEW c \in Children, child[c].pc # "none",
                      child[c].declaration = packages[p]
               PROVE  child[c].age >= StaleAfter
    OBVIOUS
  <2>1. PICK q \in DOMAIN rows : /\ packages[q] = child[c].declaration
                                 /\ rows[q].age <= child[c].age
    BY DEF ClaimInv, Stamped
  <2>2. q = p
    <3>1. q \in DOMAIN packages
      BY DEF TypeInv, TypeOK, Rowed
    <3>2. QED
      BY <1>2, <2>1, <3>1 DEF ClaimInv, Distinct
  <2>3. rows[p].age >= RetryAfter /\ rows[p].age \in 0 .. Oldest
    BY <1>2 DEF Due, Row
  <2>4. QED
    BY <1>8, <2>1, <2>2, <2>3, OldestType, LimitsAssumption
<1>10. Distinct'
  BY <1>5 DEF ClaimInv, Distinct
<1>11. \A c \in Children : Stamped(c)'
  <2> SUFFICES ASSUME NEW c \in Children, child'[c].pc # "none"
               PROVE  \E q \in DOMAIN rows' :
                        /\ packages'[q] = child'[c].declaration
                        /\ rows'[q].age <= child'[c].age
    BY DEF Stamped
  <2>1. CASE c = Mine(s)
    BY <2>1, <1>2, <1>3, <1>4, <1>5, <1>6, <1>7
  <2>2. CASE c # Mine(s)
    <3>1. PICK q \in DOMAIN rows : /\ packages[q] = child[c].declaration
                                   /\ rows[q].age <= child[c].age
      BY <2>2, <1>6 DEF ClaimInv, Stamped
    <3>2. rows'[q].age <= child[c].age
      BY <3>1, <1>3, <1>7, <1>8, OldestType
    <3>3. QED
      BY <2>2, <3>1, <3>2, <1>5, <1>6, <1>7
  <2>3. QED
    BY <2>1, <2>2
<1>12. \A b, c \in Children : b # c => Apart(b, c)'
  BY <1>4, <1>6, <1>9 DEF ClaimInv, Apart
<1>13. QED
  BY <1>10, <1>11, <1>12 DEF ClaimInv

LEMMA SchedulerClaims ==
  ASSUME RetryAfter >= StaleAfter, TypeInv, ClaimInv, NEW s \in Schedulers,
         SchedulerStep(s) \/ Timeout(s) \/ Kill(s)
  PROVE  ClaimInv'
<1>0. Mine(s) \in Children
  BY MineType DEF TypeInv
<1>1. CASE Synchronize(s)
  <2>1. /\ rows' = [p \in DOMAIN packages |-> SyncedRow(p)]
        /\ packages' = packages /\ child' = child
    BY <1>1 DEF Synchronize
  <2>2. \A p \in DOMAIN rows : /\ p \in DOMAIN rows'
                               /\ rows'[p].age = rows[p].age
    BY <2>1, SyncedRowAge
  <2>3. QED
    BY <2>1, <2>2, ClaimsKept
<1>2. CASE Claim(s)
  BY <1>2, ClaimClaims
<1>3. CASE Leave(s)
  BY <1>3, ClaimsKept DEF Leave, catalog
<1>4. CASE Record(s)
  <2> DEFINE p == scheduler[s].item
             result == Recorded(child[Mine(s)].result)
             r == [rows[p] EXCEPT !.state = result.state,
                     !.run = result.run, !.artifact = result.artifact]
  <2>1. \A q \in DOMAIN rows : /\ q \in DOMAIN rows'
                               /\ rows'[q].age = rows[q].age
    <3>1. CASE p \notin DOMAIN rows
      BY <1>4, <3>1 DEF Record
    <3>2. CASE p \in DOMAIN rows
      <4>1. rows[p] \in Row
        BY <3>2 DEF TypeInv, TypeOK
      <4>2. rows' = [rows EXCEPT ![p] = r]
        BY <1>4, <3>2 DEF Record
      <4> HIDE DEF result
      <4>3. r.age = rows[p].age
        BY <4>1 DEF Row
      <4> HIDE DEF r, p
      <4>4. QED
        BY <4>2, <4>3
    <3>3. QED
      BY <3>1, <3>2
  <2>2. \A c \in Children : child'[c] = child[c] \/ child'[c].pc = "none"
    BY <1>4 DEF Record, TypeInv, TypeOK, NoChild
  <2>3. packages' = packages
    BY <1>4 DEF Record
  <2> HIDE DEF p, result, r
  <2>4. QED
    BY <2>1, <2>2, <2>3, ClaimsKept
<1>5. CASE Timeout(s)
  BY <1>0, <1>5, ExitClaims DEF Timeout, catalog, Working
<1>6. CASE Kill(s)
  <2>1. UNCHANGED <<packages, rows>>
    BY <1>6 DEF Kill, catalog
  <2>2. \A c \in Children : child'[c] = child[c] \/ child'[c].pc = "none"
    BY <1>6 DEF Kill, TypeInv, TypeOK, NoChild
  <2>3. QED
    BY <2>1, <2>2, ClaimsKept
<1>7. QED
  BY <1>1, <1>2, <1>3, <1>4, <1>5, <1>6 DEF SchedulerStep

LEMMA DiscoverClaims ==
  ASSUME TypeInv, ClaimInv, NEW d \in Declarations, Discover(d)
  PROVE  ClaimInv'
<1>1. UNCHANGED <<rows, child>> /\ \A p \in DOMAIN packages : packages[p] # d
  BY DEF Discover
<1>2. packages \in Seq(Declarations) /\ packages' = Append(packages, d)
  BY DEF Discover, TypeInv, TypeOK
<1>3. /\ \A p \in DOMAIN packages :
           p \in DOMAIN packages' /\ packages'[p] = packages[p]
      /\ \A p \in DOMAIN packages' :
           p \notin DOMAIN packages => p = Len(packages) + 1 /\ packages'[p] = d
  BY <1>2
<1>4. Distinct'
  BY <1>1, <1>3 DEF ClaimInv, Distinct
<1>5. \A p \in DOMAIN rows : p \in DOMAIN packages
  BY DEF TypeInv, TypeOK, Rowed
<1>6. \A c \in Children : Stamped(c)'
  BY <1>1, <1>3, <1>5 DEF ClaimInv, Stamped
<1>7. \A b, c \in Children : b # c => Apart(b, c)'
  BY <1>1 DEF ClaimInv, Apart
<1>8. QED
  BY <1>4, <1>6, <1>7 DEF ClaimInv

LEMMA TickClaims == ASSUME TypeInv, ClaimInv, Tick PROVE ClaimInv'
<1>1. packages' = packages
  BY DEF Tick
<1>2. /\ \A p \in DOMAIN rows : rows[p].age \in 0 .. Oldest
      /\ \A c \in Children : child[c].age \in 0 .. Oldest
  <2>1. \A p \in DOMAIN rows : rows[p] \in Row
    BY DEF TypeInv, TypeOK
  <2>2. \A c \in Children : child[c] \in Child
    BY DEF TypeInv, TypeOK
  <2>3. QED
    BY <2>1, <2>2 DEF Row, Child
<1>3. Distinct'
  BY <1>1 DEF ClaimInv, Distinct
<1>4. \A c \in Children : Stamped(c)'
  <2> SUFFICES ASSUME NEW c \in Children, child'[c].pc # "none"
               PROVE  \E p \in DOMAIN rows' :
                        /\ packages'[p] = child'[c].declaration
                        /\ rows'[p].age <= child'[c].age
    BY DEF Stamped
  <2>1. PICK p \in DOMAIN rows : /\ packages[p] = child[c].declaration
                                 /\ rows[p].age <= child[c].age
    BY TickAges DEF ClaimInv, Stamped
  <2>2. Older(rows[p].age) <= Older(child[c].age)
    BY <1>2, <2>1, OlderGrows
  <2>3. QED
    BY <1>1, <2>1, <2>2, TickAges
<1>5. \A b, c \in Children : b # c => Apart(b, c)'
  <2> SUFFICES ASSUME NEW b \in Children, NEW c \in Children, b # c,
                      child'[b].pc # "none", child'[c].pc # "none",
                      child'[b].declaration = child'[c].declaration
               PROVE  child'[b].age >= StaleAfter \/ child'[c].age >= StaleAfter
    BY DEF Apart
  <2>1. child[b].age >= StaleAfter \/ child[c].age >= StaleAfter
    BY TickAges DEF ClaimInv, Apart
  <2>2. QED
    BY <1>2, <2>1, OlderStaysStale, TickAges
<1>6. QED
  BY <1>3, <1>4, <1>5 DEF ClaimInv

LEMMA StepClaims ==
  ASSUME RetryAfter >= StaleAfter
  PROVE  TypeInv /\ ClaimsUntilRestore /\ [Next]_vars => ClaimsUntilRestore'
<1> SUFFICES ASSUME TypeInv, ClaimsUntilRestore, [Next]_vars, restores' = 0
             PROVE  ClaimInv'
  BY DEF ClaimsUntilRestore
<1>0. ~Restore /\ ClaimInv
  BY RestoresStay DEF ClaimsUntilRestore
<1>1. CASE \E s \in Schedulers : SchedulerStep(s) \/ Timeout(s) \/ Kill(s)
  BY <1>0, <1>1, SchedulerClaims
<1>2. CASE \E c \in Children : ChildStep(c) \/ Fail(c)
  BY <1>0, <1>2, ChildStepClaims
<1>3. CASE \E d \in Declarations : Discover(d)
  BY <1>0, <1>3, DiscoverClaims
<1>4. CASE Tick
  BY <1>0, <1>4, TickClaims
<1>5. CASE TakeBackup \/ UNCHANGED vars
  <2>1. UNCHANGED <<packages, rows, child>>
    BY <1>5 DEF TakeBackup, catalog, vars
  <2>2. QED
    BY <1>0, <2>1 DEF ClaimInv, Distinct, Stamped, Apart
<1>6. QED
  BY <1>0, <1>1, <1>2, <1>3, <1>4, <1>5 DEF Next

\* Where a failed package waits at least as long as a claim may be young, as
\* by default, two children meet on one package only if the claim of one is
\* stale, whatever synchronize, late results and restarts do.
THEOREM ClaimsAreExclusive ==
  ASSUME RetryAfter >= StaleAfter PROVE Spec => []ClaimIsExclusive
<1>1. Init => ClaimsUntilRestore
  BY DEF Init, ClaimsUntilRestore, ClaimInv, Distinct, Stamped, Apart, NoChild
<1>2. ClaimsUntilRestore => ClaimIsExclusive
  BY DEF ClaimsUntilRestore, ClaimInv, Apart, ClaimIsExclusive
<1>3. QED
  BY <1>1, <1>2, StepClaims, TypeInvariant, PTL DEF Spec

=============================================================================
