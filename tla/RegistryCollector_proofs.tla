---------------------- MODULE RegistryCollector_proofs ----------------------
(***************************************************************************)
(* Theorems about RegistryCollector, for every number of processes, every  *)
(* set of pages and every limit.                                           *)
(***************************************************************************)
EXTENDS RegistryCollector, FiniteSetTheorems, TLAPS

ResumeStages == {"resume_source", "check_reconstruct", "reconstruct_state",
                 "reconstruct_history", "digest_reconstructed",
                 "reconstruct_head", "read_head", "read_pages", "match_head",
                 "read_history", "copy_pages"}

PageStages == {"validate", "store_page", "store_history", "digest_stored",
               "store_head"}

\* What a process's memory holds when it is at a stage.
StageAt(r, stage) ==
    /\ stage # "idle" => r.dir # 0
    /\ stage \in ResumeStages => r.source # None
    /\ stage \in PageStages => r.page # None
    /\ Len(r.chain) <= MaxPages
    /\ stage \in PageStages \cup {"request", "await", "backoff"} =>
          Len(r.chain) < MaxPages

StageOK(r) == StageAt(r, r.pc)

\* Running processes own different directories, and these exist.
Owned ==
    \A p \in Procs : run[p].pc # "idle" =>
        /\ disk[run[p].dir] # None
        /\ \A q \in Procs \ {p} : run[q].pc # "idle" => run[q].dir # run[p].dir

\* The inductive invariant: types, the stages' obligations and ownership.
Inv ==
    /\ TypeOK
    /\ \A p \in Procs : StageOK(run[p])
    /\ Owned

-----------------------------------------------------------------------------
(* Values.                                                                 *)

\* The stages of a run, name by name.
LEMMA StageNames ==
  /\ "idle" \in Stages /\ "initialize_history" \in Stages
  /\ "initialize_head" \in Stages /\ "resume_source" \in Stages
  /\ "check_reconstruct" \in Stages /\ "reconstruct_state" \in Stages
  /\ "reconstruct_history" \in Stages /\ "reconstruct_head" \in Stages
  /\ "digest_reconstructed" \in Stages /\ "digest_adopted" \in Stages
  /\ "digest_stored" \in Stages
  /\ "read_head" \in Stages /\ "read_pages" \in Stages
  /\ "match_head" \in Stages /\ "read_history" \in Stages
  /\ "copy_pages" \in Stages /\ "adopt_history" \in Stages
  /\ "adopt_head" \in Stages /\ "next_page" \in Stages
  /\ "request" \in Stages /\ "await" \in Stages
  /\ "backoff" \in Stages /\ "validate" \in Stages
  /\ "store_page" \in Stages /\ "store_history" \in Stages
  /\ "store_head" \in Stages /\ "rollback" \in Stages
  /\ "canonicalize" \in Stages /\ "manifest" \in Stages
  /\ "self_check" \in Stages /\ "check_history" \in Stages
  /\ "mark_success" \in Stages
  /\ "promote" \in Stages /\ "diagnose" \in Stages
BY DEF Stages

\* No record and no function is the value that stands for "absent".
LEMMA PagesType ==
    ASSUME NEW raw \in [PageNumbers -> Bodies \cup {None}],
           NEW n \in 0..(MaxPages + 1)
    PROVE  /\ Pages(raw, n) \in Seq(Bodies \cup {None})
           /\ Len(Pages(raw, n)) = n
           /\ (\A i \in 1..n : raw[i] # None) => Pages(raw, n) \in Seq(Bodies)
<1>1. \A i \in 1..n : i \in PageNumbers
  BY ConstantsAssumption DEF PageNumbers
<1>2. Pages(raw, n) \in [1..n -> Bodies \cup {None}]
  BY <1>1 DEF Pages
<1>3. (\A i \in 1..n : raw[i] # None) => Pages(raw, n) \in [1..n -> Bodies]
  BY <1>1 DEF Pages
<1>4. QED
  BY <1>2, <1>3, ConstantsAssumption

\* The durable head of a chain and a history is a checkpoint.
LEMMA HeadType ==
    ASSUME NEW version \in {2, 3}, NEW chain \in Seq(Bodies),
           NEW history \in Seq(Line), NEW mode \in Modes
    PROVE  DurableHead(version, chain, history, mode) \in Checkpoint
<1>1. chain # <<>> => Len(chain) \in Nat /\ chain[Len(chain)] \in Bodies
  OBVIOUS
<1>2. Next_(chain) \in Cursor
  BY <1>1, ConstantsAssumption DEF Next_, Cursor, Body
<1>3. QED
  BY <1>1, <1>2 DEF DurableHead, Checkpoint

\* The rebuilt history of a chain is a page history.
LEMMA LegacyHistoryType ==
    ASSUME NEW chain \in Seq(Bodies)
    PROVE  LegacyHistory(chain) \in Seq(Line)
<1>1. \A i \in DOMAIN chain : i > 1 => i - 1 \in DOMAIN chain
  OBVIOUS
<1>2. \A i \in DOMAIN chain : chain[i] \in Bodies /\ chain[i].next \in Cursor
  BY ConstantsAssumption DEF Body
<1>3. None \in Cursor /\ Full \in Modes
  BY ConstantsAssumption DEF Cursor
<1>4. \A i \in DOMAIN chain : LegacyHistory(chain)[i] \in Line
  BY <1>1, <1>2, <1>3 DEF LegacyHistory, Line
<1>5. LegacyHistory(chain) \in [1..Len(chain) -> Line]
  BY <1>4 DEF LegacyHistory
<1>6. QED
  BY <1>5

\* Appending the fetched page's line to the history gives a history.
LEMMA CandidateType ==
    ASSUME NEW p \in Procs, run[p] \in Run, run[p].page # None
    PROVE  Candidate(p) \in Seq(Line)
<1>1. /\ run[p].history \in Seq(Line) /\ run[p].chain \in Seq(Bodies)
      /\ run[p].page \in Bodies /\ run[p].mode \in Modes
  BY DEF Run
<1>2. run[p].page.next \in Cursor
  BY <1>1, ConstantsAssumption DEF Body
<1>3. Next_(run[p].chain) \in Cursor
  BY <1>1, ConstantsAssumption DEF Next_, Cursor, Body
<1>4. QED
  BY <1>1, <1>2, <1>3 DEF Candidate, Line

-----------------------------------------------------------------------------
(* Steps.  Every step of a running process but the promotion keeps to the  *)
(* process's own directory, up to the history and the head it gives a      *)
(* source that it found without a checkpoint.                              *)

\* The history rebuilt for the source is written, whatever the source is now.
Rebuilds(p, e, new) ==
    /\ run[p].pc = "reconstruct_history"
    /\ run[p].source = e
    /\ new = [disk[e] EXCEPT !.history = LegacyHistory(run[p].chain)]

Progress(p) ==
    /\ run[p].pc # "idle"
    /\ run' = [run EXCEPT ![p] = run'[p]]
    /\ run'[p] \in Run
    /\ StageOK(run'[p])
    /\ run'[p].pc # "idle" => run'[p].dir = run[p].dir
    /\ output' = output
    /\ disk' \in [Dirs -> Directory \cup {None}]
    /\ \A e \in Dirs : disk[e] # None => disk'[e] # None
    /\ \A e \in Dirs : e # run[p].dir /\ HasHead(e) =>
          disk'[e] = disk[e] \/ Rebuilds(p, e, disk'[e])

\* A step that may replace a file of the process's own directory, or of one
\* without a head, or the history of the source.
LEMMA WriteStep ==
    ASSUME Inv, NEW p \in Procs, run[p].pc # "idle",
           NEW e \in Dirs, NEW new \in Directory,
           e = run[p].dir \/ ~HasHead(e) \/ Rebuilds(p, e, new),
           disk' \in {disk, [disk EXCEPT ![e] = new]}, output' = output,
           run' = [run EXCEPT ![p] = run'[p]], run'[p] \in Run,
           StageOK(run'[p]), run'[p].pc # "idle" => run'[p].dir = run[p].dir
    PROVE  Progress(p)
<1>1. disk \in [Dirs -> Directory \cup {None}]
  BY DEF Inv, TypeOK
<1>2. disk' \in [Dirs -> Directory \cup {None}]
  BY <1>1
<1>3. \A d \in Dirs : disk[d] # None => disk'[d] # None
  BY <1>1, AbsentAssumption
<1>4. ASSUME NEW d \in Dirs, d # run[p].dir, HasHead(d)
      PROVE  disk'[d] = disk[d] \/ Rebuilds(p, d, disk'[d])
  <2>1. disk'[d] = disk[d] \/ (d = e /\ disk'[d] = new)
    BY <1>1
  <2>2. QED
    BY <1>4, <2>1
<1>5. QED
  BY <1>2, <1>3, <1>4 DEF Progress

\* A step that replaces a file by Replace.
LEMMA ReplaceStep ==
    ASSUME Inv, NEW p \in Procs, run[p].pc # "idle",
           NEW e \in Dirs, NEW new \in Directory,
           e = run[p].dir \/ ~HasHead(e) \/ Rebuilds(p, e, new),
           NEW next \in Stages, NEW onFail \in Stages,
           StageAt(run[p], next), StageAt(run[p], onFail),
           Replace(p, e, new, next, onFail)
    PROVE  Progress(p)
<1>1. run[p] \in Run
  BY DEF Inv, TypeOK
<1>2. PICK stage \in {next, onFail} : run' = [run EXCEPT ![p].pc = stage]
  BY DEF Replace, Goto
<1>3. /\ run'[p] = [run[p] EXCEPT !.pc = stage]
      /\ run' = [run EXCEPT ![p] = run'[p]]
  BY <1>2 DEF Inv, TypeOK
<1>4. run'[p] \in Run /\ run'[p].dir = run[p].dir
  <2>1. stage \in Stages
    BY <1>2
  <2>2. QED
    BY <1>1, <1>3, <2>1 DEF Run
<1>5. StageOK(run'[p])
  BY <1>1, <1>2, <1>3 DEF StageOK, StageAt, Run
<1>6. disk' \in {disk, [disk EXCEPT ![e] = new]} /\ output' = output
  BY DEF Replace
<1>7. QED
  BY <1>3, <1>4, <1>5, <1>6, WriteStep

\* A step that only changes the process's memory.
LEMMA MemoryOnly ==
    ASSUME Inv, NEW p \in Procs, run[p].pc # "idle",
           run' = [run EXCEPT ![p] = run'[p]], run'[p] \in Run,
           StageOK(run'[p]), run'[p].pc # "idle" => run'[p].dir = run[p].dir,
           UNCHANGED <<disk, output>>
    PROVE  Progress(p)
BY DEF Progress, Inv, TypeOK

\* A step that only changes the process's stage.
LEMMA StageOnly ==
    ASSUME Inv, NEW p \in Procs, run[p].pc # "idle", NEW stage \in Stages,
           StageAt(run[p], stage), Goto(p, stage), UNCHANGED <<disk, output>>
    PROVE  Progress(p)
<1>1. run[p] \in Run
  BY DEF Inv, TypeOK
<1>2. /\ run'[p] = [run[p] EXCEPT !.pc = stage]
      /\ run' = [run EXCEPT ![p] = run'[p]]
  BY DEF Inv, TypeOK, Goto
<1>3. run'[p] \in Run /\ run'[p].dir = run[p].dir
  BY <1>1, <1>2 DEF Run
<1>4. StageOK(run'[p])
  BY <1>1, <1>2 DEF StageOK, StageAt, Run
<1>5. QED
  BY <1>2, <1>3, <1>4, MemoryOnly

\* A running process may always fail.
LEMMA FailStep ==
    ASSUME Inv, NEW p \in Procs, run[p].pc # "idle", FailUnchanged(p)
    PROVE  Progress(p)
<1>1. StageAt(run[p], "diagnose") /\ "diagnose" \in Stages
  BY DEF Inv, StageOK, StageAt, ResumeStages, PageStages, Stages
<1>2. QED
  BY <1>1, StageOnly DEF FailUnchanged, Fail, Goto

\* A running process may go to a stage that asks nothing of its memory.
Unconditional == Stages \ (ResumeStages \cup PageStages
                              \cup {"request", "await", "backoff"})

LEMMA StageChange ==
    ASSUME Inv, NEW p \in Procs, run[p].pc # "idle"
    PROVE  /\ \A stage \in Unconditional : stage \in Stages /\ StageAt(run[p], stage)
           /\ run[p].source # None =>
                 \A stage \in ResumeStages :
                   stage \in Stages /\ StageAt(run[p], stage)
           /\ run[p].pc \in PageStages =>
                 \A stage \in PageStages :
                   stage \in Stages /\ StageAt(run[p], stage)
BY DEF Inv, StageOK, StageAt, Unconditional, ResumeStages, PageStages, Stages

LEMMA UnconditionalStages ==
    {"initialize_history", "initialize_head",
     "adopt_history", "digest_adopted", "adopt_head", "next_page", "rollback", "canonicalize",
     "manifest", "self_check", "check_history", "mark_success", "promote",
     "diagnose"}
        \subseteq Unconditional
BY DEF Unconditional, ResumeStages, PageStages, Stages

\* A running process's directory exists.
LEMMA OwnDirectory ==
    ASSUME Inv, NEW p \in Procs, run[p].pc # "idle"
    PROVE  Own(p) \in Directory /\ run[p].dir \in Dirs
BY DEF Inv, TypeOK, Owned, Own, Run

-----------------------------------------------------------------------------
(* One lemma per group of actions.                                         *)

\* Creating the empty history and the head of no pages.
LEMMA InitializeSteps ==
    ASSUME Inv, NEW p \in Procs, InitializeHistory(p) \/ InitializeHead(p)
    PROVE  Progress(p)
<1>0. run[p] \in Run /\ run[p].pc # "idle"
  BY DEF Inv, TypeOK, InitializeHistory, InitializeHead
<1>1. CASE InitializeHistory(p)
  <2> DEFINE new == [Own(p) EXCEPT !.history = <<>>]
  <2>0. Own(p) \in Directory /\ <<>> \in Seq(Line)
    BY <1>0, OwnDirectory
  <2>1. new \in Directory
    BY <2>0 DEF Directory
  <2>2. Replace(p, run[p].dir, new, "initialize_head", "diagnose")
    BY <1>1 DEF InitializeHistory
  <2> HIDE DEF new
  <2>3. QED
    BY <1>0, <2>1, <2>2, OwnDirectory, StageChange, UnconditionalStages,
       ReplaceStep
<1>2. CASE InitializeHead(p)
  <2> DEFINE head == DurableHead(3, <<>>, <<>>, run[p].mode)
             new == [Own(p) EXCEPT !.ckpt = head]
             next == IF run[p].source = None THEN "next_page" ELSE "resume_source"
  <2>0. <<>> \in Seq(Bodies) /\ <<>> \in Seq(Line) /\ Own(p) \in Directory
    BY <1>0, OwnDirectory
  <2>1. head \in Checkpoint
    BY <1>0, <2>0, HeadType DEF Run
  <2>2. new \in Directory
    BY <2>0, <2>1 DEF Directory
  <2>3. Replace(p, run[p].dir, new, next, "diagnose")
    BY <1>2 DEF InitializeHead
  <2>4. StageAt(run[p], next) /\ next \in Stages
    BY <1>0, StageChange, UnconditionalStages DEF ResumeStages
  <2> HIDE DEF new, next
  <2>5. QED
    BY <1>0, <2>2, <2>3, <2>4, OwnDirectory, StageChange,
       UnconditionalStages, ReplaceStep
<1>3. QED
  BY <1>1, <1>2

\* Steps of the resume that only read the source.
LEMMA ReadSteps ==
    ASSUME Inv, NEW p \in Procs,
           \/ ResumeSource(p) \/ CheckReconstruct(p) \/ ReadHead(p)
           \/ MatchHead(p) \/ ReadHistory(p)
    PROVE  Progress(p)
<1> USE DEF StageAt, ResumeStages, PageStages, Stages
<1>0. run[p] \in Run /\ StageOK(run[p]) /\ run \in [Procs -> Run]
  BY DEF Inv, TypeOK
<1>1. CASE ResumeSource(p)
  <2>1. CASE Fail(p)
    BY <1>1, <2>1, FailStep DEF ResumeSource, FailUnchanged
  <2>2. CASE ~Fail(p)
    <3>1. PICK stage \in {"check_reconstruct", "read_head"} : Goto(p, stage)
      BY <1>1, <2>2 DEF ResumeSource
    <3>2. QED
      BY <1>0, <1>1, <3>1, StageOnly DEF ResumeSource, StageOK
  <2>3. QED
    BY <2>1, <2>2
<1>2. CASE ReadHead(p)
  <2>1. CASE Fail(p)
    BY <1>2, <2>1, FailStep DEF ReadHead, FailUnchanged
  <2>2. CASE ~Fail(p)
    <3>1. Source(p).ckpt \in Checkpoint
      BY <1>0, <1>2, <2>2 DEF ReadHead, Inv, TypeOK, Source, Directory, Run,
         StageOK
    <3>2. Source(p).ckpt.pages \in Nat
      BY <3>1 DEF Checkpoint
    <3>3. run' = [run EXCEPT ![p].pc = "read_pages",
                            ![p].head = Source(p).ckpt.pages]
      BY <1>2, <2>2 DEF ReadHead
    <3>4. run'[p] = [run[p] EXCEPT !.pc = "read_pages",
                                   !.head = Source(p).ckpt.pages]
          /\ run' = [run EXCEPT ![p] = run'[p]]
      BY <1>0, <3>3
    <3>5. run'[p] \in Run /\ run'[p].dir = run[p].dir
      <4>1. run'[p] \in Run
        BY <1>0, <3>2, <3>4, StageNames DEF Run
      <4>2. run'[p].dir = run[p].dir
        BY <1>0, <3>4 DEF Run
      <4>3. QED
        BY <4>1, <4>2
    <3>6. StageOK(run'[p])
      BY <1>0, <1>2, <3>4 DEF StageOK, Run, ReadHead
    <3>7. QED
      BY <1>2, <3>4, <3>5, <3>6, MemoryOnly DEF ReadHead
  <2>3. QED
    BY <2>1, <2>2
<1>3. CASE MatchHead(p)
  <2>1. CASE Fail(p)
    BY <1>3, <2>1, FailStep DEF MatchHead, FailUnchanged
  <2>2. CASE Goto(p, "read_history")
    BY <1>0, <1>3, <2>2, StageOnly DEF MatchHead, StageOK
  <2>3. QED
    BY <1>3, <2>1, <2>2 DEF MatchHead
<1>4. CASE ReadHistory(p)
  <2>1. CASE Fail(p)
    BY <1>4, <2>1, FailStep DEF ReadHistory, FailUnchanged
  <2>2. CASE ~Fail(p)
    <3>1. Source(p).history \in Seq(Line)
      BY <1>0, <1>4, <2>2 DEF ReadHistory, Inv, TypeOK, Source, Directory, Run,
         StageOK
    <3>2. run' = [run EXCEPT ![p].pc = "copy_pages",
                            ![p].history = Source(p).history]
      BY <1>4, <2>2 DEF ReadHistory
    <3>3. run'[p] = [run[p] EXCEPT !.pc = "copy_pages",
                                   !.history = Source(p).history]
          /\ run' = [run EXCEPT ![p] = run'[p]]
      BY <1>0, <3>2
    <3>4. run'[p] \in Run /\ run'[p].dir = run[p].dir
      <4>1. run'[p] \in Run
        BY <1>0, <3>1, <3>3, StageNames DEF Run
      <4>2. run'[p].dir = run[p].dir
        BY <1>0, <3>3 DEF Run
      <4>3. QED
        BY <4>1, <4>2
    <3>5. StageOK(run'[p])
      BY <1>0, <1>4, <3>3 DEF StageOK, Run, ReadHistory
    <3>6. QED
      BY <1>4, <3>3, <3>4, <3>5, MemoryOnly DEF ReadHistory
  <2>3. QED
    BY <2>1, <2>2
<1>5. CASE CheckReconstruct(p)
  <2>1. CASE Fail(p)
    BY <1>5, <2>1, FailStep DEF CheckReconstruct, FailUnchanged
  <2>2. CASE Goto(p, "reconstruct_state")
    BY <1>0, <1>5, <2>2, StageOnly DEF CheckReconstruct, StageOK
  <2>3. QED
    BY <1>5, <2>1, <2>2 DEF CheckReconstruct
<1>6. QED
  BY <1>1, <1>2, <1>3, <1>4, <1>5

\* A history is read back for its digest.
LEMMA DigestStep ==
    ASSUME Inv, NEW p \in Procs, run[p].pc # "idle", NEW d \in Dirs,
           NEW next \in Stages, StageAt(run[p], next), Digest(p, d, next)
    PROVE  Progress(p)
<1>0. /\ run[p] \in Run /\ run \in [Procs -> Run]
      /\ disk \in [Dirs -> Directory \cup {None}]
  BY DEF Inv, TypeOK
<1>1. CASE Fail(p)
  BY <1>1, FailStep DEF Digest, FailUnchanged
<1>2. CASE ~Fail(p)
  <2>1. disk[d].history \in Seq(Line)
    BY <1>0, <1>2 DEF Digest, Directory
  <2>2. run' = [run EXCEPT ![p].pc = next, ![p].digest = disk[d].history]
    BY <1>2 DEF Digest
  <2>3. /\ run'[p] = [run[p] EXCEPT !.pc = next, !.digest = disk[d].history]
        /\ run' = [run EXCEPT ![p] = run'[p]]
    BY <1>0, <2>2
  <2>4. run'[p] \in Run /\ run'[p].dir = run[p].dir
    BY <1>0, <2>1, <2>3 DEF Run
  <2>5. StageOK(run'[p])
    BY <1>0, <2>3 DEF StageOK, StageAt, Run
  <2>6. QED
    BY <2>3, <2>4, <2>5, MemoryOnly DEF Digest
<1>3. QED
  BY <1>1, <1>2

\* The three places where that happens.
LEMMA DigestSteps ==
    ASSUME Inv, NEW p \in Procs,
           DigestReconstructed(p) \/ DigestAdopted(p) \/ DigestStored(p)
    PROVE  Progress(p)
<1>0. /\ run[p] \in Run /\ StageOK(run[p]) /\ run[p].pc # "idle"
  BY DEF Inv, TypeOK, DigestReconstructed, DigestAdopted, DigestStored
<1>1. CASE DigestReconstructed(p)
  <2>1. /\ run[p].source \in Dirs /\ StageAt(run[p], "reconstruct_head")
        /\ "reconstruct_head" \in Stages
    BY <1>0, <1>1 DEF DigestReconstructed, StageOK, StageAt, ResumeStages,
       PageStages, Stages, Run
  <2>2. QED
    BY <1>0, <1>1, <2>1, DigestStep DEF DigestReconstructed
<1>2. CASE DigestAdopted(p)
  <2>1. StageAt(run[p], "adopt_head") /\ "adopt_head" \in Stages
    BY <1>0, StageChange, UnconditionalStages
  <2>2. QED
    BY <1>0, <1>2, <2>1, OwnDirectory, DigestStep DEF DigestAdopted
<1>3. CASE DigestStored(p)
  <2>1. StageAt(run[p], "store_head") /\ "store_head" \in Stages
    BY <1>0, <1>3 DEF DigestStored, StageOK, StageAt, ResumeStages,
       PageStages, Stages
  <2>2. QED
    BY <1>0, <1>3, <2>1, OwnDirectory, DigestStep DEF DigestStored
<1>4. QED
  BY <1>1, <1>2, <1>3

\* What reconstruct_state accepts is a sequence of bodies within the limit.
LEMMA ReadableType ==
    ASSUME NEW raw \in [PageNumbers -> Bodies \cup {None}],
           NEW n \in Nat, NEW ns \in SUBSET RawPages(raw),
           Cardinality(ns) = n, Readable(raw, ns)
    PROVE  Pages(raw, n) \in Seq(Bodies) /\ Len(Pages(raw, n)) = n /\ n <= MaxPages
<1>1. ns = 1..n /\ n <= MaxPages
  BY DEF Readable
<1>2. \A i \in 1..n : raw[i] # None
  BY <1>1 DEF RawPages
<1>3. n \in 0..(MaxPages + 1)
  BY <1>1, ConstantsAssumption
<1>4. QED
  BY <1>1, <1>2, <1>3, PagesType

\* A directory has finitely many raw pages.
LEMMA CountRawPages ==
    ASSUME NEW raw PROVE Cardinality(RawPages(raw)) \in Nat
<1>1. IsFiniteSet(PageNumbers)
  BY ConstantsAssumption, FS_Interval DEF PageNumbers
<1>2. IsFiniteSet(RawPages(raw))
  BY <1>1, FS_Subset DEF RawPages
<1>3. QED
  BY <1>2, FS_CardinalityType

\* The source of a resume is a directory when it is there.
LEMMA SourceType ==
    ASSUME Inv, NEW p \in Procs, run[p].pc \in ResumeStages
    PROVE  /\ run[p].source \in Dirs
           /\ disk[run[p].source] # None => Source(p) \in Directory
BY DEF Inv, TypeOK, StageOK, StageAt, Source, Run

\* All the raw pages of the source are read.
LEMMA ReconstructStateStep ==
    ASSUME Inv, NEW p \in Procs, ReconstructState(p)
    PROVE  Progress(p)
<1>0. /\ run[p] \in Run /\ StageOK(run[p]) /\ run \in [Procs -> Run]
      /\ run[p].pc \in ResumeStages /\ run[p].pc # "idle"
      /\ run[p].source # None
  BY DEF Inv, TypeOK, StageOK, StageAt, ReconstructState, ResumeStages
<1>1. CASE Fail(p)
  BY <1>0, <1>1, FailStep DEF FailUnchanged, ReconstructState
<1>2. CASE ~Fail(p)
  <2> DEFINE raw == Source(p).raw
             n == Cardinality(RawPages(raw))
             chain == Pages(raw, n)
  <2>1. /\ disk[run[p].source] # None
        /\ Readable(raw, RawPages(raw))
        /\ run' = [run EXCEPT ![p].pc = "reconstruct_history",
                              ![p].chain = chain]
    BY <1>2 DEF ReconstructState
  <2>2. Source(p) \in Directory
    BY <1>0, <2>1, SourceType
  <2>3. raw \in [PageNumbers -> Bodies \cup {None}]
    BY <2>2 DEF Directory
  <2>4. chain \in Seq(Bodies) /\ Len(chain) <= MaxPages
    BY <2>1, <2>3, CountRawPages, ReadableType
  <2> HIDE DEF chain
  <2>5. /\ run'[p] = [run[p] EXCEPT !.pc = "reconstruct_history", !.chain = chain]
        /\ run' = [run EXCEPT ![p] = run'[p]]
    BY <1>0, <2>1
  <2>6. run'[p] \in Run /\ run'[p].dir = run[p].dir
    BY <1>0, <2>4, <2>5, StageNames DEF Run
  <2>7. StageOK(run'[p])
    BY <1>0, <2>4, <2>5 DEF StageOK, StageAt, Run, ResumeStages, PageStages
  <2>8. QED
    BY <1>0, <2>5, <2>6, <2>7, MemoryOnly DEF ReconstructState
<1>3. QED
  BY <1>1, <1>2

\* The rebuilt history is written into the source, whatever it holds by now.
LEMMA ReconstructHistoryStep ==
    ASSUME Inv, NEW p \in Procs, ReconstructHistory(p)
    PROVE  Progress(p)
<1>0. /\ run[p] \in Run /\ StageOK(run[p])
      /\ run[p].pc \in ResumeStages /\ run[p].pc # "idle"
      /\ run[p].source # None
  BY DEF Inv, TypeOK, StageOK, StageAt, ReconstructHistory, ResumeStages
<1>1. CASE FailUnchanged(p)
  BY <1>0, <1>1, FailStep
<1>2. CASE ~FailUnchanged(p)
  <2> DEFINE new == [Source(p) EXCEPT !.history = LegacyHistory(run[p].chain)]
  <2>1. /\ disk[run[p].source] # None
        /\ Replace(p, run[p].source, new, "digest_reconstructed", "diagnose")
    BY <1>2 DEF ReconstructHistory
  <2>2. Source(p) \in Directory /\ run[p].source \in Dirs
    BY <1>0, <2>1, SourceType
  <2>3. LegacyHistory(run[p].chain) \in Seq(Line)
    BY <1>0, LegacyHistoryType DEF Run
  <2>4. new \in Directory
    BY <2>2, <2>3 DEF Directory
  <2>5. Rebuilds(p, run[p].source, new)
    BY DEF Rebuilds, ReconstructHistory, Source
  <2> HIDE DEF new
  <2>6. "digest_reconstructed" \in ResumeStages
    BY DEF ResumeStages
  <2>7. QED
    BY <1>0, <2>1, <2>2, <2>4, <2>5, <2>6, StageChange, UnconditionalStages,
       ReplaceStep
<1>3. QED
  BY <1>1, <1>2

\* A legacy partial gets its head, and only when it has none.
LEMMA ReconstructHeadStep ==
    ASSUME Inv, NEW p \in Procs, ReconstructHead(p)
    PROVE  Progress(p)
<1>0. /\ run[p] \in Run /\ run[p].pc \in ResumeStages /\ run[p].pc # "idle"
      /\ run[p].source # None
  BY DEF Inv, TypeOK, StageOK, StageAt, ReconstructHead, ResumeStages
<1>1. CASE FailUnchanged(p)
  BY <1>0, <1>1, FailStep
<1>2. CASE ~FailUnchanged(p)
  <2> DEFINE head == DurableHead(2, run[p].chain, run[p].digest, Full)
             new == [Source(p) EXCEPT !.ckpt = head]
  <2>1. /\ disk[run[p].source] # None
        /\ Source(p).ckpt = None
        /\ Replace(p, run[p].source, new, "read_head", "diagnose")
    BY <1>2 DEF ReconstructHead
  <2>2. Source(p) \in Directory /\ run[p].source \in Dirs
    BY <1>0, <2>1, SourceType
  <2>3. run[p].digest \in Seq(Line) /\ run[p].chain \in Seq(Bodies)
    BY <1>0 DEF Run
  <2>4. head \in Checkpoint
    BY <2>3, HeadType, ConstantsAssumption
  <2>5. new \in Directory
    BY <2>2, <2>4 DEF Directory
  <2>6. ~HasHead(run[p].source)
    BY <2>1 DEF HasHead, Source
  <2> HIDE DEF new
  <2>7. "read_head" \in ResumeStages
    BY DEF ResumeStages
  <2>8. QED
    BY <1>0, <2>1, <2>2, <2>5, <2>6, <2>7, StageChange, UnconditionalStages,
       ReplaceStep
<1>3. QED
  BY <1>1, <1>2

\* The pages up to the head are read.
LEMMA ReadPagesStep ==
    ASSUME Inv, NEW p \in Procs, ReadPages(p)
    PROVE  Progress(p)
<1>0. /\ run[p] \in Run /\ StageOK(run[p]) /\ run \in [Procs -> Run]
      /\ run[p].pc \in ResumeStages /\ run[p].pc # "idle"
      /\ run[p].source # None
  BY DEF Inv, TypeOK, StageOK, StageAt, ReadPages, ResumeStages
<1>1. CASE Fail(p)
  BY <1>0, <1>1, FailStep DEF FailUnchanged, ReadPages
<1>2. CASE ~Fail(p)
  <2> DEFINE raw == Source(p).raw
             ns == {n \in RawPages(raw) : n <= run[p].head}
             chain == Pages(raw, run[p].head)
  <2>1. /\ disk[run[p].source] # None
        /\ Readable(raw, ns) /\ Cardinality(ns) = run[p].head
        /\ run' = [run EXCEPT ![p].pc = "match_head", ![p].chain = chain]
    BY <1>2 DEF ReadPages
  <2>2. Source(p) \in Directory
    BY <1>0, <2>1, SourceType
  <2>3. raw \in [PageNumbers -> Bodies \cup {None}] /\ run[p].head \in Nat
    BY <1>0, <2>2 DEF Directory, Run
  <2>4. chain \in Seq(Bodies) /\ Len(chain) <= MaxPages
    <3>1. ns \in SUBSET RawPages(raw)
      OBVIOUS
    <3> HIDE DEF ns
    <3>2. QED
      BY <2>1, <2>3, <3>1, ReadableType
  <2> HIDE DEF chain
  <2>5. /\ run'[p] = [run[p] EXCEPT !.pc = "match_head", !.chain = chain]
        /\ run' = [run EXCEPT ![p] = run'[p]]
    BY <1>0, <2>1
  <2>6. run'[p] \in Run /\ run'[p].dir = run[p].dir
    BY <1>0, <2>4, <2>5, StageNames DEF Run
  <2>7. StageOK(run'[p])
    BY <1>0, <2>4, <2>5 DEF StageOK, StageAt, Run, ResumeStages, PageStages
  <2>8. QED
    BY <1>0, <2>5, <2>6, <2>7, MemoryOnly DEF ReadPages
<1>3. QED
  BY <1>1, <1>2

\* A raw page is copied from the source.
LEMMA CopyPagesStep ==
    ASSUME Inv, NEW p \in Procs, CopyPages(p)
    PROVE  Progress(p)
<1>0. /\ run[p] \in Run /\ run[p].pc = "copy_pages"
      /\ run[p].pc \in ResumeStages /\ run[p].source # None
  BY DEF Inv, TypeOK, StageOK, StageAt, CopyPages, ResumeStages
<1> DEFINE n == Cardinality(RawPages(Own(p).raw)) + 1
           new == [Own(p) EXCEPT !.raw[n] = Source(p).raw[n]]
<1>1. CASE FailUnchanged(p)
  BY <1>0, <1>1, FailStep
<1>2. CASE Goto(p, "adopt_history") /\ UNCHANGED <<disk, output>>
  BY <1>0, <1>2, StageChange, UnconditionalStages, StageOnly
<1>3. CASE /\ n <= Len(run[p].chain)
           /\ disk[run[p].source] # None
           /\ Replace(p, run[p].dir, new, "copy_pages", "diagnose")
  <2>1. Source(p) \in Directory /\ Own(p) \in Directory
    BY <1>0, <1>3, SourceType, OwnDirectory
  <2>2. n \in PageNumbers
    <3>1. Len(run[p].chain) \in Nat /\ Len(run[p].chain) <= MaxPages
      BY <1>0 DEF Inv, StageOK, StageAt, Run
    <3>2. n \in Nat /\ n >= 1
      BY CountRawPages
    <3> HIDE DEF n
    <3>3. QED
      BY <1>3, <3>1, <3>2, ConstantsAssumption DEF PageNumbers
  <2> HIDE DEF n
  <2>3. Source(p).raw[n] \in Bodies \cup {None}
    BY <2>1, <2>2 DEF Directory
  <2>4. new \in Directory
    BY <2>1, <2>2, <2>3 DEF Directory
  <2> HIDE DEF new
  <2>5. QED
    BY <1>0, <1>3, <2>4, OwnDirectory, StageChange, UnconditionalStages,
       ReplaceStep
<1>4. QED
  <2>1. Len(run[p].chain) \in Nat /\ n \in Nat
    <3>1. run[p].chain \in Seq(Bodies)
      BY <1>0 DEF Run
    <3>2. n \in Nat
      BY CountRawPages
    <3>3. QED
      BY <3>1, <3>2
  <2> HIDE DEF n
  <2>2. n > Len(run[p].chain) \/ n <= Len(run[p].chain)
    BY <2>1
  <2>3. QED
    BY <1>1, <1>2, <1>3, <2>2 DEF CopyPages, n, new

\* The resumed history, head and identity check.
LEMMA AdoptSteps ==
    ASSUME Inv, NEW p \in Procs, AdoptHistory(p) \/ AdoptHead(p)
    PROVE  Progress(p)
<1>0. /\ run[p] \in Run /\ run[p].pc # "idle" /\ Own(p) \in Directory
      /\ run[p].dir \in Dirs
  BY OwnDirectory DEF Inv, TypeOK, AdoptHistory, AdoptHead
<1>1. CASE AdoptHistory(p)
  <2> DEFINE new == [Own(p) EXCEPT !.history = run[p].history]
  <2>1. new \in Directory
    BY <1>0 DEF Directory, Run
  <2>2. Replace(p, run[p].dir, new, "digest_adopted", "diagnose")
    BY <1>1 DEF AdoptHistory
  <2> HIDE DEF new
  <2>3. QED
    BY <1>0, <2>1, <2>2, StageChange, UnconditionalStages, ReplaceStep
<1>2. CASE AdoptHead(p)
  <2> DEFINE head == DurableHead(3, run[p].chain, run[p].digest, run[p].mode)
             new == [Own(p) EXCEPT !.ckpt = head]
  <2>1. head \in Checkpoint
    BY <1>0, HeadType DEF Run
  <2>2. new \in Directory
    BY <1>0, <2>1 DEF Directory
  <2>3. PICK next \in {"diagnose", "canonicalize", "next_page"} :
            Replace(p, run[p].dir, new, next, "diagnose")
    BY <1>2 DEF AdoptHead
  <2> HIDE DEF new
  <2>4. QED
    BY <1>0, <2>2, <2>3, StageChange, UnconditionalStages, ReplaceStep
<1>3. QED
  BY <1>1, <1>2

\* Steps of the page loop that only change the process's memory.
LEMMA NetworkSteps ==
    ASSUME Inv, NEW p \in Procs,
           \/ NextPage(p) \/ Request(p) \/ Redirect(p)
           \/ TransientFailure(p) \/ Retry(p) \/ Respond(p)
    PROVE  Progress(p)
<1>0. /\ run[p] \in Run /\ StageOK(run[p]) /\ run \in [Procs -> Run]
      /\ run[p].pc # "idle" /\ UNCHANGED <<disk, output>>
  BY DEF Inv, TypeOK, NextPage, Request, Redirect, TransientFailure, Retry,
     Respond
<1>1. CASE Fail(p)
  BY <1>0, <1>1, FailStep DEF FailUnchanged
<1>2. CASE ~Fail(p)
  <2>1. /\ run' = [run EXCEPT ![p] = run'[p]]
        /\ run'[p] \in Run
        /\ run'[p].dir = run[p].dir /\ run'[p].chain = run[p].chain
        /\ run'[p].pc \in {"request", "await", "backoff", "validate"}
        /\ run'[p].pc = "validate" => run'[p].page # None
        /\ Len(run[p].chain) < MaxPages
    <3>1. CASE NextPage(p)
      <4>1. /\ run'[p] = [run[p] EXCEPT !.pc = "request", !.attempt = 1,
                                     !.redirects = 0]
            /\ run' = [run EXCEPT ![p] = run'[p]]
        BY <1>0, <1>2, <3>1 DEF NextPage, Goto
      <4>2. Len(run[p].chain) < MaxPages
        <5>1. run[p].chain \in Seq(Bodies)
          BY <1>0 DEF Run
        <5>2. ~(Len(run[p].chain) >= MaxPages)
          BY <1>2, <3>1 DEF NextPage
        <5>3. QED
          BY <5>1, <5>2, ConstantsAssumption
      <4>3. /\ run[p].redirects + 1 \in Nat /\ run[p].attempt + 1 \in Nat
            /\ 0 \in Nat /\ 1 \in Nat
        BY <1>0 DEF Run
      <4>4. run'[p] \in Run
        BY <1>0, <4>1, <4>3, StageNames DEF Run
      <4>5. QED
        BY <1>0, <4>1, <4>2, <4>4 DEF Run
    <3>2. CASE Request(p)
      <4>1. /\ run'[p] = [run[p] EXCEPT !.pc = "await"]
            /\ run' = [run EXCEPT ![p] = run'[p]]
        BY <1>0, <1>2, <3>2 DEF Request, Goto
      <4>2. Len(run[p].chain) < MaxPages
        BY <1>0, <3>2 DEF Request, StageOK, StageAt
      <4>3. QED
        BY <1>0, <4>1, <4>2, StageNames DEF Run
    <3>3. CASE Redirect(p)
      <4>1. /\ run'[p] = [run[p] EXCEPT !.pc = "request",
                                     !.redirects = run[p].redirects + 1]
            /\ run' = [run EXCEPT ![p] = run'[p]]
        BY <1>0, <1>2, <3>3 DEF Redirect, Goto
      <4>2. Len(run[p].chain) < MaxPages
        BY <1>0, <3>3 DEF Redirect, StageOK, StageAt
      <4>3. /\ run[p].redirects + 1 \in Nat /\ run[p].attempt + 1 \in Nat
            /\ 0 \in Nat /\ 1 \in Nat
        BY <1>0 DEF Run
      <4>4. run'[p] \in Run
        BY <1>0, <4>1, <4>3, StageNames DEF Run
      <4>5. QED
        BY <1>0, <4>1, <4>2, <4>4 DEF Run
    <3>4. CASE TransientFailure(p)
      <4>1. /\ run'[p] = [run[p] EXCEPT !.pc = "backoff"]
            /\ run' = [run EXCEPT ![p] = run'[p]]
        BY <1>0, <1>2, <3>4 DEF TransientFailure, Goto
      <4>2. Len(run[p].chain) < MaxPages
        BY <1>0, <3>4 DEF TransientFailure, StageOK, StageAt
      <4>3. QED
        BY <1>0, <4>1, <4>2, StageNames DEF Run
    <3>5. CASE Retry(p)
      <4>1. /\ run'[p] = [run[p] EXCEPT !.pc = "request",
                                     !.attempt = run[p].attempt + 1,
                                     !.redirects = 0]
            /\ run' = [run EXCEPT ![p] = run'[p]]
        BY <1>0, <1>2, <3>5 DEF Retry, Goto
      <4>2. Len(run[p].chain) < MaxPages
        BY <1>0, <3>5 DEF Retry, StageOK, StageAt
      <4>3. /\ run[p].redirects + 1 \in Nat /\ run[p].attempt + 1 \in Nat
            /\ 0 \in Nat /\ 1 \in Nat
        BY <1>0 DEF Run
      <4>4. run'[p] \in Run
        BY <1>0, <4>1, <4>3, StageNames DEF Run
      <4>5. QED
        BY <1>0, <4>1, <4>2, <4>4 DEF Run
    <3>6. CASE Respond(p)
      <4>1. PICK body \in Bodies :
                run' = [run EXCEPT ![p].pc = "validate", ![p].page = body]
        BY <3>6 DEF Respond
      <4>2. /\ run'[p] = [run[p] EXCEPT !.pc = "validate", !.page = body]
            /\ run' = [run EXCEPT ![p] = run'[p]]
        BY <1>0, <4>1
      <4>3. body # None /\ Len(run[p].chain) < MaxPages
        BY <1>0, <3>6, ConstantsAssumption DEF Respond, StageOK, StageAt
      <4>4. QED
        BY <1>0, <4>2, <4>3, StageNames DEF Run
    <3>7. QED
      BY <3>1, <3>2, <3>3, <3>4, <3>5, <3>6
  <2>2. StageOK(run'[p])
    BY <1>0, <2>1 DEF StageOK, StageAt, Run, ResumeStages, PageStages
  <2>3. QED
    BY <1>0, <2>1, <2>2, MemoryOnly
<1>3. QED
  BY <1>1, <1>2

\* Failures of the page loop, its validation and the self check.
LEMMA DecisionSteps ==
    ASSUME Inv, NEW p \in Procs,
           \/ FatalFailure(p) \/ CancelRequest(p) \/ Validate(p)
           \/ SelfCheck(p) \/ CheckHistory(p)
    PROVE  Progress(p)
<1>0. run[p].pc # "idle"
  BY DEF FatalFailure, CancelRequest, Validate, SelfCheck, CheckHistory
<1>1. CASE FailUnchanged(p)
  BY <1>0, <1>1, FailStep
<1>2. CASE Validate(p) /\ ~FailUnchanged(p)
  <2>1. /\ Goto(p, "store_page") /\ UNCHANGED <<disk, output>>
        /\ run[p].pc \in PageStages /\ "store_page" \in PageStages
    BY <1>2 DEF Validate, FailUnchanged, PageStages
  <2>2. QED
    BY <1>0, <2>1, StageChange, StageOnly
<1>3. CASE SelfCheck(p) /\ ~FailUnchanged(p)
  <2>1. Goto(p, "check_history") /\ UNCHANGED <<disk, output>>
    BY <1>3 DEF SelfCheck, FailUnchanged
  <2>2. QED
    BY <1>0, <2>1, StageChange, UnconditionalStages, StageOnly
<1>4. CASE CheckHistory(p) /\ ~FailUnchanged(p)
  <2>1. Goto(p, "mark_success") /\ UNCHANGED <<disk, output>>
    BY <1>4 DEF CheckHistory, FailUnchanged
  <2>2. QED
    BY <1>0, <2>1, StageChange, UnconditionalStages, StageOnly
<1>5. QED
  BY <1>1, <1>2, <1>3, <1>4 DEF FatalFailure, CancelRequest

\* The raw page and the history of a fetched page.
LEMMA StoreSteps ==
    ASSUME Inv, NEW p \in Procs, StorePage(p) \/ StoreHistory(p)
    PROVE  Progress(p)
<1>0. /\ run[p] \in Run /\ run[p].pc # "idle" /\ run[p].pc \in PageStages
      /\ StageOK(run[p])
  BY DEF Inv, TypeOK, StorePage, StoreHistory, PageStages
<1>1. /\ Own(p) \in Directory /\ run[p].dir \in Dirs /\ run[p].page \in Bodies
      /\ Len(run[p].chain) \in Nat /\ Len(run[p].chain) < MaxPages
  BY <1>0, OwnDirectory DEF StageOK, StageAt, Run
<1>2. CASE StorePage(p)
  <2> DEFINE n == Len(run[p].chain) + 1
             new == [Own(p) EXCEPT !.raw[n] = run[p].page]
  <2>1. n \in PageNumbers
    BY <1>1, ConstantsAssumption DEF PageNumbers
  <2>2. new \in Directory
    BY <1>1, <2>1 DEF Directory
  <2>3. FailUnchanged(p)
          \/ Replace(p, run[p].dir, new, "store_history", "diagnose")
    BY <1>2 DEF StorePage
  <2>4. "store_history" \in PageStages
    BY DEF PageStages
  <2> HIDE DEF new
  <2>5. QED
    BY <1>0, <1>1, <2>2, <2>3, <2>4, StageChange, UnconditionalStages,
       ReplaceStep, FailStep
<1>3. CASE StoreHistory(p)
  <2> DEFINE new == [Own(p) EXCEPT !.history = Candidate(p)]
  <2>1. new \in Directory
    BY <1>0, <1>1, CandidateType, ConstantsAssumption DEF Directory
  <2>2. Replace(p, run[p].dir, new, "digest_stored", "diagnose")
    BY <1>3 DEF StoreHistory
  <2>3. "digest_stored" \in PageStages
    BY DEF PageStages
  <2> HIDE DEF new
  <2>4. QED
    BY <1>0, <1>1, <2>1, <2>2, <2>3, StageChange, UnconditionalStages,
       ReplaceStep
<1>4. QED
  BY <1>2, <1>3

\* The head commits the page.
LEMMA StoreHeadStep ==
    ASSUME Inv, NEW p \in Procs, StoreHead(p)
    PROVE  Progress(p)
<1>0. /\ run[p] \in Run /\ run[p].pc # "idle" /\ run[p].pc \in PageStages
      /\ StageOK(run[p]) /\ run \in [Procs -> Run]
  BY DEF Inv, TypeOK, StoreHead, PageStages
<1>1. /\ Own(p) \in Directory /\ run[p].dir \in Dirs /\ run[p].page \in Bodies
      /\ Len(run[p].chain) \in Nat /\ Len(run[p].chain) < MaxPages
  BY <1>0, OwnDirectory DEF StageOK, StageAt, Run
<1> DEFINE chain == Append(run[p].chain, run[p].page)
           history == Candidate(p)
           head == DurableHead(3, chain, run[p].digest, run[p].mode)
           new == [Own(p) EXCEPT !.ckpt = head]
<1>2. chain \in Seq(Bodies) /\ Len(chain) = Len(run[p].chain) + 1
  BY <1>0, <1>1 DEF Run
<1>3. Len(chain) <= MaxPages
  BY <1>1, <1>2, ConstantsAssumption
<1>4. history \in Seq(Line)
  BY <1>0, <1>1, CandidateType, ConstantsAssumption
<1> HIDE DEF chain, history
<1>5. head \in Checkpoint
  BY <1>0, <1>2, HeadType DEF Run
<1> HIDE DEF head
<1>6. new \in Directory
  BY <1>1, <1>5 DEF Directory
<1>7. CASE /\ disk' \in {disk, [disk EXCEPT ![run[p].dir] = new]}
           /\ Goto(p, "rollback") /\ UNCHANGED output
  <2>1. /\ run'[p] = [run[p] EXCEPT !.pc = "rollback"]
        /\ run' = [run EXCEPT ![p] = run'[p]]
    BY <1>0, <1>7 DEF Goto
  <2>2. run'[p] \in Run /\ run'[p].dir = run[p].dir
    BY <1>0, <2>1, StageNames DEF Run
  <2>3. StageOK(run'[p])
    BY <1>0, <2>1 DEF StageOK, StageAt, Run, ResumeStages, PageStages
  <2> HIDE DEF new
  <2>4. QED
    BY <1>0, <1>1, <1>6, <1>7, <2>1, <2>2, <2>3, WriteStep
<1>8. CASE /\ disk' = [disk EXCEPT ![run[p].dir] = new]
           /\ UNCHANGED output
           /\ run' = [run EXCEPT ![p] =
                [run[p] EXCEPT !.pc = IF run[p].page.next = None
                                      THEN "canonicalize" ELSE "next_page",
                               !.chain = chain, !.history = history,
                               !.page = None, !.attempt = 0, !.redirects = 0,
                               !.stalled = 0]]
  <2>1. PICK stage \in {"canonicalize", "next_page"} :
          /\ run'[p] = [run[p] EXCEPT !.pc = stage, !.chain = chain,
                               !.history = history, !.page = None,
                               !.attempt = 0, !.redirects = 0, !.stalled = 0]
          /\ run' = [run EXCEPT ![p] = run'[p]]
    BY <1>0, <1>8
  <2>2. 0 \in Nat /\ 0 \in 0..StallTimeout
    BY ConstantsAssumption
  <2>3. run'[p] \in Run /\ run'[p].dir = run[p].dir
    <3>1. stage \in Stages /\ None \in Bodies \cup {None}
      BY DEF Stages
    <3>2. [run[p] EXCEPT !.pc = stage, !.chain = chain,
                         !.history = history, !.page = None,
                         !.attempt = 0, !.redirects = 0, !.stalled = 0] \in Run
      BY <1>0, <1>2, <1>4, <2>2, <3>1 DEF Run
    <3>3. QED
      BY <1>0, <2>1, <3>2 DEF Run
  <2>4. run'[p].pc \in {"canonicalize", "next_page"} /\ run'[p].chain = chain
    BY <1>0, <2>1 DEF Run
  <2>5. StageOK(run'[p])
    BY <1>0, <1>3, <2>3, <2>4
       DEF StageOK, StageAt, ResumeStages, PageStages
  <2> HIDE DEF new
  <2>6. QED
    BY <1>0, <1>1, <1>6, <1>8, <2>1, <2>3, <2>5, WriteStep
<1>9. QED
  BY <1>7, <1>8 DEF StoreHead, chain, history, head, new

\* The steps after the last page, and the rollback of a failed head.
LEMMA FinalSteps ==
    ASSUME Inv, NEW p \in Procs,
           Rollback(p) \/ Canonicalize(p) \/ WriteManifest(p) \/ MarkSuccess(p)
    PROVE  Progress(p)
<1>0. /\ run[p] \in Run /\ run[p].pc # "idle" /\ StageOK(run[p])
  BY DEF Inv, TypeOK, Rollback, Canonicalize, WriteManifest, MarkSuccess
<1>1. /\ Own(p) \in Directory /\ run[p].dir \in Dirs
      /\ run[p].chain \in Seq(Bodies) /\ run[p].mode \in Modes
      /\ Len(run[p].chain) \in Nat /\ Len(run[p].chain) <= MaxPages
  BY <1>0, OwnDirectory DEF StageOK, StageAt, Run
<1>2. CASE Rollback(p)
  <2> DEFINE new == [Own(p) EXCEPT !.history = run[p].history]
  <2>1. new \in Directory
    BY <1>0, <1>1 DEF Directory, Run
  <2>2. Replace(p, run[p].dir, new, "diagnose", "diagnose")
    BY <1>2 DEF Rollback
  <2> HIDE DEF new
  <2>3. QED
    BY <1>0, <1>1, <2>1, <2>2, StageChange, UnconditionalStages, ReplaceStep
<1>3. CASE Canonicalize(p)
  <2> DEFINE recs == AllRecords(run[p].chain)
             new == [Own(p) EXCEPT !.canon = recs, !.errors = "empty"]
  <2>1. \A i \in DOMAIN run[p].chain : run[p].chain[i] \in Body
    BY <1>1, ConstantsAssumption
  <2>2. recs \in SUBSET Records
    <3>1. \A r \in recs : \E i \in DOMAIN run[p].chain : r \in run[p].chain[i].recs
      BY DEF AllRecords
    <3> HIDE DEF recs
    <3>2. QED
      BY <2>1, <3>1 DEF Body
  <2> HIDE DEF recs
  <2>3. new \in Directory
    BY <1>1, <2>2 DEF Directory
  <2>4. FailUnchanged(p) \/ Replace(p, run[p].dir, new, "manifest", "diagnose")
    BY <1>3 DEF Canonicalize, recs
  <2> HIDE DEF new
  <2>5. QED
    BY <1>0, <1>1, <2>3, <2>4, StageChange, UnconditionalStages, ReplaceStep,
       FailStep
<1>4. CASE WriteManifest(p)
  <2> DEFINE manifest ==
               [raw |-> Pages(Own(p).raw, Len(run[p].chain)),
                history |-> Own(p).history, canon |-> Own(p).canon,
                errors |-> Own(p).errors, pages |-> Len(run[p].chain),
                mode |-> run[p].mode]
             new == [Own(p) EXCEPT !.manifest = manifest]
  <2>1. Own(p).raw \in [PageNumbers -> Bodies \cup {None}]
    BY <1>1 DEF Directory
  <2>2. Len(run[p].chain) \in 0..(MaxPages + 1)
    BY <1>1, ConstantsAssumption
  <2>3. Pages(Own(p).raw, Len(run[p].chain)) \in Seq(Bodies \cup {None})
    BY <2>1, <2>2, PagesType
  <2>4. manifest \in Manifest
    BY <1>1, <2>3 DEF Manifest, Directory
  <2> HIDE DEF manifest
  <2>5. new \in Directory
    BY <1>1, <2>4 DEF Directory
  <2>6. Replace(p, run[p].dir, new, "self_check", "diagnose")
    BY <1>4 DEF WriteManifest, manifest
  <2> HIDE DEF new
  <2>7. QED
    BY <1>0, <1>1, <2>5, <2>6, StageChange, UnconditionalStages, ReplaceStep
<1>5. CASE MarkSuccess(p)
  <2> DEFINE new == [Own(p) EXCEPT !.success = TRUE]
  <2>1. new \in Directory
    BY <1>1 DEF Directory
  <2>2. Replace(p, run[p].dir, new, "promote", "diagnose")
    BY <1>5 DEF MarkSuccess
  <2> HIDE DEF new
  <2>3. QED
    BY <1>0, <1>1, <2>1, <2>2, StageChange, UnconditionalStages, ReplaceStep
<1>6. QED
  BY <1>2, <1>3, <1>4, <1>5

\* The memory of a process that does not run.
LEMMA IdleRunType == IdleRun \in Run /\ StageOK(IdleRun) /\ IdleRun.pc = "idle"
<1>1. /\ <<>> \in Seq(Bodies) /\ <<>> \in Seq(Line)
      /\ Len(<<>>) = 0
      /\ 0 \in Dirs /\ 0 \in Nat /\ 0 \in 0..StallTimeout /\ 0 \in 0..RunTimeout
      /\ 0 <= MaxPages
  BY ConstantsAssumption DEF Dirs
<1>2. IdleRun \in Run
  BY <1>1, ConstantsAssumption, StageNames DEF IdleRun, Run
<1>3. IdleRun.pc = "idle" /\ IdleRun.chain = <<>>
  BY DEF IdleRun
<1>4. StageOK(IdleRun)
  BY <1>1, <1>3 DEF StageOK, StageAt, ResumeStages, PageStages
<1>5. QED
  BY <1>2, <1>3, <1>4

\* The process ends, by itself or killed, and time passes for it.
LEMMA EndSteps ==
    ASSUME Inv, NEW p \in Procs, Diagnose(p) \/ Crash(p) \/ Tick(p)
    PROVE  Progress(p)
<1>0. /\ run[p] \in Run /\ run[p].pc # "idle" /\ StageOK(run[p])
      /\ run \in [Procs -> Run]
  BY DEF Inv, TypeOK, Diagnose, Crash, Tick
<1>1. CASE Diagnose(p)
  <2> DEFINE new == [Own(p) EXCEPT !.errors = "failed"]
  <2>1. new \in Directory /\ run[p].dir \in Dirs
    BY <1>0, OwnDirectory DEF Directory
  <2>2. [disk EXCEPT ![run[p].dir] = new]
          = [disk EXCEPT ![run[p].dir].errors = "failed"]
    BY DEF Own
  <2>3. /\ disk' \in {disk, [disk EXCEPT ![run[p].dir] = new]}
        /\ output' = output
        /\ run'[p] = IdleRun /\ run' = [run EXCEPT ![p] = run'[p]]
    BY <1>0, <1>1, <2>2 DEF Diagnose
  <2> HIDE DEF new
  <2>4. QED
    BY <1>0, <2>1, <2>3, IdleRunType, WriteStep
<1>2. CASE Crash(p)
  <2>1. /\ UNCHANGED <<disk, output>>
        /\ run'[p] = IdleRun /\ run' = [run EXCEPT ![p] = run'[p]]
    BY <1>0, <1>2 DEF Crash
  <2>2. QED
    BY <1>0, <2>1, IdleRunType, MemoryOnly
<1>3. CASE Tick(p)
  <2>1. PICK stalled \in 0..StallTimeout, elapsed \in 0..RunTimeout :
          run' = [run EXCEPT ![p].stalled = stalled, ![p].elapsed = elapsed]
    <3>1. /\ run[p].stalled \in 0..StallTimeout
          /\ run[p].elapsed \in 0..RunTimeout
      BY <1>0 DEF Run
    <3>2. /\ run[p].stalled < StallTimeout =>
               run[p].stalled + 1 \in 0..StallTimeout
          /\ run[p].elapsed < RunTimeout =>
               run[p].elapsed + 1 \in 0..RunTimeout
      BY <3>1, ConstantsAssumption
    <3>3. QED
      BY <1>3, <3>1, <3>2 DEF Tick
  <2>2. /\ run'[p] = [run[p] EXCEPT !.stalled = stalled, !.elapsed = elapsed]
        /\ run' = [run EXCEPT ![p] = run'[p]]
    BY <1>0, <2>1
  <2>3. run'[p] \in Run /\ run'[p].dir = run[p].dir
    BY <1>0, <2>1, <2>2 DEF Run
  <2>4. StageOK(run'[p])
    BY <1>0, <2>2 DEF StageOK, StageAt, Run
  <2>5. QED
    BY <1>0, <1>3, <2>2, <2>3, <2>4, MemoryOnly DEF Tick
<1>4. QED
  BY <1>1, <1>2, <1>3

\* Every step but the start and the promotion.
LEMMA StepsProgress ==
    ASSUME Inv, NEW p \in Procs,
           Step(p) \/ Network(p) \/ Crash(p) \/ Tick(p), ~Promote(p)
    PROVE  Progress(p)
<1>1. CASE Resume(p)
  BY <1>1, ReadSteps, ReconstructStateStep, ReconstructHistoryStep,
     DigestSteps, ReconstructHeadStep, ReadPagesStep, CopyPagesStep,
     AdoptSteps DEF Resume
<1>2. CASE Collect(p)
  BY <1>2, InitializeSteps, NetworkSteps, DecisionSteps, StoreSteps,
     DigestSteps, StoreHeadStep, FinalSteps DEF Collect
<1>3. CASE Finalize(p)
  BY <1>3, FinalSteps, DecisionSteps, EndSteps DEF Finalize
<1>4. CASE Network(p)
  BY <1>4, NetworkSteps, DecisionSteps DEF Network
<1>5. QED
  BY <1>1, <1>2, <1>3, <1>4, EndSteps DEF Step

\* A progressing process keeps the invariant.
LEMMA ProgressKeepsInv ==
    ASSUME Inv, NEW p \in Procs, Progress(p)
    PROVE  Inv'
<1>1. run \in [Procs -> Run] /\ run' \in [Procs -> Run]
  BY DEF Inv, TypeOK, Progress
<1>2. \A q \in Procs \ {p} : run'[q] = run[q]
  BY <1>1 DEF Progress
<1>3. TypeOK'
  BY <1>1 DEF Inv, TypeOK, Progress
<1>4. \A q \in Procs : StageOK(run'[q])
  BY <1>2 DEF Inv, Progress
<1>5. Owned'
  <2>1. ASSUME NEW q \in Procs, run'[q].pc # "idle"
        PROVE  run[q].pc # "idle" /\ run'[q].dir = run[q].dir /\ run[q].dir \in Dirs
    BY <1>1, <1>2, <2>1 DEF Progress, Run
  <2>2. QED
    BY <2>1 DEF Owned, Inv, Progress
<1>6. QED
  BY <1>3, <1>4, <1>5 DEF Inv, StageOK

\* A collection starts in a directory that was not there.
LEMMA StartStep ==
    ASSUME Inv, NEW p \in Procs, Start(p)
    PROVE  /\ Inv' /\ output' = output
           /\ \A e \in Dirs : disk[e] # None => disk'[e] = disk[e]
<1>0. run \in [Procs -> Run] /\ disk \in [Dirs -> Directory \cup {None}]
  BY DEF Inv, TypeOK
<1>1. PICK d \in Dirs \ {0}, m \in Modes,
           s \in {e \in Dirs : disk[e] # None} \cup {None} :
        /\ disk[d] = None
        /\ disk' = [disk EXCEPT ![d] = EmptyDirectory]
        /\ run' = [run EXCEPT ![p] =
              [IdleRun EXCEPT !.pc = "initialize_history", !.mode = m,
                              !.dir = d, !.source = s]]
        /\ output' = output
  BY DEF Start
<1>2. EmptyDirectory \in Directory
  <2>1. NoRaw \in [PageNumbers -> Bodies \cup {None}]
    BY DEF NoRaw
  <2>2. QED
    BY <2>1 DEF EmptyDirectory, Directory
<1>3. /\ run'[p] \in Run /\ StageOK(run'[p])
      /\ run'[p].dir = d /\ run'[p].pc # "idle"
  <2>1. run'[p] = [IdleRun EXCEPT !.pc = "initialize_history", !.mode = m,
                                  !.dir = d, !.source = s]
    BY <1>0, <1>1
  <2>2. run'[p] \in Run
    <3>1. "initialize_history" \in Stages /\ m \in Modes /\ d \in Dirs
          /\ s \in Dirs \cup {None}
      BY <1>1, StageNames
    <3> DEFINE r == [IdleRun EXCEPT !.pc = "initialize_history", !.mode = m]
    <3>2. r \in Run
      BY <3>1, IdleRunType DEF Run
    <3>3. run'[p] = [r EXCEPT !.dir = d, !.source = s]
      BY <2>1
    <3> HIDE DEF r
    <3>4. QED
      BY <3>1, <3>2, <3>3 DEF Run
  <2>3. run'[p].pc = "initialize_history" /\ run'[p].dir = d
        /\ run'[p].chain = IdleRun.chain
    BY <2>1, IdleRunType DEF Run
  <2>4. StageOK(run'[p])
    BY <2>3, IdleRunType, ConstantsAssumption
       DEF StageOK, StageAt, ResumeStages, PageStages
  <2>5. QED
    BY <2>2, <2>3, <2>4
<1>4. \A q \in Procs \ {p} : run'[q] = run[q]
  BY <1>0, <1>1
<1>5. disk' \in [Dirs -> Directory \cup {None}] /\ disk'[d] # None
  BY <1>0, <1>1, <1>2, AbsentAssumption
<1>6. \A e \in Dirs : disk[e] # None => disk'[e] = disk[e]
  BY <1>0, <1>1
<1>7. TypeOK'
  <2>1. run' \in [Procs -> Run]
    BY <1>0, <1>1, <1>3, <1>4
  <2>2. QED
    BY <1>1, <1>5, <2>1 DEF Inv, TypeOK
<1>8. \A q \in Procs : StageOK(run'[q])
  BY <1>3, <1>4 DEF Inv
<1>9. Owned'
  <2>1. \A q \in Procs \ {p} : run[q].pc # "idle" =>
            run[q].dir \in Dirs /\ disk[run[q].dir] # None /\ run[q].dir # d
    BY <1>0, <1>1 DEF Inv, Owned, Run
  <2>2. QED
    BY <1>3, <1>4, <1>5, <1>6, <2>1 DEF Inv, Owned
<1>10. QED
  BY <1>1, <1>6, <1>7, <1>8, <1>9 DEF Inv, StageOK

\* A promotion moves the process's own directory.
LEMMA PromoteStep ==
    ASSUME Inv, NEW p \in Procs, Promote(p)
    PROVE  /\ Inv' /\ run[p].pc # "idle"
           /\ output # None => output' = output
           /\ \A e \in Dirs : e # run[p].dir => disk'[e] = disk[e]
<1>0. /\ run \in [Procs -> Run] /\ disk \in [Dirs -> Directory \cup {None}]
      /\ run[p].pc # "idle" /\ run[p] \in Run
  BY DEF Inv, TypeOK, Promote
<1>1. CASE FailUnchanged(p)
  <2>1. Progress(p)
    BY <1>0, <1>1, FailStep
  <2>2. QED
    BY <1>0, <1>1, <2>1, ProgressKeepsInv DEF FailUnchanged
<1>2. CASE /\ output = None /\ output' = Own(p)
           /\ disk' = [disk EXCEPT ![run[p].dir] = None]
           /\ run' = [run EXCEPT ![p] = IdleRun]
  <2>1. Own(p) \in Directory /\ run[p].dir \in Dirs
    BY <1>0, OwnDirectory
  <2>2. \A q \in Procs \ {p} : run'[q] = run[q]
    BY <1>0, <1>2
  <2>3. run'[p] = IdleRun
    BY <1>0, <1>2
  <2>4. TypeOK'
    BY <1>0, <1>2, <2>1, IdleRunType DEF TypeOK
  <2>5. \A q \in Procs : StageOK(run'[q])
    BY <2>2, <2>3, IdleRunType DEF Inv
  <2>6. \A e \in Dirs : e # run[p].dir => disk'[e] = disk[e]
    BY <1>0, <1>2
  <2>7. Owned'
    <3>1. \A q \in Procs \ {p} : run[q].pc # "idle" =>
              run[q].dir \in Dirs /\ run[q].dir # run[p].dir
      BY <1>0 DEF Inv, Owned, Run
    <3>2. QED
      BY <2>2, <2>3, <2>6, <3>1, IdleRunType DEF Inv, Owned
  <2>8. QED
    BY <1>0, <1>2, <2>4, <2>5, <2>6, <2>7 DEF Inv, StageOK
<1>3. QED
  BY <1>1, <1>2 DEF Promote

\* The types and the ownership of the directories hold initially.
LEMMA InitInv == Init => Inv
<1> SUFFICES ASSUME Init PROVE Inv
  OBVIOUS
<1>1. run = [p \in Procs |-> IdleRun]
  BY DEF Init
<1>2. run \in [Procs -> Run] /\ \A p \in Procs : StageOK(run[p])
  BY <1>1, IdleRunType
<1>3. Owned
  BY <1>1, IdleRunType DEF Owned
<1>4. PICK raw \in LegacyRaws :
        disk = [d \in Dirs |->
                  IF d = 0 THEN [EmptyDirectory EXCEPT !.raw = raw] ELSE None]
  BY DEF Init
<1>5. raw \in [PageNumbers -> Bodies \cup {None}]
  BY ConstantsAssumption DEF PageNumbers
<1>6. [EmptyDirectory EXCEPT !.raw = raw] \in Directory
  BY <1>5 DEF EmptyDirectory, Directory
<1>7. disk \in [Dirs -> Directory \cup {None}]
  BY <1>4, <1>6
<1>8. QED
  BY <1>2, <1>3, <1>7 DEF Init, Inv, TypeOK

\* Every step keeps them.
LEMMA NextInv == Inv /\ [Next]_vars => Inv'
<1> SUFFICES ASSUME Inv, [Next]_vars PROVE Inv'
  OBVIOUS
<1>1. CASE UNCHANGED vars
  BY <1>1 DEF vars, Inv, TypeOK, StageOK, StageAt, Owned
<1>2. CASE Next
  <2>1. PICK p \in Procs :
            Start(p) \/ Step(p) \/ Network(p) \/ Crash(p) \/ Tick(p)
    BY <1>2 DEF Next
  <2>2. CASE Start(p)
    BY <2>2, StartStep
  <2>3. CASE Promote(p)
    BY <2>3, PromoteStep
  <2>4. QED
    BY <2>1, <2>2, <2>3, StepsProgress, ProgressKeepsInv
<1>3. QED
  BY <1>1, <1>2

LEMMA Invariance == Spec => []Inv
BY InitInv, NextInv, PTL DEF Spec

-----------------------------------------------------------------------------
(* Theorems.                                                               *)

\* Type correctness: files, memory and stages stay in their types, whatever
\* crashes, fails, resumes or runs at the same time.
THEOREM TypeCorrect == Spec => []TypeOK
<1>1. Inv => TypeOK
  BY DEF Inv
<1>2. QED
  BY <1>1, Invariance, PTL

\* Any number of collectors with one destination publish at most one bundle,
\* and nothing replaces it.
THEOREM OnePublication == Spec => PublishedNeverReplaced
<1>1. Inv /\ [Next]_vars => [output # None => output' = output]_vars
  <2> SUFFICES ASSUME Inv, Next, output # None PROVE output' = output
    BY DEF vars
  <2>1. PICK p \in Procs :
            Start(p) \/ Step(p) \/ Network(p) \/ Crash(p) \/ Tick(p)
    BY DEF Next
  <2>2. CASE Start(p)
    BY <2>2, StartStep
  <2>3. CASE Promote(p)
    BY <2>3, PromoteStep
  <2>4. QED
    BY <2>1, <2>2, <2>3, StepsProgress DEF Progress
<1>2. QED
  BY <1>1, Invariance, PTL DEF Spec, PublishedNeverReplaced

=============================================================================
