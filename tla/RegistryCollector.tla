------------------------- MODULE RegistryCollector -------------------------
(***************************************************************************)
(* `registry collect` (src/src/registry.cpp): one or more collector        *)
(* processes page through the MCP Registry into private partial            *)
(* directories, commit every page durably (raw page, page history,         *)
(* checkpoint, in that order), may be killed at any step, may resume from  *)
(* a retained partial, and finally promote a self-validated bundle to one  *)
(* shared output path without replacing it.                                *)
(*                                                                         *)
(* A digest is modelled by the content it is taken over.  Writing a file   *)
(* and renaming it over its destination is one step: no reader looks at    *)
(* the temporary name.                                                     *)
(***************************************************************************)
EXTENDS Naturals, Sequences, FiniteSets

CONSTANTS
    Procs,         \* collector processes that may run at the same time
    Cursors,       \* pagination cursors the Registry may hand out
    Records,       \* [id, content]: a server version and its canonical form
    Bodies,        \* the well-formed page bodies the Registry may answer
    Modes,         \* "full" and the provenances of incremental collections
    Full,          \* the member of Modes that stands for a full collection
    LegacyRaws,    \* page histories a pre-checkpoint partial may hold
    None,          \* an absent file, cursor, directory or value
    MaxPages,      \* limits.maximum_pages
    MaxRecords,    \* limits.maximum_records
    MaxRedirects,  \* limits.maximum_redirects
    MaxAttempts,   \* runtime.maximum_attempts_per_page
    StallTimeout,  \* runtime.stall_timeout, in ticks
    RunTimeout,    \* runtime.run_timeout, in ticks; 0 is unlimited
    MaxRuns        \* bound: partial directories created in a behaviour

Cursor == Cursors \cup {None}

\* A Registry response: the records of the page, the continuation it names,
\* and the input cursor it echoes (official responses echo none).
Body == [next : Cursor, echo : Cursor, recs : SUBSET Records]

ASSUME ConstantsAssumption ==
    /\ None \notin Cursors
    /\ None \notin Modes
    /\ None \notin Bodies
    /\ None \notin Nat
    /\ Bodies \subseteq Body
    /\ Full \in Modes
    /\ MaxPages \in Nat \ {0}
    /\ MaxRecords \in Nat \ {0}
    /\ MaxAttempts \in Nat \ {0}
    /\ StallTimeout \in Nat \ {0}
    /\ MaxRedirects \in Nat
    /\ RunTimeout \in Nat
    /\ MaxRuns \in Nat \ {0}
    /\ LegacyRaws \subseteq [1..(MaxPages + 1) -> Bodies \cup {None}]

PageNumbers == 1..(MaxPages + 1)
Dirs == 0..MaxRuns              \* 0 is the legacy partial
NoRaw == [n \in PageNumbers |-> None]

\* One line of raw/pages.jsonl; rebuilt is the mark `reconstructed`.
Line == [no : Nat, in : Cursor, out : Cursor, body : Bodies, mode : Modes,
         rebuilt : BOOLEAN]

\* checkpoint.json: the durable head.
Checkpoint == [version : {2, 3}, pages : Nat, next : Cursor,
               last : Bodies \cup {None}, history : Seq(Line), mode : Modes]

\* manifest.json: what the artifacts it declares must contain.
Manifest == [raw : Seq(Bodies \cup {None}), history : Seq(Line) \cup {None},
             canon : (SUBSET Records) \cup {None},
             errors : {"absent", "empty", "failed"}, pages : Nat, mode : Modes]

Directory == [raw : [PageNumbers -> Bodies \cup {None}],
              history : Seq(Line) \cup {None},
              ckpt : Checkpoint \cup {None},
              canon : (SUBSET Records) \cup {None},
              errors : {"absent", "empty", "failed"},
              manifest : Manifest \cup {None},
              success : BOOLEAN]

\* "Absent" is not one of the things that may be present.
ASSUME AbsentAssumption ==
    None \notin Directory /\ None \notin Checkpoint /\ None \notin Manifest
    /\ None \notin Seq(Line) /\ None \notin Seq(Bodies)

EmptyDirectory == [raw |-> NoRaw, history |-> None, ckpt |-> None,
                   canon |-> None, errors |-> "absent", manifest |-> None,
                   success |-> FALSE]

Stages == {"idle", "initialize_history", "initialize_head", "resume_source",
           "check_reconstruct", "reconstruct_state", "reconstruct_history",
           "digest_reconstructed", "reconstruct_head", "read_head",
           "read_pages", "match_head", "read_history", "copy_pages",
           "adopt_history", "digest_adopted", "adopt_head", "next_page",
           "request", "await", "backoff", "validate", "store_page",
           "store_history", "digest_stored", "store_head", "rollback",
           "canonicalize", "manifest", "self_check", "check_history",
           "mark_success", "promote", "diagnose"}

Run == [pc : Stages, mode : Modes, dir : Dirs, source : Dirs \cup {None},
        head : Nat, chain : Seq(Bodies), history : Seq(Line),
        digest : Seq(Line),   \* pages_artifact: what was read back
        page : Bodies \cup {None}, attempt : Nat, redirects : Nat,
        stalled : 0..StallTimeout, elapsed : 0..RunTimeout]

IdleRun == [pc |-> "idle", mode |-> Full, dir |-> 0, source |-> None,
            head |-> 0, chain |-> <<>>, history |-> <<>>, digest |-> <<>>,
            page |-> None, attempt |-> 0, redirects |-> 0, stalled |-> 0,
            elapsed |-> 0]

VARIABLES
    disk,    \* partial directories; None when the name is not taken
    output,  \* the bundle at the requested destination, or None
    run      \* each process's memory

vars == <<disk, output, run>>

Init ==
    /\ \E raw \in LegacyRaws :
        disk = [d \in Dirs |->
                  IF d = 0 THEN [EmptyDirectory EXCEPT !.raw = raw] ELSE None]
    /\ output = None
    /\ run = [p \in Procs |-> IdleRun]

-----------------------------------------------------------------------------
(* Pure parts of the code.                                                 *)

\* The cursor the next request carries after the pages of chain.
Next_(chain) == IF chain = <<>> THEN None ELSE chain[Len(chain)].next

\* The pagination cursors handed out so far (the set `cursors`).
Seen(chain) == {chain[i].next : i \in DOMAIN chain} \ {None}

\* Received records, one entry per page and record, as records.size() counts.
Received(chain) == UNION {{i} \X chain[i].recs : i \in DOMAIN chain}

AllRecords(chain) == UNION {chain[i].recs : i \in DOMAIN chain}

\* One identity never has two canonical contents.
Functional(recs) == \A r, s \in recs : r.id = s.id => r = s

\* The pages make one chain: every page but the last names a continuation,
\* no continuation is named twice, an echoed input is the one expected.
Chained(chain) ==
    /\ \A i \in 1..(Len(chain) - 1) : chain[i].next # None
    /\ \A i, j \in DOMAIN chain :
          chain[i].next = chain[j].next /\ chain[i].next # None => i = j
    /\ \A i \in DOMAIN chain :
          chain[i].echo # None =>
              i > 1 /\ chain[i].echo = chain[i - 1].next

RawPages(raw) == {n \in PageNumbers : raw[n] # None}

\* reconstruct_state: the chain of the raw pages ns, when they are exactly
\* 1..Cardinality(ns) and pass every check.
Readable(raw, ns) ==
    LET chain == [n \in 1..Cardinality(ns) |-> raw[n]] IN
    /\ ns = 1..Cardinality(ns)
    /\ Cardinality(ns) <= MaxPages
    /\ Cardinality(Received(chain)) <= MaxRecords
    /\ Chained(chain)

Pages(raw, n) == [i \in 1..n |-> raw[i]]

\* The page history reconstruct_state writes for a legacy partial.
LegacyHistory(chain) ==
    [i \in DOMAIN chain |->
        [no |-> i, in |-> IF i = 1 THEN None ELSE chain[i - 1].next,
         out |-> chain[i].next, body |-> chain[i], mode |-> Full,
         rebuilt |-> TRUE]]

DurableHead(version, chain, history, mode) ==
    [version |-> version, pages |-> Len(chain), next |-> Next_(chain),
     last |-> IF chain = <<>> THEN None ELSE chain[Len(chain)],
     history |-> history, mode |-> mode]

\* checkpoint_matches and checkpoint_v2_matches: the checkpoint file against
\* the pages read and the page history on disk.
HeadMatches(dir, chain, mode) ==
    /\ dir.ckpt # None
    /\ dir.ckpt.pages = Len(chain)
    /\ dir.ckpt.next = Next_(chain)
    /\ chain # <<>> => dir.ckpt.last = dir.raw[Len(chain)]
    /\ chain = <<>> => dir.ckpt.last = None
    /\ dir.history # None
    /\ dir.ckpt.history = dir.history
    /\ Len(dir.history) = dir.ckpt.pages
    /\ \A i \in DOMAIN dir.history : dir.history[i].no = i
    /\ dir.history # <<>> => dir.history[Len(dir.history)].out = Next_(chain)
    /\ IF dir.ckpt.version = 3 THEN dir.ckpt.mode = mode ELSE mode = Full

\* validate_bundle_impl: every declared artifact has the declared content and
\* the canonical file is sorted by distinct identities.
ArtifactsMatch(dir) ==
    LET m == dir.manifest IN
    /\ m # None
    /\ m.raw = Pages(dir.raw, Len(m.raw))
    /\ m.history = dir.history
    /\ m.canon = dir.canon
    /\ m.errors = dir.errors
    /\ Functional(dir.canon)

\* Then the page history is read for its lines: each describes the page it
\* names under the manifest's provenance, and there is one for every page.
HistoryDescribes(dir) ==
    /\ dir.history # None
    /\ \A i \in DOMAIN dir.history :
          /\ dir.history[i].no \in PageNumbers
          /\ dir.raw[dir.history[i].no] = dir.history[i].body
          /\ dir.history[i].mode = dir.manifest.mode
    /\ Len(dir.history) = dir.manifest.pages

Valid(dir) == ArtifactsMatch(dir) /\ HistoryDescribes(dir)

-----------------------------------------------------------------------------
(* Steps of a process.                                                     *)

\* fail(): the reason is set; the diagnostic is still to be written.
Fail(p) == run' = [run EXCEPT ![p].pc = "diagnose"]

FailUnchanged(p) == Fail(p) /\ UNCHANGED <<disk, output>>

Goto(p, stage) == run' = [run EXCEPT ![p].pc = stage]

Own(p) == disk[run[p].dir]

\* atomic_replace_file on a file of directory d: the rename happens and is
\* synced; or the temporary file or the rename fails and nothing changes; or
\* the rename happens and the directory sync fails, which is a failure too.
Replace(p, d, new, next, onFail) ==
    /\ \/ /\ disk' = [disk EXCEPT ![d] = new]
          /\ Goto(p, next)
       \/ /\ disk' \in {disk, [disk EXCEPT ![d] = new]}
          /\ Goto(p, onFail)
    /\ UNCHANGED output

\* classify_deadlines
TotalExpired(p) == RunTimeout # 0 /\ run[p].elapsed = RunTimeout
StallExpired(p) == run[p].stalled = StallTimeout
Expired(p) == TotalExpired(p) \/ StallExpired(p)

\* Pagination has its deadlines; before it there are none, after it only the
\* total deadline is looked at.
Paginating == {"next_page", "request", "await", "backoff", "validate",
               "store_page", "store_history", "digest_stored", "store_head"}

\* Preflight and the creation of the partial directory.
Start(p) ==
    /\ run[p].pc = "idle"
    /\ output = None
    /\ \E d \in Dirs \ {0}, m \in Modes,
         s \in {e \in Dirs : disk[e] # None} \cup {None} :
          /\ disk[d] = None
          /\ \A e \in 1..(d - 1) : disk[e] # None
          /\ disk' = [disk EXCEPT ![d] = EmptyDirectory]
          /\ run' = [run EXCEPT ![p] =
                [IdleRun EXCEPT !.pc = "initialize_history", !.mode = m,
                                !.dir = d, !.source = s]]
    /\ UNCHANGED output

InitializeHistory(p) ==
    /\ run[p].pc = "initialize_history"
    /\ Replace(p, run[p].dir, [Own(p) EXCEPT !.history = <<>>],
               "initialize_head", "diagnose")

\* No process can rebuild the history of a directory without pages, so the
\* digest read back is that of no lines.
InitializeHead(p) ==
    /\ run[p].pc = "initialize_head"
    /\ Replace(p, run[p].dir,
               [Own(p) EXCEPT !.ckpt = DurableHead(3, <<>>, <<>>, run[p].mode)],
               IF run[p].source = None THEN "next_page" ELSE "resume_source",
               "diagnose")

-----------------------------------------------------------------------------
(* Resume.  Every step reads the source again: nothing locks it.           *)

SourceIsPartial(p) ==
    /\ disk[run[p].source] # None
    /\ ~disk[run[p].source].success

Source(p) == disk[run[p].source]

ResumeSource(p) ==
    /\ run[p].pc = "resume_source"
    /\ IF ~SourceIsPartial(p) \/ (Source(p).ckpt = None /\ run[p].mode # Full)
       THEN Fail(p)
       ELSE Goto(p, IF Source(p).ckpt = None THEN "check_reconstruct"
                                             ELSE "read_head")
    /\ UNCHANGED <<disk, output>>

\* reconstruct_registry_checkpoint: there is no checkpoint yet.
CheckReconstruct(p) ==
    /\ run[p].pc = "check_reconstruct"
    /\ IF SourceIsPartial(p) /\ Source(p).ckpt = None
       THEN Goto(p, "reconstruct_state")
       ELSE Fail(p)
    /\ UNCHANGED <<disk, output>>

\* reconstruct_state over all the raw pages there are by now.
ReconstructState(p) ==
    /\ run[p].pc = "reconstruct_state"
    /\ IF /\ disk[run[p].source] # None
          /\ RawPages(Source(p).raw) # {}
          /\ Readable(Source(p).raw, RawPages(Source(p).raw))
       THEN run' = [run EXCEPT
               ![p].pc = "reconstruct_history",
               ![p].chain = Pages(Source(p).raw,
                                  Cardinality(RawPages(Source(p).raw)))]
       ELSE Fail(p)
    /\ UNCHANGED <<disk, output>>

\* The history of those pages replaces whatever history is there: nothing is
\* checked again.
ReconstructHistory(p) ==
    /\ run[p].pc = "reconstruct_history"
    /\ IF disk[run[p].source] # None
       THEN Replace(p, run[p].source,
                    [Source(p) EXCEPT !.history = LegacyHistory(run[p].chain)],
                    "digest_reconstructed", "diagnose")
       ELSE FailUnchanged(p)

\* artifact_for: the digest a head will carry is of the history read back.
Digest(p, d, next) ==
    /\ IF disk[d] # None /\ disk[d].history # None
       THEN run' = [run EXCEPT ![p].pc = next, ![p].digest = disk[d].history]
       ELSE Fail(p)
    /\ UNCHANGED <<disk, output>>

DigestReconstructed(p) ==
    /\ run[p].pc = "digest_reconstructed"
    /\ Digest(p, run[p].source, "reconstruct_head")

\* Mutant of ReconstructHead: the head of the first checkpoint format.
ReconstructFirstHead(p) ==
    /\ run[p].pc = "reconstruct_head"
    /\ IF disk[run[p].source] # None /\ Source(p).ckpt = None
       THEN Replace(p, run[p].source,
                    [Source(p) EXCEPT !.ckpt =
                        DurableHead(1, run[p].chain, run[p].digest, Full)],
                    "read_head", "diagnose")
       ELSE FailUnchanged(p)

\* The reconstructed head is promoted without replacing another.
ReconstructHead(p) ==
    /\ run[p].pc = "reconstruct_head"
    /\ IF disk[run[p].source] # None /\ Source(p).ckpt = None
       THEN Replace(p, run[p].source,
                    [Source(p) EXCEPT !.ckpt =
                        DurableHead(2, run[p].chain, run[p].digest, Full)],
                    "read_head", "diagnose")
       ELSE FailUnchanged(p)

\* checkpoint_head
ReadHead(p) ==
    /\ run[p].pc = "read_head"
    /\ IF disk[run[p].source] # None /\ Source(p).ckpt # None
       THEN run' = [run EXCEPT ![p].pc = "read_pages",
                               ![p].head = Source(p).ckpt.pages]
       ELSE Fail(p)
    /\ UNCHANGED <<disk, output>>

\* reconstruct_state with the head as its limit: later raw pages are ignored.
ReadPages(p) ==
    /\ run[p].pc = "read_pages"
    /\ IF disk[run[p].source] # None
          /\ Readable(Source(p).raw, {n \in RawPages(Source(p).raw) :
                                         n <= run[p].head})
          /\ Cardinality({n \in RawPages(Source(p).raw) :
                             n <= run[p].head}) = run[p].head
       THEN run' = [run EXCEPT ![p].pc = "match_head",
                        ![p].chain = Pages(Source(p).raw, run[p].head)]
       ELSE Fail(p)
    /\ UNCHANGED <<disk, output>>

MatchHead(p) ==
    /\ run[p].pc = "match_head"
    /\ IF disk[run[p].source] # None
          /\ HeadMatches(Source(p), run[p].chain, run[p].mode)
       THEN Goto(p, "read_history")
       ELSE Fail(p)
    /\ UNCHANGED <<disk, output>>

\* The history is read once more after it was verified.
ReadHistory(p) ==
    /\ run[p].pc = "read_history"
    /\ IF disk[run[p].source] # None /\ Source(p).history # None
       THEN run' = [run EXCEPT ![p].pc = "copy_pages",
                               ![p].history = Source(p).history]
       ELSE Fail(p)
    /\ UNCHANGED <<disk, output>>

\* Mutant of CopyPages: a page is moved out of the partial, not copied.
CopyPagesByRename(p) ==
    LET n == Cardinality(RawPages(Own(p).raw)) + 1 IN
    /\ run[p].pc = "copy_pages"
    /\ IF n > Len(run[p].chain)
       THEN Goto(p, "adopt_history") /\ UNCHANGED <<disk, output>>
       ELSE IF disk[run[p].source] # None /\ Source(p).raw[n] # None
       THEN /\ disk' = [disk EXCEPT ![run[p].dir].raw[n] = Source(p).raw[n],
                                    ![run[p].source].raw[n] = None]
            /\ Goto(p, "copy_pages")
            /\ UNCHANGED output
       ELSE FailUnchanged(p)

\* Copy the next raw page that is not there yet.
CopyPages(p) ==
    LET n == Cardinality(RawPages(Own(p).raw)) + 1 IN
    /\ run[p].pc = "copy_pages"
    /\ IF n > Len(run[p].chain)
       THEN Goto(p, "adopt_history") /\ UNCHANGED <<disk, output>>
       ELSE IF disk[run[p].source] # None /\ Source(p).raw[n] # None
       THEN Replace(p, run[p].dir,
                    [Own(p) EXCEPT !.raw[n] = Source(p).raw[n]],
                    "copy_pages", "diagnose")
       ELSE FailUnchanged(p)

AdoptHistory(p) ==
    /\ run[p].pc = "adopt_history"
    /\ Replace(p, run[p].dir, [Own(p) EXCEPT !.history = run[p].history],
               "digest_adopted", "diagnose")

DigestAdopted(p) ==
    /\ run[p].pc = "digest_adopted"
    /\ Digest(p, run[p].dir, "adopt_head")

\* Mutant of AdoptHead: the resumed head is not made durable.
AdoptHeadInMemory(p) ==
    LET r == run[p]
        next == IF ~Functional(AllRecords(r.chain)) THEN "diagnose"
                ELSE IF r.chain # <<>> /\ Next_(r.chain) = None
                THEN "canonicalize" ELSE "next_page" IN
    /\ r.pc = "adopt_head"
    /\ Goto(p, next)
    /\ UNCHANGED <<disk, output>>

\* The resumed durable head, then the identity check over the pages read.
AdoptHead(p) ==
    LET r == run[p]
        next == IF ~Functional(AllRecords(r.chain)) THEN "diagnose"
                ELSE IF r.chain # <<>> /\ Next_(r.chain) = None
                THEN "canonicalize" ELSE "next_page" IN
    /\ r.pc = "adopt_head"
    /\ Replace(p, r.dir,
               [Own(p) EXCEPT !.ckpt = DurableHead(3, r.chain, r.digest, r.mode)],
               next, "diagnose")

-----------------------------------------------------------------------------
(* The page loop.                                                          *)

NextPage(p) ==
    /\ run[p].pc = "next_page"
    /\ IF Len(run[p].chain) >= MaxPages \/ Expired(p)
       THEN Fail(p)
       ELSE run' = [run EXCEPT ![p].pc = "request", ![p].attempt = 1,
                               ![p].redirects = 0]
    /\ UNCHANGED <<disk, output>>

Request(p) ==
    /\ run[p].pc = "request"
    /\ IF Expired(p) THEN Fail(p) ELSE Goto(p, "await")
    /\ UNCHANGED <<disk, output>>

\* A 200 response within the configured origin.
Respond(p) ==
    /\ run[p].pc = "await"
    /\ \E body \in Bodies :
          run' = [run EXCEPT ![p].pc = "validate", ![p].page = body]
    /\ UNCHANGED <<disk, output>>

Redirect(p) ==
    /\ run[p].pc = "await"
    /\ IF run[p].redirects >= MaxRedirects
       THEN Fail(p)
       ELSE run' = [run EXCEPT ![p].pc = "request", ![p].redirects = @ + 1]
    /\ UNCHANGED <<disk, output>>

\* A timeout, a temporary network failure or a retryable HTTP status.
TransientFailure(p) ==
    /\ run[p].pc = "await"
    /\ IF run[p].attempt = MaxAttempts THEN Fail(p) ELSE Goto(p, "backoff")
    /\ UNCHANGED <<disk, output>>

\* Any other transport failure, HTTP status, redirect or malformed body.
FatalFailure(p) == run[p].pc = "await" /\ FailUnchanged(p)

\* Mutant of CancelRequest: the heartbeat looks at the run deadline only.
CancelRequestLate(p) ==
    run[p].pc = "await" /\ TotalExpired(p) /\ FailUnchanged(p)

\* The heartbeat of an outstanding request cancels it at a deadline.
CancelRequest(p) == run[p].pc = "await" /\ Expired(p) /\ FailUnchanged(p)

\* Mutant of Retry: a new attempt restarts the stall clock.
RetryAsProgress(p) ==
    /\ run[p].pc = "backoff"
    /\ IF Expired(p)
       THEN Fail(p)
       ELSE run' = [run EXCEPT ![p].pc = "request", ![p].attempt = @ + 1,
                               ![p].redirects = 0, ![p].stalled = 0]
    /\ UNCHANGED <<disk, output>>

\* The retry delay is over, or a deadline ends it.
Retry(p) ==
    /\ run[p].pc = "backoff"
    /\ IF Expired(p)
       THEN Fail(p)
       ELSE run' = [run EXCEPT ![p].pc = "request", ![p].attempt = @ + 1,
                               ![p].redirects = 0]
    /\ UNCHANGED <<disk, output>>

\* Mutant of Acceptable: a repeated cursor is not noticed.
AcceptableRepetition(p) ==
    LET r == run[p] IN
    /\ Cardinality(r.page.recs) + Cardinality(Received(r.chain)) <= MaxRecords
    /\ Functional(AllRecords(r.chain) \cup r.page.recs)

Acceptable(p) ==
    LET r == run[p] IN
    /\ Cardinality(r.page.recs) + Cardinality(Received(r.chain)) <= MaxRecords
    /\ r.page.next \notin Seen(r.chain)
    /\ Functional(AllRecords(r.chain) \cup r.page.recs)

Validate(p) ==
    /\ run[p].pc = "validate"
    /\ IF Acceptable(p) /\ ~Expired(p) THEN Goto(p, "store_page") ELSE Fail(p)
    /\ UNCHANGED <<disk, output>>

\* The raw page is promoted without replacing another.
StorePage(p) ==
    LET n == Len(run[p].chain) + 1 IN
    /\ run[p].pc = "store_page"
    /\ IF Own(p).raw[n] = None
       THEN Replace(p, run[p].dir, [Own(p) EXCEPT !.raw[n] = run[p].page],
                    "store_history", "diagnose")
       ELSE FailUnchanged(p)

\* Mutant of Candidate: the cursor has moved on before the line is written.
CandidateOfNextCursor(p) ==
    LET r == run[p] IN
    Append(r.history, [no |-> Len(r.chain) + 1, in |-> r.page.next,
                       out |-> r.page.next, body |-> r.page, mode |-> r.mode,
                       rebuilt |-> FALSE])

Candidate(p) ==
    LET r == run[p] IN
    Append(r.history, [no |-> Len(r.chain) + 1, in |-> Next_(r.chain),
                       out |-> r.page.next, body |-> r.page, mode |-> r.mode,
                       rebuilt |-> FALSE])

StoreHistory(p) ==
    /\ run[p].pc = "store_history"
    /\ Replace(p, run[p].dir, [Own(p) EXCEPT !.history = Candidate(p)],
               "digest_stored", "diagnose")

DigestStored(p) ==
    /\ run[p].pc = "digest_stored"
    /\ Digest(p, run[p].dir, "store_head")

\* The checkpoint commits the page; only then does the memory follow it and
\* the stall clock restart.
StoreHead(p) ==
    LET r == run[p]
        chain == Append(r.chain, r.page)
        new == [Own(p) EXCEPT !.ckpt = DurableHead(3, chain, r.digest, r.mode)] IN
    /\ r.pc = "store_head"
    /\ \/ /\ disk' = [disk EXCEPT ![r.dir] = new]
          /\ run' = [run EXCEPT ![p] =
                [r EXCEPT !.pc = IF r.page.next = None THEN "canonicalize"
                                                       ELSE "next_page",
                          !.chain = chain, !.history = Candidate(p),
                          !.page = None, !.attempt = 0, !.redirects = 0,
                          !.stalled = 0]]
       \/ /\ disk' \in {disk, [disk EXCEPT ![r.dir] = new]}
          /\ Goto(p, "rollback")
    /\ UNCHANGED output

\* Mutant of Rollback: the previous head is put back too.
RollbackHead(p) ==
    LET r == run[p] IN
    /\ r.pc = "rollback"
    /\ Replace(p, r.dir,
               [Own(p) EXCEPT
                  !.history = r.history,
                  !.ckpt = DurableHead(3, r.chain, r.history, r.mode)],
               "diagnose", "diagnose")

\* Mutant of Rollback: the page of the failed checkpoint is removed.
RollbackPage(p) ==
    LET r == run[p] IN
    /\ r.pc = "rollback"
    /\ Replace(p, r.dir,
               [Own(p) EXCEPT !.history = r.history,
                              !.raw[Len(r.chain) + 1] = None],
               "diagnose", "diagnose")

\* A failed checkpoint puts the previous history back, best effort.
Rollback(p) ==
    /\ run[p].pc = "rollback"
    /\ Replace(p, run[p].dir, [Own(p) EXCEPT !.history = run[p].history],
               "diagnose", "diagnose")

-----------------------------------------------------------------------------
(* Finalization.                                                           *)

\* write_file truncates and writes in place; a torn file is not modelled
\* because nobody reads these files before the self-validation.
Canonicalize(p) ==
    LET recs == AllRecords(run[p].chain) IN
    /\ run[p].pc = "canonicalize"
    /\ IF TotalExpired(p) \/ ~Functional(recs)
       THEN FailUnchanged(p)
       ELSE Replace(p, run[p].dir,
                    [Own(p) EXCEPT !.canon = recs, !.errors = "empty"],
                    "manifest", "diagnose")

WriteManifest(p) ==
    LET r == run[p]
        manifest == [raw |-> Pages(Own(p).raw, Len(r.chain)),
                     history |-> Own(p).history, canon |-> Own(p).canon,
                     errors |-> Own(p).errors, pages |-> Len(r.chain),
                     mode |-> r.mode] IN
    /\ r.pc = "manifest"
    /\ Replace(p, r.dir, [Own(p) EXCEPT !.manifest = manifest],
               "self_check", "diagnose")

SelfCheck(p) ==
    /\ run[p].pc = "self_check"
    /\ IF ArtifactsMatch(Own(p)) /\ ~TotalExpired(p)
       THEN Goto(p, "check_history")
       ELSE Fail(p)
    /\ UNCHANGED <<disk, output>>

\* Mutant of CheckHistory: the history is trusted once its digest matches.
CheckHistoryTrusting(p) ==
    /\ run[p].pc = "check_history"
    /\ IF TotalExpired(p) THEN Fail(p) ELSE Goto(p, "mark_success")
    /\ UNCHANGED <<disk, output>>

CheckHistory(p) ==
    /\ run[p].pc = "check_history"
    /\ IF HistoryDescribes(Own(p)) /\ ~TotalExpired(p)
       THEN Goto(p, "mark_success")
       ELSE Fail(p)
    /\ UNCHANGED <<disk, output>>

\* _SUCCESS, then the directory syncs.
MarkSuccess(p) ==
    /\ run[p].pc = "mark_success"
    /\ Replace(p, run[p].dir, [Own(p) EXCEPT !.success = TRUE],
               "promote", "diagnose")

\* Mutant of Promote: a plain rename after the check made at the start.
PromoteOver(p) ==
    /\ run[p].pc = "promote"
    /\ output' = Own(p)
    /\ disk' = [disk EXCEPT ![run[p].dir] = None]
    /\ run' = [run EXCEPT ![p] = IdleRun]

\* renameat2(RENAME_NOREPLACE); a failed sync of the parent comes after it
\* and changes nothing.
Promote(p) ==
    /\ run[p].pc = "promote"
    /\ IF output = None
       THEN /\ output' = Own(p)
            /\ disk' = [disk EXCEPT ![run[p].dir] = None]
            /\ run' = [run EXCEPT ![p] = IdleRun]
       ELSE FailUnchanged(p)

\* fail() leaves its diagnostic in the retained directory, whatever the
\* directory already is, and the process ends.
Diagnose(p) ==
    /\ run[p].pc = "diagnose"
    /\ \/ disk' = [disk EXCEPT ![run[p].dir].errors = "failed"]
       \/ UNCHANGED disk
    /\ run' = [run EXCEPT ![p] = IdleRun]
    /\ UNCHANGED output

-----------------------------------------------------------------------------
(* The environment.                                                        *)

\* The process is killed: its memory is gone, the disk stays.
Crash(p) ==
    /\ run[p].pc # "idle"
    /\ run' = [run EXCEPT ![p] = IdleRun]
    /\ UNCHANGED <<disk, output>>

\* Time passes for a process; its clocks stop counting at their deadlines.
Tick(p) ==
    LET r == run[p]
        stalled == IF r.pc \in Paginating /\ r.stalled < StallTimeout
                   THEN r.stalled + 1 ELSE r.stalled
        elapsed == IF r.elapsed < RunTimeout THEN r.elapsed + 1
                                             ELSE r.elapsed IN
    /\ r.pc # "idle"
    /\ <<stalled, elapsed>> # <<r.stalled, r.elapsed>>
    /\ run' = [run EXCEPT ![p].stalled = stalled, ![p].elapsed = elapsed]
    /\ UNCHANGED <<disk, output>>

Resume(p) ==
    \/ ResumeSource(p) \/ CheckReconstruct(p) \/ ReconstructState(p)
    \/ ReconstructHistory(p) \/ DigestReconstructed(p) \/ ReconstructHead(p)
    \/ ReadHead(p) \/ ReadPages(p) \/ MatchHead(p) \/ ReadHistory(p)
    \/ CopyPages(p) \/ AdoptHistory(p) \/ DigestAdopted(p) \/ AdoptHead(p)

Collect(p) ==
    \/ InitializeHistory(p) \/ InitializeHead(p) \/ NextPage(p)
    \/ Request(p) \/ CancelRequest(p) \/ Retry(p) \/ Validate(p)
    \/ StorePage(p) \/ StoreHistory(p) \/ DigestStored(p) \/ StoreHead(p)
    \/ Rollback(p)

Finalize(p) ==
    \/ Canonicalize(p) \/ WriteManifest(p) \/ SelfCheck(p)
    \/ CheckHistory(p) \/ MarkSuccess(p) \/ Promote(p) \/ Diagnose(p)

\* The steps the process takes by itself.
Step(p) == Resume(p) \/ Collect(p) \/ Finalize(p)

Network(p) ==
    Respond(p) \/ Redirect(p) \/ TransientFailure(p) \/ FatalFailure(p)

Next == \E p \in Procs :
    Start(p) \/ Step(p) \/ Network(p) \/ Crash(p) \/ Tick(p)

Spec == Init /\ [][Next]_vars

-----------------------------------------------------------------------------
(* Properties.                                                             *)

\* Types of the three variables.
TypeOK ==
    /\ disk \in [Dirs -> Directory \cup {None}]
    /\ output \in Directory \cup {None}
    /\ run \in [Procs -> Run]

\* A retained partial is one no running process writes its bundle into.
Retained(d) == disk[d] # None /\ \A p \in Procs : run[p].pc # "idle" => run[p].dir # d

HasHead(d) == disk[d] # None /\ disk[d].ckpt # None

Committed(d) ==
    IF HasHead(d) THEN Pages(disk[d].raw, disk[d].ckpt.pages) ELSE <<>>

\* However runs crash, fail and resume, a checkpoint only ever names pages
\* that are on disk and form one chain from the first page, and its cursor
\* and last page are those of that chain (the page, history, checkpoint
\* order of collect_registry).
HeadIsBacked ==
    \A d \in Dirs : HasHead(d) =>
        /\ disk[d].ckpt.pages <= MaxPages
        /\ \A n \in 1..disk[d].ckpt.pages : disk[d].raw[n] # None
        /\ Chained(Committed(d))
        /\ disk[d].ckpt.next = Next_(Committed(d))
        /\ disk[d].ckpt.pages > 0 =>
               disk[d].ckpt.last = disk[d].raw[disk[d].ckpt.pages]

\* Whenever the network is used, memory and the durable head of the
\* process's own directory agree: a page that was committed, here or by the
\* run resumed from, is not requested again and none is skipped.
RequestFollowsDurableHead ==
    \A p \in Procs : run[p].pc \in {"request", "await", "backoff"} =>
        /\ HasHead(run[p].dir)
        /\ Committed(run[p].dir) = run[p].chain
        /\ Own(p).ckpt.mode = run[p].mode

\* A chain of pages from the first to the one without a continuation, and the
\* records of exactly those pages.
CompleteCollection(bundle) ==
    LET n == bundle.manifest.pages
        chain == Pages(bundle.raw, n) IN
    /\ n > 0
    /\ \A i \in 1..n : chain[i] # None
    /\ Chained(chain)
    /\ chain[n].next = None
    /\ RawPages(bundle.raw) = 1..n
    /\ bundle.canon = AllRecords(chain)
    /\ Functional(bundle.canon)

\* A bundle with the page history its manifest declares.
Declared(bundle) == [bundle EXCEPT !.history = bundle.manifest.history]

\* The page history is one that a resume rebuilt from the first pages.
Rebuilt(bundle) ==
    \E k \in 1..bundle.manifest.pages :
        bundle.history = LegacyHistory(Pages(bundle.raw, k))

\* What appears at the destination is marked and is one complete collection,
\* whatever was resumed from whom while it was still growing, and it
\* validates.  Only its page history may be another than the declared one, and
\* then it is the one a resume that found the directory without its checkpoint
\* rebuilt from the first pages of this same bundle.
PublishedIsComplete ==
    output # None =>
        /\ output.success
        /\ CompleteCollection(output)
        /\ \/ Valid(output)
           \/ Rebuilt(output) /\ ArtifactsMatch(Declared(output))

\* After any kills and resumes one after the other, what appears at the
\* destination is one complete collection that validates, and every line of
\* its page history names its page, the cursor that asked for it, the one it
\* answered with and the provenance of the whole collection.
PublishedIsExact ==
    output # None =>
        LET chain == Pages(output.raw, output.manifest.pages) IN
        /\ output.success
        /\ CompleteCollection(output)
        /\ Valid(output)
        /\ \A i \in DOMAIN chain : output.history[i] =
              [LegacyHistory(chain)[i] EXCEPT
                  !.mode = output.manifest.mode,
                  !.rebuilt = output.history[i].rebuilt]

\* Of several collectors with one destination, only the first to promote
\* publishes; nothing replaces its bundle (RENAME_NOREPLACE).
PublishedNeverReplaced == [][output # None => output' = output]_vars

\* Within a directory the durable head never moves back and no committed page
\* changes.
CommittedOnlyGrows ==
    [][\A d \in Dirs : HasHead(d) /\ disk'[d] # None =>
          /\ disk'[d].ckpt # None
          /\ disk'[d].ckpt.pages >= disk[d].ckpt.pages
          /\ Committed(d) = Pages(disk'[d].raw, disk[d].ckpt.pages)]_vars

\* A retained partial with a checkpoint is evidence: no run changes it, moves
\* it or removes it, the run that resumes from it included.  One write can
\* reach it, of a resume that found the directory before it had a checkpoint:
\* it replaces the page history, and only that, by the one rebuilt from pages
\* the directory holds.
RetainedPartialIsEvidence ==
    [][\A d \in Dirs : Retained(d) /\ HasHead(d) =>
          \/ disk'[d] = disk[d]
          \/ \E p \in Procs :
                /\ run[p].pc = "reconstruct_history"
                /\ run[p].source = d
                /\ run[p].chain = Pages(disk[d].raw, Len(run[p].chain))
                /\ disk'[d] = [disk[d] EXCEPT
                                 !.history = LegacyHistory(run[p].chain)]]_vars

\* Only a committed page restarts the stall clock of a running collection:
\* responses, redirects, retries and failed attempts do not.
OnlyCommitsResetStall ==
    [][\A p \in Procs :
          run[p].pc # "idle" /\ run'[p].pc # "idle"
            /\ run'[p].stalled < run[p].stalled
          => Len(Committed(run[p].dir)') = Len(Committed(run[p].dir)) + 1]_vars

\* The committed pages of every directory and the published bundle are the
\* append-only logs of PageLog: crashes, rollbacks and copies are invisible.
Log == INSTANCE PageLog WITH
    Found <- {0},
    log <- [d \in Dirs |-> Committed(d)],
    published <- IF output = None THEN None
                 ELSE Pages(output.raw, output.manifest.pages)

ImplementsPageLog == Log!Spec

\* The process's own steps and the clock are fair; nothing is assumed of the
\* network, which may never answer.
Fairness == \A p \in Procs : WF_vars(Step(p)) /\ WF_vars(Tick(p))

FairSpec == Spec /\ Fairness

\* Every collection ends, also when the Registry never answers, redirects or
\* fails forever: by the stall watchdog, the retry budget or the page limit.
CollectionEnds == \A p \in Procs : run[p].pc # "idle" ~> run[p].pc = "idle"
=============================================================================
