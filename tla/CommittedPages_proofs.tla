----------------------- MODULE CommittedPages_proofs -----------------------
(***************************************************************************)
(* Theorems about the pages RegistryCollector commits and publishes, for   *)
(* every number of processes, every set of pages and every limit: they     *)
(* form one chain, never change, and are the logs of PageLog; and what a   *)
(* resume may write to the page history of a directory that is not its own *)
(* is rebuilt from the pages of that directory.                            *)
(***************************************************************************)
EXTENDS RegistryCollector_proofs

\* The pages of chain are linked by their continuations, none named twice.
\* (Chained without what a page echoes of the request.)
Linked(chain) ==
    /\ \A i \in 1..(Len(chain) - 1) : chain[i].next # None
    /\ \A i, j \in DOMAIN chain :
          chain[i].next = chain[j].next /\ chain[i].next # None => i = j

\* The raw pages are the first k of chain and no others.
Holds(raw, chain, k) ==
    \A n \in PageNumbers : raw[n] = IF n <= k THEN chain[n] ELSE None

\* The head of a directory is one of the chain, under a provenance.
HeadOf(D, chain, mode) ==
    /\ D.ckpt # None
    /\ D.ckpt.pages = Len(chain)
    /\ D.ckpt.next = Next_(chain)
    /\ chain # <<>> => D.ckpt.last = chain[Len(chain)]
    /\ D.ckpt.mode = mode

\* What a directory with a head contains.
Sound(D) ==
    D.ckpt # None =>
        LET n == D.ckpt.pages
            chain == Pages(D.raw, n) IN
        /\ n <= MaxPages
        /\ \A i \in 1..n : D.raw[i] # None
        /\ Linked(chain)
        /\ D.ckpt.next = Next_(chain)
        /\ n > 0 => D.ckpt.last = D.raw[n]

\* What a write may do to a directory.
Grows(D, E) ==
    /\ \A n \in PageNumbers : D.raw[n] # None => E.raw[n] = D.raw[n]
    /\ D.ckpt # None =>
          /\ E.ckpt # None
          /\ D.ckpt.pages <= E.ckpt.pages
          /\ Pages(E.raw, D.ckpt.pages) = Pages(D.raw, D.ckpt.pages)

-----------------------------------------------------------------------------
(* What a process has done to its directory D, by its stage.               *)

Copying == {"copy_pages", "adopt_history", "digest_adopted", "adopt_head"}
Matched == {"match_head", "read_history"} \cup Copying
Fetching == {"next_page", "request", "await", "backoff", "validate", "store_page"}
Storing == {"store_history", "digest_stored", "store_head", "rollback"}
Finishing == {"canonicalize", "manifest", "self_check", "check_history",
              "mark_success", "promote"}
Rebuilding == {"reconstruct_history", "digest_reconstructed", "reconstruct_head"}

Initializing(r, D) ==
    r.pc \in {"initialize_history", "initialize_head"} =>
        D.ckpt = None /\ r.chain = <<>>

Resuming(r, D) ==
    /\ r.pc \in ResumeStages \cup Copying => HeadOf(D, <<>>, r.mode)
    /\ r.pc \in ResumeStages \ Copying => D.raw = NoRaw
    /\ r.pc = "copy_pages" => \E k \in 0..Len(r.chain) : Holds(D.raw, r.chain, k)
    /\ r.pc \in Copying \ {"copy_pages"} => Holds(D.raw, r.chain, Len(r.chain))

\* The chain in memory.
Remembering(r) ==
    /\ r.pc \in Matched \cup Rebuilding \cup Fetching \cup Storing \cup Finishing =>
          Linked(r.chain)
    /\ r.pc \in Fetching \cup Storing /\ r.chain # <<>> => Next_(r.chain) # None
    /\ r.pc \in Storing \cup {"store_page"} =>
          r.page # None /\ r.page.next \notin Seen(r.chain)
    /\ r.pc \in Storing => Len(r.chain) < MaxPages

Committing(r, D) ==
    /\ r.pc \in Fetching \cup Finishing =>
          Holds(D.raw, r.chain, Len(r.chain)) /\ HeadOf(D, r.chain, r.mode)
    /\ r.pc \in Storing =>
          /\ Holds(D.raw, Append(r.chain, r.page), Len(r.chain) + 1)
          /\ \/ HeadOf(D, r.chain, r.mode)
             \/ r.pc = "rollback" /\ HeadOf(D, Append(r.chain, r.page), r.mode)

Ending(r, D) ==
    /\ r.pc \in Finishing => r.chain # <<>> /\ Next_(r.chain) = None
    /\ r.pc \in Finishing \ {"canonicalize"} => D.canon = AllRecords(r.chain)
    /\ r.pc \in {"self_check", "check_history", "mark_success", "promote"} =>
          D.manifest # None /\ D.manifest.pages = Len(r.chain)
    /\ r.pc \in {"check_history", "mark_success", "promote"} =>
          ArtifactsMatch(Declared(D))
    /\ r.pc = "check_history" => D.history = D.manifest.history \/ Rebuilt(D)
    /\ r.pc \in {"mark_success", "promote"} => Valid(D) \/ Rebuilt(D)
    /\ r.pc = "promote" => D.success

At(r, D) ==
    /\ Initializing(r, D)
    /\ Resuming(r, D)
    /\ Remembering(r)
    /\ Committing(r, D)
    /\ Ending(r, D)

\* The source s is where it was, or at the destination.
IsSomewhere(fs, out, s) == fs[s] # None \/ out # None

\* The source s has committed n pages, or was published with them.
HasPages(fs, out, s, n) ==
    IF fs[s] # None THEN fs[s].ckpt # None /\ n <= fs[s].ckpt.pages
                    ELSE out # None /\ n <= out.manifest.pages

\* The pages of chain are the first of the source, wherever that is now.
StartsWith(fs, out, s, chain) ==
    Pages(IF fs[s] # None THEN fs[s].raw ELSE out.raw, Len(chain)) = chain

\* What a resuming process knows of its source, which others may write.
Sourced(r, fs, out) ==
    /\ r.pc \in Rebuilding => r.chain # <<>>
    /\ r.pc \in Rebuilding \cup Matched =>
          /\ r.source # None
          /\ IsSomewhere(fs, out, r.source)
          /\ StartsWith(fs, out, r.source, r.chain)
    /\ r.pc = "read_pages" =>
          r.source # None /\ HasPages(fs, out, r.source, r.head)
    /\ r.pc \in Matched => HasPages(fs, out, r.source, Len(r.chain))

\* A complete collection, but for what its pages echo.
Complete(bundle) ==
    LET n == bundle.manifest.pages
        chain == Pages(bundle.raw, n) IN
    /\ bundle.success /\ bundle.manifest # None
    /\ ArtifactsMatch(Declared(bundle)) /\ (Valid(bundle) \/ Rebuilt(bundle))
    /\ n > 0
    /\ \A i \in 1..n : chain[i] # None
    /\ Linked(chain)
    /\ chain[n].next = None
    /\ RawPages(bundle.raw) = 1..n
    /\ bundle.canon = AllRecords(chain)

DirectoriesSound(fs) ==
    \A d \in Dirs : fs[d] # None =>
        /\ Sound(fs[d])
        /\ d # 0 /\ fs[d].ckpt = None => fs[d].raw = NoRaw

\* The inductive invariant.
ChainInv ==
    /\ Inv
    /\ DirectoriesSound(disk)
    /\ \A p \in Procs : run[p].pc # "idle" =>
          At(run[p], disk[run[p].dir]) /\ Sourced(run[p], disk, output)
    /\ output # None => Complete(output)

-----------------------------------------------------------------------------
(* Chains, heads and histories.                                            *)

\* A page whose continuation is new may follow a chain that goes on.
LEMMA LinkedAppend ==
    ASSUME NEW chain \in Seq(Bodies), NEW page \in Bodies, Linked(chain),
           chain # <<>> => Next_(chain) # None, page.next \notin Seen(chain)
    PROVE  Linked(Append(chain, page))
<1> DEFINE new == Append(chain, page)
<1>1. /\ Len(new) = Len(chain) + 1 /\ Len(chain) \in Nat
      /\ \A i \in 1..Len(chain) : new[i] = chain[i]
      /\ new[Len(chain) + 1] = page
      /\ DOMAIN new = 1..(Len(chain) + 1) /\ DOMAIN chain = 1..Len(chain)
  <2>1. Len(chain) \in Nat /\ DOMAIN chain = 1..Len(chain)
    OBVIOUS
  <2>2. /\ Len(new) = Len(chain) + 1 /\ DOMAIN new = 1..(Len(chain) + 1)
        /\ new[Len(chain) + 1] = page
    BY <2>1
  <2>3. \A i \in 1..Len(chain) : new[i] = chain[i]
    BY <2>1
  <2>4. QED
    BY <2>1, <2>2, <2>3
<1> HIDE DEF new
<1>2. \A i \in 1..Len(chain) : chain[i].next # None
  <2> SUFFICES ASSUME NEW i \in 1..Len(chain), Len(chain) \in Nat
               PROVE  chain[i].next # None
    BY <1>1
  <2>1. CASE i = Len(chain)
    BY <2>1 DEF Next_
  <2>2. CASE i # Len(chain)
    <3>1. i \in 1..(Len(chain) - 1)
      BY <2>2
    <3>2. QED
      BY <3>1 DEF Linked
  <2>3. QED
    BY <2>1, <2>2
<1>3. \A i \in DOMAIN chain : chain[i].next # None => chain[i].next # page.next
  BY DEF Seen
<1>4. ASSUME NEW i \in DOMAIN new, NEW j \in DOMAIN new,
             new[i].next = new[j].next, new[i].next # None
      PROVE  i = j
  <2>1. CASE i \in DOMAIN chain /\ j \in DOMAIN chain
    BY <1>1, <1>4, <2>1 DEF Linked
  <2>2. CASE i \notin DOMAIN chain \/ j \notin DOMAIN chain
    BY <1>1, <1>3, <1>4, <2>2
  <2>3. QED
    BY <2>1, <2>2
<1>5. QED
  BY <1>2, <1>4 DEF Linked, new

\* A raw directory that holds the first k pages of a chain, as sets and as
\* sequences.
LEMMA HoldsPages ==
    ASSUME NEW raw, NEW chain \in Seq(Bodies), NEW k \in 0..Len(chain),
           Len(chain) <= MaxPages, Holds(raw, chain, k)
    PROVE  /\ RawPages(raw) = 1..k
           /\ Cardinality(RawPages(raw)) = k
           /\ \A n \in 1..k : raw[n] = chain[n] /\ raw[n] # None
           /\ k = Len(chain) => Pages(raw, Len(chain)) = chain
<1>1. /\ Len(chain) \in Nat /\ \A n \in 1..k : n \in PageNumbers
      /\ \A n \in 1..Len(chain) : chain[n] \in Bodies /\ chain[n] # None
  BY ConstantsAssumption DEF PageNumbers
<1>2. \A n \in PageNumbers : raw[n] # None <=> n \in 1..k
  BY <1>1 DEF Holds, PageNumbers
<1>3. RawPages(raw) = 1..k
  BY <1>1, <1>2 DEF RawPages
<1>4. Cardinality(1..k) = k
  BY FS_Interval
<1>5. \A n \in 1..k : raw[n] = chain[n]
  BY <1>1 DEF Holds
<1>6. k = Len(chain) => Pages(raw, Len(chain)) = chain
  BY <1>1, <1>5 DEF Pages
<1>7. QED
  BY <1>1, <1>2, <1>3, <1>4, <1>5, <1>6

\* The next page of the chain is written.
LEMMA HoldsNext ==
    ASSUME NEW raw \in [PageNumbers -> Bodies \cup {None}],
           NEW chain \in Seq(Bodies), NEW k \in 0..Len(chain),
           Holds(raw, chain, k), k + 1 \in 1..Len(chain)
    PROVE  Holds([raw EXCEPT ![k + 1] = chain[k + 1]], chain, k + 1)
<1>1. \A n \in PageNumbers : n \in Nat
  BY DEF PageNumbers
<1>2. QED
  BY <1>1 DEF Holds

\* A page is written after those of the chain.
LEMMA HoldsAppend ==
    ASSUME NEW raw \in [PageNumbers -> Bodies \cup {None}],
           NEW chain \in Seq(Bodies), NEW page \in Bodies,
           Holds(raw, chain, Len(chain))
    PROVE  Holds([raw EXCEPT ![Len(chain) + 1] = page], Append(chain, page),
                 Len(chain) + 1)
<1> DEFINE n == Len(chain)
           new == Append(chain, page)
<1>1. n \in Nat /\ \A i \in PageNumbers : i \in Nat /\ 1 <= i
  BY DEF PageNumbers
<1>2. new[n + 1] = page
  OBVIOUS
<1>3. \A i \in 1..n : new[i] = chain[i]
  OBVIOUS
<1> HIDE DEF n, new
<1> SUFFICES Holds([raw EXCEPT ![n + 1] = page], new, n + 1)
  BY DEF n, new
<1>4. ASSUME NEW i \in PageNumbers
      PROVE  [raw EXCEPT ![n + 1] = page][i] = IF i <= n + 1 THEN new[i] ELSE None
  <2>1. raw[i] = IF i <= n THEN chain[i] ELSE None
    BY DEF Holds, n
  <2>2. CASE i = n + 1
    BY <1>1, <1>2, <2>2
  <2>3. CASE i # n + 1
    BY <1>1, <1>3, <2>1, <2>3
  <2>4. QED
    BY <2>2, <2>3
<1>5. QED
  BY <1>4 DEF Holds

\* The number of pages a head names, and that nothing is lost by no write.
LEMMA GrowsItself ==
    ASSUME NEW D \in Directory
    PROVE  Grows(D, D) /\ (D.ckpt # None => D.ckpt.pages \in Nat)
<1>1. D.ckpt # None => D.ckpt \in Checkpoint
  BY DEF Directory
<1>2. D.ckpt # None => D.ckpt.pages \in Nat
  BY <1>1 DEF Checkpoint
<1>3. QED
  BY <1>2 DEF Grows

\* A directory whose pages are chain and whose head is one of chain.
LEMMA HeadSound ==
    ASSUME NEW D, NEW chain \in Seq(Bodies), NEW mode, HeadOf(D, chain, mode),
           Len(chain) <= MaxPages, Pages(D.raw, Len(chain)) = chain,
           Linked(chain)
    PROVE  Sound(D)
<1>1. /\ D.ckpt.pages = Len(chain) /\ D.ckpt.next = Next_(chain)
      /\ chain # <<>> => D.ckpt.last = chain[Len(chain)]
  BY DEF HeadOf
<1>2. /\ Len(chain) \in Nat
      /\ \A i \in 1..Len(chain) : chain[i] # None
      /\ Len(chain) > 0 => chain # <<>>
  BY ConstantsAssumption
<1>3. \A i \in 1..Len(chain) : D.raw[i] = chain[i]
  <2>1. \A i \in 1..Len(chain) : Pages(D.raw, Len(chain))[i] = D.raw[i]
    BY DEF Pages
  <2>2. QED
    BY <2>1
<1>4. QED
  BY <1>1, <1>2, <1>3 DEF Sound

\* A head that is written.
LEMMA NewHead ==
    ASSUME NEW D \in Directory, NEW version \in {2, 3},
           NEW chain \in Seq(Bodies), NEW history \in Seq(Line),
           NEW mode \in Modes, NEW E,
           E = [D EXCEPT !.ckpt = DurableHead(version, chain, history, mode)]
    PROVE  /\ E \in Directory /\ E.raw = D.raw /\ E.history = D.history
           /\ E.ckpt = DurableHead(version, chain, history, mode)
           /\ E.ckpt \in Checkpoint /\ E.ckpt.pages = Len(chain)
           /\ HeadOf(E, chain, mode)
<1> DEFINE head == DurableHead(version, chain, history, mode)
<1>1. head \in Checkpoint /\ head # None
  BY HeadType, AbsentAssumption
<1>2. /\ head.pages = Len(chain) /\ head.next = Next_(chain)
      /\ head.mode = mode
      /\ chain # <<>> => head.last = chain[Len(chain)]
  BY DEF DurableHead
<1> HIDE DEF head
<1>3. /\ E \in Directory /\ E.raw = D.raw /\ E.history = D.history
      /\ E.ckpt = head
  BY <1>1 DEF Directory, head
<1>4. HeadOf(E, chain, mode)
  BY <1>1, <1>2, <1>3 DEF HeadOf
<1>5. QED
  BY <1>1, <1>2, <1>3, <1>4 DEF head

\* A write that changes neither head nor pages.
LEMMA SameCommitment ==
    ASSUME NEW D \in Directory, NEW E, Sound(D), E.ckpt = D.ckpt, E.raw = D.raw
    PROVE  Sound(E) /\ Grows(D, E)
<1>1. D.ckpt # None => D.ckpt.pages \in Nat
  BY GrowsItself
<1>2. QED
  BY <1>1 DEF Sound, Grows

\* A write that leaves the head and the pages that are there.
LEMMA SameHead ==
    ASSUME NEW D, NEW E, E.ckpt = D.ckpt,
           \A n \in PageNumbers : D.raw[n] # None => E.raw[n] = D.raw[n],
           D.ckpt # None => D.ckpt.pages \in Nat
             /\ Pages(E.raw, D.ckpt.pages) = Pages(D.raw, D.ckpt.pages)
    PROVE  Grows(D, E)
BY DEF Grows

\* No pages.
LEMMA NoPages ==
    /\ <<>> \in Seq(Bodies) /\ <<>> \in Seq(Line) /\ Len(<<>>) = 0
    /\ Linked(<<>>)
    /\ \A raw : Pages(raw, 0) = <<>>
    /\ Holds(NoRaw, <<>>, 0)
    /\ Next_(<<>>) = None
<1>1. /\ <<>> \in Seq(Bodies) /\ <<>> \in Seq(Line) /\ Len(<<>>) = 0
      /\ DOMAIN <<>> = {}
  OBVIOUS
<1>2. Linked(<<>>)
  BY <1>1 DEF Linked
<1>3. \A raw : Pages(raw, 0) = <<>>
  BY DEF Pages
<1>4. Holds(NoRaw, <<>>, 0)
  BY DEF Holds, NoRaw, PageNumbers
<1>5. QED
  BY <1>1, <1>2, <1>3, <1>4 DEF Next_

\* A directory whose head names no pages yet.
LEMMA FirstHead ==
    ASSUME NEW D \in Directory, NEW mode, HeadOf(D, <<>>, mode),
           NEW E, E.ckpt = D.ckpt,
           \A n \in PageNumbers : D.raw[n] # None => E.raw[n] = D.raw[n]
    PROVE  /\ HeadOf(E, <<>>, mode) /\ Sound(E) /\ Grows(D, E)
           /\ E.ckpt # None /\ D.ckpt.pages = 0
<1>1. HeadOf(E, <<>>, mode) /\ E.ckpt # None /\ D.ckpt.pages = 0
  BY NoPages DEF HeadOf
<1>2. Pages(E.raw, 0) = <<>> /\ Pages(D.raw, 0) = <<>> /\ 0 <= MaxPages
  BY NoPages, ConstantsAssumption
<1>3. Sound(E)
  BY <1>1, <1>2, NoPages, HeadSound
<1>4. Grows(D, E)
  BY <1>1, <1>2, SameHead
<1>5. QED
  BY <1>1, <1>3, <1>4

\* Pages that are there stay the first of a chain.
LEMMA PagesStay ==
    ASSUME NEW D, NEW E, Grows(D, E), NEW chain \in Seq(Bodies),
           Len(chain) <= MaxPages, Pages(D.raw, Len(chain)) = chain
    PROVE  Pages(E.raw, Len(chain)) = chain
<1>1. \A i \in 1..Len(chain) : D.raw[i] = chain[i]
  <2>1. \A i \in 1..Len(chain) : Pages(D.raw, Len(chain))[i] = D.raw[i]
    BY DEF Pages
  <2>2. QED
    BY <2>1
<1>2. \A i \in 1..Len(chain) : i \in PageNumbers /\ chain[i] # None
  BY ConstantsAssumption DEF PageNumbers
<1>3. \A i \in 1..Len(chain) : E.raw[i] = chain[i]
  BY <1>1, <1>2 DEF Grows
<1>4. Pages(E.raw, Len(chain)) = [i \in 1..Len(chain) |-> chain[i]]
  BY <1>3 DEF Pages
<1>5. QED
  BY <1>4

\* The history rebuilt from pages of a directory may replace its history at
\* any time: its process goes on as it would have.
LEMMA AtRebuilt ==
    ASSUME NEW r \in Run, NEW D \in Directory, At(r, D),
           NEW chain \in Seq(Bodies), chain # <<>>, Len(chain) <= MaxPages,
           Pages(D.raw, Len(chain)) = chain,
           NEW E, E = [D EXCEPT !.history = LegacyHistory(chain)]
    PROVE  At(r, E)
<1> DEFINE n == Len(chain)
<1>1. /\ E.raw = D.raw /\ E.ckpt = D.ckpt /\ E.canon = D.canon
      /\ E.manifest = D.manifest /\ E.success = D.success
      /\ E.history = LegacyHistory(chain)
      /\ Declared(E) = Declared(D)
  BY DEF Directory, Declared
<1>2. \A c, mode : HeadOf(E, c, mode) <=> HeadOf(D, c, mode)
  BY <1>1 DEF HeadOf
<1>3. Initializing(r, E) /\ Resuming(r, E) /\ Remembering(r) /\ Committing(r, E)
  BY <1>1, <1>2 DEF At, Initializing, Resuming, Committing
<1>4. ASSUME r.pc \in {"check_history", "mark_success", "promote"} PROVE Rebuilt(E)
  <2>1. /\ Holds(D.raw, r.chain, Len(r.chain))
        /\ D.manifest.pages = Len(r.chain) /\ Len(r.chain) \in Nat
    BY <1>4 DEF At, Committing, Ending, Finishing, Run
  <2>2. n \in Nat /\ n > 0 /\ n \in PageNumbers /\ chain[n] # None
    BY ConstantsAssumption DEF PageNumbers
  <2>3. D.raw[n] = chain[n]
    <3>1. Pages(D.raw, n)[n] = D.raw[n]
      BY <2>2 DEF Pages
    <3> HIDE DEF n
    <3>2. QED
      BY <3>1 DEF n
  <2>4. n <= Len(r.chain)
    BY <2>1, <2>2, <2>3 DEF Holds
  <2>5. n \in 1..E.manifest.pages
    BY <1>1, <2>1, <2>2, <2>4
  <2>6. E.history = LegacyHistory(Pages(E.raw, n))
    BY <1>1
  <2> HIDE DEF n
  <2>7. QED
    BY <2>5, <2>6 DEF Rebuilt
<1>5. Ending(r, E)
  BY <1>1, <1>4 DEF At, Ending
<1>6. QED
  BY <1>3, <1>5 DEF At

-----------------------------------------------------------------------------
(* Steps.                                                                  *)

\* Every directory stays, and the committed part of it.
Growth ==
    \A d \in Dirs : disk[d] # None =>
        disk'[d] # None /\ Grows(disk[d], disk'[d])

\* What a resuming process knows of its source outlives the writes of others,
\* and the start of another collection.
LEMMA SourcedKept ==
    ASSUME NEW r \in Run, Len(r.chain) <= MaxPages, NEW out,
           NEW fs \in [Dirs -> Directory \cup {None}],
           NEW gs \in [Dirs -> Directory \cup {None}],
           Sourced(r, fs, out),
           \A d \in Dirs : fs[d] # None => gs[d] # None /\ Grows(fs[d], gs[d]),
           \A d \in Dirs : fs[d] = None => gs[d] = None \/ out = None
    PROVE  Sourced(r, gs, out)
<1> DEFINE s == r.source
<1>1. /\ r.head \in Nat /\ Len(r.chain) \in Nat /\ r.chain \in Seq(Bodies)
      /\ s \in Dirs \cup {None}
  BY DEF Run
<1>2. r.pc \in Rebuilding \cup Matched \cup {"read_pages"} =>
        s \in Dirs /\ s # None
  BY <1>1 DEF Sourced
<1>3. \A d \in Dirs : fs[d] # None /\ fs[d].ckpt # None =>
          /\ gs[d] # None /\ gs[d].ckpt # None
          /\ fs[d].ckpt.pages \in Nat /\ gs[d].ckpt.pages \in Nat
          /\ fs[d].ckpt.pages <= gs[d].ckpt.pages
  <2> TAKE d \in Dirs
  <2> HAVE fs[d] # None /\ fs[d].ckpt # None
  <2>1. gs[d] # None /\ gs[d].ckpt # None
    BY DEF Grows
  <2>2. fs[d].ckpt \in Checkpoint /\ gs[d].ckpt \in Checkpoint
    BY <2>1 DEF Directory
  <2>3. fs[d].ckpt.pages \in Nat /\ gs[d].ckpt.pages \in Nat
    BY <2>2 DEF Checkpoint
  <2>4. QED
    BY <2>1, <2>3 DEF Grows
<1>4. ASSUME NEW n \in Nat, s \in Dirs, HasPages(fs, out, s, n)
      PROVE  HasPages(gs, out, s, n)
  <2>1. CASE fs[s] # None
    BY <1>3, <1>4, <2>1 DEF HasPages
  <2>2. CASE fs[s] = None
    BY <1>4, <2>2 DEF HasPages
  <2>3. QED
    BY <2>1, <2>2
<1>5. ASSUME s \in Dirs, IsSomewhere(fs, out, s), StartsWith(fs, out, s, r.chain)
      PROVE  IsSomewhere(gs, out, s) /\ StartsWith(gs, out, s, r.chain)
  <2>1. CASE fs[s] # None
    BY <1>1, <1>5, <2>1, PagesStay DEF StartsWith, IsSomewhere
  <2>2. CASE fs[s] = None
    BY <1>5, <2>2 DEF StartsWith, IsSomewhere
  <2>3. QED
    BY <2>1, <2>2
<1>6. r.pc \in Rebuilding => r.chain # <<>>
  BY DEF Sourced
<1>7. r.pc \in Rebuilding \cup Matched =>
          /\ s # None /\ IsSomewhere(gs, out, s)
          /\ StartsWith(gs, out, s, r.chain)
  BY <1>2, <1>5 DEF Sourced
<1>8. r.pc = "read_pages" => s # None /\ HasPages(gs, out, s, r.head)
  BY <1>1, <1>2, <1>4 DEF Sourced
<1>9. r.pc \in Matched => HasPages(gs, out, s, Len(r.chain))
  BY <1>1, <1>2, <1>4 DEF Sourced
<1>10. QED
  BY <1>6, <1>7, <1>8, <1>9 DEF Sourced

\* A write of one file by a running process, which the owner of the directory
\* would not miss.
LEMMA ChainStep ==
    ASSUME ChainInv, NEW p \in Procs, Progress(p),
           NEW e \in Dirs, disk[e] # None,
           NEW E \in Directory, disk' = [disk EXCEPT ![e] = E],
           Sound(E), e # 0 /\ E.ckpt = None => E.raw = NoRaw,
           Grows(disk[e], E),
           \A q \in Procs \ {p} :
               run[q].pc # "idle" /\ run[q].dir = e => At(run[q], E),
           run'[p].pc # "idle" =>
               /\ At(run'[p], disk'[run[p].dir])
               /\ Sourced(run'[p], disk, output)
    PROVE  ChainInv' /\ Growth
<1>1. Inv'
  BY ProgressKeepsInv DEF ChainInv
<1>2. /\ disk \in [Dirs -> Directory \cup {None}]
      /\ disk' \in [Dirs -> Directory \cup {None}]
      /\ run \in [Procs -> Run] /\ run' \in [Procs -> Run]
      /\ E # None
  BY <1>1, AbsentAssumption DEF ChainInv, Inv, TypeOK
<1>3. /\ disk'[e] = E /\ \A d \in Dirs \ {e} : disk'[d] = disk[d]
      /\ output' = output
      /\ \A q \in Procs \ {p} : run'[q] = run[q]
  BY <1>2 DEF Progress
<1>4. Growth
  <2>1. \A d \in Dirs : disk[d] # None => disk[d] \in Directory
    BY <1>2
  <2>2. QED
    BY <1>2, <1>3, <2>1, GrowsItself DEF Growth
<1>5. DirectoriesSound(disk')
  BY <1>2, <1>3 DEF ChainInv, DirectoriesSound
<1>6. ASSUME NEW r \in Run, Len(r.chain) <= MaxPages, Sourced(r, disk, output)
      PROVE  Sourced(r, disk', output')
  <2>1. \A d \in Dirs : disk[d] = None => disk'[d] = None
    BY <1>3
  <2>2. QED
    BY <1>2, <1>3, <1>4, <1>6, <2>1, SourcedKept DEF Growth
<1>7. \A q \in Procs : Len(run'[q].chain) <= MaxPages
  BY <1>1 DEF Inv, StageOK, StageAt
<1>8. ASSUME NEW q \in Procs, run'[q].pc # "idle"
      PROVE  At(run'[q], disk'[run'[q].dir]) /\ Sourced(run'[q], disk', output')
  <2>1. CASE q = p
    <3>1. PICK r \in Run : r = run'[p]
      BY <1>2
    <3>2. Sourced(r, disk', output')
      BY <1>6, <1>7, <1>8, <2>1, <3>1
    <3>3. run'[p].dir = run[p].dir
      BY <1>8, <2>1 DEF Progress
    <3>4. QED
      BY <1>8, <2>1, <3>1, <3>2, <3>3
  <2>2. CASE q # p
    <3>1. run'[q] = run[q] /\ run[q].pc # "idle" /\ run[q] \in Run
      BY <1>2, <1>3, <1>8, <2>2
    <3>2. run[q].dir \in Dirs
      BY <3>1 DEF Run
    <3>3. At(run[q], disk[run[q].dir]) /\ Sourced(run[q], disk, output)
      BY <3>1 DEF ChainInv
    <3>4. At(run[q], disk'[run[q].dir])
      BY <1>3, <2>2, <3>1, <3>2, <3>3
    <3>5. Len(run[q].chain) <= MaxPages
      BY <1>7, <3>1
    <3>6. QED
      BY <1>6, <3>1, <3>3, <3>4, <3>5
  <2>3. QED
    BY <2>1, <2>2
<1>9. output' # None => Complete(output')
  BY <1>3 DEF ChainInv
<1>10. QED
  BY <1>1, <1>4, <1>5, <1>8, <1>9 DEF ChainInv

\* A write into the process's own directory.
LEMMA OwnStep ==
    ASSUME ChainInv, NEW p \in Procs, Progress(p),
           NEW E \in Directory, disk' = [disk EXCEPT ![run[p].dir] = E],
           Sound(E), E.ckpt = None => E.raw = NoRaw, Grows(Own(p), E),
           run'[p].pc # "idle" =>
               At(run'[p], E) /\ Sourced(run'[p], disk, output)
    PROVE  ChainInv' /\ Growth
<1>1. /\ run[p].pc # "idle" /\ run[p] \in Run
      /\ disk \in [Dirs -> Directory \cup {None}]
  BY DEF Progress, ChainInv, Inv, TypeOK
<1>2. PICK e \in Dirs : e = run[p].dir
  BY <1>1 DEF Run
<1>3. disk[e] # None /\ Own(p) = disk[e]
  BY <1>1, <1>2 DEF ChainInv, Inv, Owned, Own
<1>4. \A q \in Procs \ {p} : ~(run[q].pc # "idle" /\ run[q].dir = e)
  BY <1>1, <1>2 DEF ChainInv, Inv, Owned
<1>5. disk' = [disk EXCEPT ![e] = E] /\ disk'[run[p].dir] = E
  BY <1>1, <1>2
<1>6. \A q \in Procs \ {p} :
          run[q].pc # "idle" /\ run[q].dir = e => At(run[q], E)
  BY <1>4
<1>7. /\ E \in Directory /\ disk' = [disk EXCEPT ![e] = E] /\ Progress(p)
      /\ Sound(E) /\ Grows(disk[e], E) /\ disk[e] # None
      /\ e # 0 /\ E.ckpt = None => E.raw = NoRaw
      /\ run'[p].pc # "idle" =>
            At(run'[p], disk'[run[p].dir]) /\ Sourced(run'[p], disk, output)
  BY <1>3, <1>5
<1>8. QED
  BY <1>6, <1>7, ChainStep

\* What At says at each group of stages.
LEMMA AtInitializing ==
    ASSUME NEW r, NEW D, r.pc \in {"initialize_history", "initialize_head"}
    PROVE  At(r, D) <=> D.ckpt = None /\ r.chain = <<>>
BY DEF At, Initializing, Resuming, Remembering, Committing, Ending,
       ResumeStages, Copying, Matched, Fetching, Storing, Finishing, Rebuilding

LEMMA AtReading ==
    ASSUME NEW r, NEW D, r.pc \in ResumeStages \ Copying
    PROVE  At(r, D) <=>
             /\ HeadOf(D, <<>>, r.mode) /\ D.raw = NoRaw
             /\ r.pc \in Matched \cup Rebuilding => Linked(r.chain)
BY DEF At, Initializing, Resuming, Remembering, Committing, Ending,
       ResumeStages, Copying, Matched, Fetching, Storing, Finishing, Rebuilding

LEMMA AtCopying ==
    ASSUME NEW r, NEW D, r.pc \in Copying
    PROVE  At(r, D) <=>
             /\ HeadOf(D, <<>>, r.mode) /\ Linked(r.chain)
             /\ IF r.pc = "copy_pages"
                THEN \E k \in 0..Len(r.chain) : Holds(D.raw, r.chain, k)
                ELSE Holds(D.raw, r.chain, Len(r.chain))
BY DEF At, Initializing, Resuming, Remembering, Committing, Ending,
       ResumeStages, Copying, Matched, Fetching, Storing, Finishing, Rebuilding

LEMMA AtFetching ==
    ASSUME NEW r, NEW D, r.pc \in Fetching
    PROVE  At(r, D) <=>
             /\ Linked(r.chain)
             /\ r.chain # <<>> => Next_(r.chain) # None
             /\ Holds(D.raw, r.chain, Len(r.chain))
             /\ HeadOf(D, r.chain, r.mode)
             /\ r.pc = "store_page" =>
                   r.page # None /\ r.page.next \notin Seen(r.chain)
BY DEF At, Initializing, Resuming, Remembering, Committing, Ending,
       ResumeStages, Copying, Matched, Fetching, Storing, Finishing, Rebuilding

LEMMA AtStoring ==
    ASSUME NEW r, NEW D, r.pc \in Storing
    PROVE  At(r, D) <=>
             /\ Linked(r.chain)
             /\ r.chain # <<>> => Next_(r.chain) # None
             /\ r.page # None /\ r.page.next \notin Seen(r.chain)
             /\ Len(r.chain) < MaxPages
             /\ Holds(D.raw, Append(r.chain, r.page), Len(r.chain) + 1)
             /\ \/ HeadOf(D, r.chain, r.mode)
                \/ r.pc = "rollback"
                   /\ HeadOf(D, Append(r.chain, r.page), r.mode)
BY DEF At, Initializing, Resuming, Remembering, Committing, Ending,
       ResumeStages, Copying, Matched, Fetching, Storing, Finishing, Rebuilding

LEMMA AtFinishing ==
    ASSUME NEW r, NEW D, r.pc \in Finishing
    PROVE  At(r, D) <=>
             /\ Linked(r.chain)
             /\ Holds(D.raw, r.chain, Len(r.chain))
             /\ HeadOf(D, r.chain, r.mode)
             /\ Ending(r, D)
BY DEF At, Initializing, Resuming, Remembering, Committing, Ending,
       ResumeStages, Copying, Matched, Fetching, Storing, Finishing, Rebuilding

\* Nothing is asked of a process that fails.
LEMMA AtDiagnose ==
    ASSUME NEW r, NEW D, NEW fs, NEW out, r.pc = "diagnose"
    PROVE  At(r, D) /\ Sourced(r, fs, out)
BY DEF At, Initializing, Resuming, Remembering, Committing, Ending, Sourced,
       ResumeStages, Copying, Matched, Fetching, Storing, Finishing, Rebuilding

\* Nothing is known of the source where none is used.
LEMMA Unsourced ==
    ASSUME NEW r, NEW fs, NEW out,
           r.pc \notin Matched \cup Rebuilding \cup {"read_pages"}
    PROVE  Sourced(r, fs, out)
BY DEF Sourced

\* What the invariant says of a running process.
LEMMA Running ==
    ASSUME ChainInv, NEW p \in Procs, run[p].pc # "idle"
    PROVE  /\ run[p] \in Run /\ StageOK(run[p])
           /\ run[p].chain \in Seq(Bodies) /\ run[p].history \in Seq(Line)
           /\ run[p].digest \in Seq(Line) /\ run[p].mode \in Modes
           /\ Len(run[p].chain) \in Nat /\ Len(run[p].chain) <= MaxPages
           /\ run[p].dir \in Dirs /\ run[p].dir # 0
           /\ Own(p) = disk[run[p].dir] /\ Own(p) # None /\ Own(p) \in Directory
           /\ Own(p).raw \in [PageNumbers -> Bodies \cup {None}]
           /\ Sound(Own(p)) /\ (Own(p).ckpt = None => Own(p).raw = NoRaw)
           /\ At(run[p], Own(p)) /\ Sourced(run[p], disk, output)
<1>1. run[p] \in Run /\ StageOK(run[p])
  BY DEF ChainInv, Inv, TypeOK
<1>2. Own(p) \in Directory /\ run[p].dir \in Dirs
  BY OwnDirectory DEF ChainInv
<1>3. run[p].dir # 0 /\ Len(run[p].chain) <= MaxPages
  BY <1>1 DEF StageOK, StageAt
<1>4. Own(p) = disk[run[p].dir] /\ Own(p) # None
  BY <1>2, AbsentAssumption DEF Own
<1>5. Sound(Own(p)) /\ (Own(p).ckpt = None => Own(p).raw = NoRaw)
  BY <1>2, <1>3, <1>4 DEF ChainInv, DirectoriesSound
<1>6. At(run[p], Own(p)) /\ Sourced(run[p], disk, output)
  BY <1>4 DEF ChainInv
<1>7. Own(p).raw \in [PageNumbers -> Bodies \cup {None}]
  BY <1>2 DEF Directory
<1>8. /\ run[p].chain \in Seq(Bodies) /\ run[p].history \in Seq(Line)
      /\ run[p].digest \in Seq(Line) /\ run[p].mode \in Modes
  BY <1>1 DEF Run
<1>9. Len(run[p].chain) \in Nat
  BY <1>8
<1>10. QED
  BY <1>1, <1>2, <1>3, <1>4, <1>5, <1>6, <1>7, <1>8, <1>9

\* A step in memory.
LEMMA MemoryStep ==
    ASSUME ChainInv, NEW p \in Procs, Progress(p), disk' = disk,
           run'[p].pc # "idle" =>
               At(run'[p], Own(p)) /\ Sourced(run'[p], disk, output)
    PROVE  ChainInv' /\ Growth
<1>1. run[p].pc # "idle"
  BY DEF Progress
<1>2. /\ run[p].dir \in Dirs /\ Own(p) \in Directory
      /\ Own(p) = disk[run[p].dir] /\ Sound(Own(p))
      /\ Own(p).ckpt = None => Own(p).raw = NoRaw
  BY <1>1, Running
<1>3. disk' = [disk EXCEPT ![run[p].dir] = Own(p)]
  <2>1. disk \in [Dirs -> Directory \cup {None}]
    BY DEF ChainInv, Inv, TypeOK
  <2>2. QED
    BY <1>2, <2>1
<1>4. Grows(Own(p), Own(p))
  BY <1>2, GrowsItself
<1>5. QED
  BY <1>2, <1>3, <1>4, OwnStep

\* A write by Replace into the process's own directory.
LEMMA OwnReplace ==
    ASSUME ChainInv, NEW p \in Procs, Progress(p),
           NEW new \in Directory, NEW next,
           Replace(p, run[p].dir, new, next, "diagnose"),
           Sound(new), new.ckpt = None => new.raw = NoRaw, Grows(Own(p), new),
           At([run[p] EXCEPT !.pc = next], new),
           Sourced([run[p] EXCEPT !.pc = next], disk, output)
    PROVE  ChainInv' /\ Growth
<1>1. run[p].pc # "idle" /\ run \in [Procs -> Run] /\ run[p] \in Run
  BY DEF Progress, ChainInv, Inv, TypeOK
<1>2. ASSUME Goto(p, "diagnose"), NEW D
      PROVE  At(run'[p], D) /\ Sourced(run'[p], disk, output)
  <2>1. run'[p] = [run[p] EXCEPT !.pc = "diagnose"]
    BY <1>1, <1>2 DEF Goto
  <2>2. run'[p].pc = "diagnose"
    BY <1>1, <2>1 DEF Run
  <2>3. QED
    BY <2>2, AtDiagnose
<1>3. CASE disk' = disk /\ Goto(p, "diagnose")
  BY <1>2, <1>3, MemoryStep
<1>4. CASE /\ disk' = [disk EXCEPT ![run[p].dir] = new]
           /\ Goto(p, next) \/ Goto(p, "diagnose")
  <2>1. At(run'[p], new) /\ Sourced(run'[p], disk, output)
    <3>1. CASE Goto(p, next)
      <4>1. run'[p] = [run[p] EXCEPT !.pc = next]
        BY <1>1, <3>1 DEF Goto
      <4>2. QED
        BY <4>1
    <3>2. QED
      BY <1>2, <1>4, <3>1
  <2>2. QED
    BY <1>4, <2>1, OwnStep
<1>5. QED
  BY <1>3, <1>4 DEF Replace

\* A run that fails goes to its diagnosis, which knows nothing of the chain.
LEMMA DiagnosisKeeps ==
    ASSUME ChainInv, NEW p \in Procs, Progress(p), disk' = disk, Fail(p)
    PROVE  ChainInv' /\ Growth
<1>1. run[p] \in Run /\ run'[p] = [run[p] EXCEPT !.pc = "diagnose"]
  BY DEF Fail, ChainInv, Inv, TypeOK
<1>2. run'[p].pc = "diagnose"
  BY <1>1 DEF Run
<1>3. At(run'[p], Own(p)) /\ Sourced(run'[p], disk, output)
  BY <1>2, AtDiagnose
<1>4. QED
  BY <1>3, MemoryStep

\* A process that fails in memory.
LEMMA FailKeeps ==
    ASSUME ChainInv, NEW p \in Procs, run[p].pc # "idle", FailUnchanged(p)
    PROVE  ChainInv' /\ Growth
<1>1. Progress(p)
  BY FailStep DEF ChainInv
<1>2. QED
  BY <1>1, DiagnosisKeeps DEF FailUnchanged

\* A change of stage leaves the rest of the memory.
LEMMA GoneTo ==
    ASSUME ChainInv, NEW p \in Procs, NEW stage, Goto(p, stage)
    PROVE  /\ run'[p] = [run[p] EXCEPT !.pc = stage]
           /\ run'[p].pc = stage /\ run'[p].chain = run[p].chain
           /\ run'[p].history = run[p].history /\ run'[p].mode = run[p].mode
           /\ run'[p].source = run[p].source /\ run'[p].head = run[p].head
           /\ run'[p].page = run[p].page
<1>1. run[p] \in Run /\ run'[p] = [run[p] EXCEPT !.pc = stage]
  BY DEF Goto, ChainInv, Inv, TypeOK
<1>2. QED
  BY <1>1 DEF Run

LEMMA InitializeHistoryKeeps ==
    ASSUME ChainInv, NEW p \in Procs, InitializeHistory(p)
    PROVE  ChainInv' /\ Growth
<1> DEFINE D == Own(p)
           new == [D EXCEPT !.history = <<>>]
           r == [run[p] EXCEPT !.pc = "initialize_head"]
<1>0. run[p].pc = "initialize_history" /\ Inv /\ Progress(p)
  BY InitializeSteps DEF InitializeHistory, ChainInv
<1>1. /\ D \in Directory /\ run[p] \in Run /\ At(run[p], D)
      /\ D.ckpt = None => D.raw = NoRaw
      /\ Sound(D)
  BY <1>0, Running
<1>2. D.ckpt = None /\ run[p].chain = <<>>
  BY <1>0, <1>1, AtInitializing
<1>3. new \in Directory /\ new.ckpt = None /\ new.raw = D.raw
  BY <1>1, <1>2, NoPages DEF Directory
<1>4. r.pc = "initialize_head" /\ r.chain = <<>>
  BY <1>1, <1>2 DEF Run
<1>5. Replace(p, run[p].dir, new, "initialize_head", "diagnose")
  BY DEF InitializeHistory
<1> HIDE DEF new, r
<1>6. Grows(D, new) /\ Sound(new)
  BY <1>1, <1>2, <1>3, SameCommitment
<1>7. At(r, new) /\ Sourced(r, disk, output)
  BY <1>3, <1>4, AtInitializing, Unsourced DEF Matched, Copying, Rebuilding
<1>8. QED
  BY <1>0, <1>1, <1>2, <1>3, <1>5, <1>6, <1>7, OwnReplace DEF r

LEMMA InitializeHeadKeeps ==
    ASSUME ChainInv, NEW p \in Procs, InitializeHead(p)
    PROVE  ChainInv' /\ Growth
<1> DEFINE D == Own(p)
           new == [D EXCEPT !.ckpt = DurableHead(3, <<>>, <<>>, run[p].mode)]
           next == IF run[p].source = None THEN "next_page" ELSE "resume_source"
           r == [run[p] EXCEPT !.pc = next]
<1>0. run[p].pc = "initialize_head" /\ Inv /\ Progress(p)
  BY InitializeSteps DEF InitializeHead, ChainInv
<1>1. /\ D \in Directory /\ run[p] \in Run /\ At(run[p], D)
      /\ D.ckpt = None => D.raw = NoRaw
      /\ run[p].mode \in Modes
  BY <1>0, Running
<1>2. D.ckpt = None /\ run[p].chain = <<>> /\ D.raw = NoRaw
  BY <1>0, <1>1, AtInitializing
<1>3. Replace(p, run[p].dir, new, next, "diagnose")
  BY DEF InitializeHead
<1>4. r.pc = next /\ r.chain = <<>> /\ r.mode = run[p].mode
  BY <1>1, <1>2 DEF Run
<1>5. /\ new \in Directory /\ new.raw = NoRaw /\ HeadOf(new, <<>>, run[p].mode)
      /\ new.ckpt # None
  <2>1. /\ new \in Directory /\ new.raw = D.raw
        /\ HeadOf(new, <<>>, run[p].mode)
    <3>1. PICK chain \in Seq(Bodies), history \in Seq(Line) :
              chain = <<>> /\ history = <<>>
      BY NoPages
    <3>2. 3 \in {2, 3} /\ run[p].mode \in Modes /\ D \in Directory
      BY <1>1
    <3>3. new = [D EXCEPT !.ckpt = DurableHead(3, chain, history, run[p].mode)]
      BY <3>1
    <3> HIDE DEF new, D
    <3>4. /\ new \in Directory /\ new.raw = D.raw
          /\ HeadOf(new, chain, run[p].mode)
      BY <3>2, <3>3, NewHead
    <3>5. QED
      BY <3>1, <3>4
  <2>2. new.ckpt # None
    BY <2>1 DEF HeadOf
  <2>3. QED
    BY <1>2, <2>1, <2>2
<1> HIDE DEF new
<1>6. Sound(new)
  BY <1>5, FirstHead
<1>7. Grows(D, new)
  BY <1>2, <1>5 DEF Grows
<1>8. At(r, new)
  <2>1. CASE run[p].source = None
    <3>1. r.pc = "next_page" /\ r.pc \in Fetching
      BY <1>4, <2>1 DEF Fetching
    <3> HIDE DEF r, next
    <3>2. QED
      BY <1>4, <1>5, <3>1, NoPages, AtFetching
  <2>2. CASE run[p].source # None
    <3>1. r.pc = "resume_source" /\ r.pc \in ResumeStages \ Copying
          /\ r.pc \notin Matched \cup Rebuilding
      BY <1>4, <2>2 DEF ResumeStages, Copying, Matched, Rebuilding
    <3> HIDE DEF r, next
    <3>2. QED
      BY <1>4, <1>5, <3>1, AtReading
  <2>3. QED
    BY <2>1, <2>2
<1>9. Sourced(r, disk, output)
  <2>1. r.pc \in {"next_page", "resume_source"}
    BY <1>4
  <2>2. QED
    BY <2>1, Unsourced DEF Matched, Copying, Rebuilding
<1> HIDE DEF r, next
<1>10. QED
  BY <1>0, <1>3, <1>5, <1>6, <1>7, <1>8, <1>9, OwnReplace DEF r

\* The source of a resume that is there.
LEMMA SourceFacts ==
    ASSUME ChainInv, NEW p \in Procs, run[p].pc \in ResumeStages,
           disk[run[p].source] # None
    PROVE  /\ run[p].source \in Dirs /\ Source(p) = disk[run[p].source]
           /\ Source(p) \in Directory /\ Sound(Source(p))
           /\ Source(p).raw \in [PageNumbers -> Bodies \cup {None}]
           /\ Source(p).history # None => Source(p).history \in Seq(Line)
           /\ Source(p).ckpt # None =>
                 /\ Source(p).ckpt \in Checkpoint
                 /\ Source(p).ckpt.pages \in Nat
<1>1. run[p].source \in Dirs /\ Source(p) \in Directory
  BY SourceType DEF ChainInv
<1>2. Source(p) = disk[run[p].source] /\ Sound(Source(p))
  BY <1>1 DEF Source, ChainInv, DirectoriesSound
<1>3. Source(p).ckpt # None => Source(p).ckpt \in Checkpoint
  BY <1>1 DEF Directory
<1>4. /\ Source(p).raw \in [PageNumbers -> Bodies \cup {None}]
      /\ Source(p).history # None => Source(p).history \in Seq(Line)
  BY <1>1 DEF Directory
<1>5. QED
  BY <1>1, <1>2, <1>3, <1>4 DEF Checkpoint

\* The decisions before anything is read of the source.
LEMMA ResumeSourceKeeps ==
    ASSUME ChainInv, NEW p \in Procs, ResumeSource(p) \/ CheckReconstruct(p)
    PROVE  ChainInv' /\ Growth
<1>0. /\ run[p].pc \in {"resume_source", "check_reconstruct"}
      /\ Inv /\ Progress(p) /\ disk' = disk /\ output' = output
  BY ReadSteps DEF ResumeSource, CheckReconstruct, ChainInv
<1>1. CASE Fail(p)
  BY <1>0, <1>1, FailKeeps DEF FailUnchanged
<1>2. CASE ~Fail(p)
  <2>1. PICK stage \in {"check_reconstruct", "reconstruct_state", "read_head"} :
            Goto(p, stage)
    BY <1>2 DEF ResumeSource, CheckReconstruct
  <2>2. run'[p].pc = stage /\ run'[p].mode = run[p].mode
    BY <2>1, GoneTo
  <2>3. At(run[p], Own(p))
    BY <1>0, Running
  <2>4. HeadOf(Own(p), <<>>, run[p].mode) /\ Own(p).raw = NoRaw
    BY <1>0, <2>3, AtReading DEF ResumeStages, Copying
  <2>5. /\ run'[p].pc \in ResumeStages \ Copying
        /\ run'[p].pc \notin Matched \cup Rebuilding \cup {"read_pages"}
    BY <2>2 DEF ResumeStages, Copying, Matched, Rebuilding
  <2>6. QED
    BY <1>0, <2>2, <2>4, <2>5, AtReading, Unsourced, MemoryStep
<1>3. QED
  BY <1>1, <1>2

LEMMA ReadHeadKeeps ==
    ASSUME ChainInv, NEW p \in Procs, ReadHead(p)
    PROVE  ChainInv' /\ Growth
<1>0. /\ run[p].pc = "read_head" /\ Inv /\ Progress(p) /\ disk' = disk
      /\ run[p].pc \in ResumeStages \ Copying
  BY ReadSteps DEF ReadHead, ChainInv, ResumeStages, Copying
<1>1. CASE Fail(p)
  BY <1>0, <1>1, FailKeeps DEF FailUnchanged, ReadHead
<1>2. CASE ~Fail(p)
  <2>1. /\ disk[run[p].source] # None /\ Source(p).ckpt # None
        /\ run' = [run EXCEPT ![p].pc = "read_pages",
                              ![p].head = Source(p).ckpt.pages]
    BY <1>2 DEF ReadHead
  <2>2. run[p] \in Run /\ run[p].source # None /\ At(run[p], Own(p))
    BY <1>0, Running DEF StageOK, StageAt
  <2>3. run'[p] = [run[p] EXCEPT !.pc = "read_pages",
                                 !.head = Source(p).ckpt.pages]
    BY <2>1 DEF ChainInv, Inv, TypeOK
  <2>4. /\ run'[p].pc = "read_pages" /\ run'[p].head = Source(p).ckpt.pages
        /\ run'[p].source = run[p].source /\ run'[p].mode = run[p].mode
    BY <2>2, <2>3 DEF Run
  <2>5. HeadOf(Own(p), <<>>, run[p].mode) /\ Own(p).raw = NoRaw
    BY <1>0, <2>2, AtReading
  <2>6. /\ run'[p].pc \in ResumeStages \ Copying
        /\ run'[p].pc \notin Matched \cup Rebuilding
    BY <2>4 DEF ResumeStages, Copying, Matched, Rebuilding
  <2>7. At(run'[p], Own(p))
    BY <2>4, <2>5, <2>6, AtReading
  <2>8. Source(p).ckpt.pages \in Nat /\ Source(p) = disk[run[p].source]
    BY <1>0, <2>1, SourceFacts
  <2>9. HasPages(disk, output, run[p].source, Source(p).ckpt.pages)
    BY <2>1, <2>8 DEF HasPages
  <2>10. Sourced(run'[p], disk, output)
    BY <2>2, <2>4, <2>6, <2>9 DEF Sourced
  <2>11. QED
    BY <1>0, <2>7, <2>10, MemoryStep
<1>3. QED
  BY <1>1, <1>2

LEMMA ReadPagesKeeps ==
    ASSUME ChainInv, NEW p \in Procs, ReadPages(p)
    PROVE  ChainInv' /\ Growth
<1>0. /\ run[p].pc = "read_pages" /\ Inv /\ Progress(p) /\ disk' = disk
      /\ run[p].pc \in ResumeStages \ Copying
  BY ReadPagesStep DEF ReadPages, ChainInv, ResumeStages, Copying
<1>1. CASE Fail(p)
  BY <1>0, <1>1, FailKeeps DEF FailUnchanged, ReadPages
<1>2. CASE ~Fail(p)
  <2> DEFINE n == run[p].head
             raw == Source(p).raw
             ns == {i \in RawPages(raw) : i <= n}
             chain == Pages(raw, n)
  <2>1. /\ disk[run[p].source] # None
        /\ Readable(raw, ns) /\ Cardinality(ns) = n
        /\ run' = [run EXCEPT ![p].pc = "match_head", ![p].chain = chain]
    BY <1>2 DEF ReadPages
  <2>2. /\ run[p] \in Run /\ run[p].source # None /\ At(run[p], Own(p))
        /\ Sourced(run[p], disk, output)
    BY <1>0, Running DEF StageOK, StageAt
  <2>3. n \in Nat /\ raw \in [PageNumbers -> Bodies \cup {None}]
        /\ Source(p) = disk[run[p].source]
    BY <1>0, <2>1, <2>2, SourceFacts DEF Run
  <2>4. chain \in Seq(Bodies) /\ Len(chain) = n
    BY <2>1, <2>3, ReadableType
  <2>5. Linked(chain)
    BY <2>1, <2>3 DEF Readable, Chained, Linked, Pages
  <2>6. HasPages(disk, output, run[p].source, n)
    BY <1>0, <2>2 DEF Sourced
  <2>7. /\ StartsWith(disk, output, run[p].source, chain)
        /\ IsSomewhere(disk, output, run[p].source)
    BY <2>1, <2>3, <2>4 DEF StartsWith, IsSomewhere
  <2> HIDE DEF chain
  <2>8. run'[p] = [run[p] EXCEPT !.pc = "match_head", !.chain = chain]
    BY <2>1 DEF ChainInv, Inv, TypeOK
  <2>9. /\ run'[p].pc = "match_head" /\ run'[p].chain = chain
        /\ run'[p].source = run[p].source /\ run'[p].mode = run[p].mode
    BY <2>2, <2>8 DEF Run
  <2>10. HeadOf(Own(p), <<>>, run[p].mode) /\ Own(p).raw = NoRaw
    BY <1>0, <2>2, AtReading
  <2>11. At(run'[p], Own(p))
    BY <2>5, <2>9, <2>10, AtReading DEF ResumeStages, Copying
  <2>12. Sourced(run'[p], disk, output)
    BY <2>2, <2>4, <2>6, <2>7, <2>9 DEF Sourced, Rebuilding
  <2>13. QED
    BY <1>0, <2>11, <2>12, MemoryStep
<1>3. QED
  BY <1>1, <1>2

LEMMA MatchHeadKeeps ==
    ASSUME ChainInv, NEW p \in Procs, MatchHead(p)
    PROVE  ChainInv' /\ Growth
<1>0. /\ run[p].pc = "match_head" /\ Inv /\ Progress(p) /\ disk' = disk
      /\ run[p].pc \in ResumeStages \ Copying /\ run[p].pc \in Matched
  BY ReadSteps DEF MatchHead, ChainInv, ResumeStages, Copying, Matched
<1>1. CASE Fail(p)
  BY <1>0, <1>1, FailKeeps DEF FailUnchanged, MatchHead
<1>2. CASE ~Fail(p)
  <2>1. Goto(p, "read_history")
    BY <1>2 DEF MatchHead
  <2>2. /\ run[p] \in Run /\ At(run[p], Own(p)) /\ Sourced(run[p], disk, output)
    BY <1>0, Running
  <2>3. /\ run'[p].pc = "read_history" /\ run'[p].chain = run[p].chain
        /\ run'[p].source = run[p].source /\ run'[p].mode = run[p].mode
    BY <2>1, GoneTo
  <2>4. /\ HeadOf(Own(p), <<>>, run[p].mode)
        /\ Own(p).raw = NoRaw /\ Linked(run[p].chain)
    BY <1>0, <2>2, AtReading
  <2>5. At(run'[p], Own(p))
    BY <2>3, <2>4, AtReading DEF ResumeStages, Copying
  <2>6. Sourced(run'[p], disk, output)
    BY <1>0, <2>2, <2>3 DEF Sourced, Matched, Rebuilding
  <2>7. QED
    BY <1>0, <2>5, <2>6, MemoryStep
<1>3. QED
  BY <1>1, <1>2

LEMMA ReadHistoryKeeps ==
    ASSUME ChainInv, NEW p \in Procs, ReadHistory(p)
    PROVE  ChainInv' /\ Growth
<1>0. /\ run[p].pc = "read_history" /\ Inv /\ Progress(p) /\ disk' = disk
      /\ run[p].pc \in ResumeStages \ Copying /\ run[p].pc \in Matched
  BY ReadSteps DEF ReadHistory, ChainInv, ResumeStages, Copying, Matched
<1>1. CASE Fail(p)
  BY <1>0, <1>1, FailKeeps DEF FailUnchanged, ReadHistory
<1>2. CASE ~Fail(p)
  <2> DEFINE chain == run[p].chain
  <2>1. PICK history :
            run' = [run EXCEPT ![p].pc = "copy_pages", ![p].history = history]
    BY <1>2 DEF ReadHistory
  <2>2. /\ run[p] \in Run /\ At(run[p], Own(p)) /\ Sourced(run[p], disk, output)
        /\ chain \in Seq(Bodies) /\ Len(chain) \in Nat
    BY <1>0, Running
  <2>3. run'[p] = [run[p] EXCEPT !.pc = "copy_pages", !.history = history]
    BY <2>1 DEF ChainInv, Inv, TypeOK
  <2>4. /\ run'[p].pc = "copy_pages" /\ run'[p].chain = chain
        /\ run'[p].source = run[p].source /\ run'[p].mode = run[p].mode
    BY <2>2, <2>3 DEF Run
  <2>5. HeadOf(Own(p), <<>>, run[p].mode) /\ Own(p).raw = NoRaw /\ Linked(chain)
    BY <1>0, <2>2, AtReading
  <2>6. \E k \in 0..Len(chain) : Holds(Own(p).raw, chain, k)
    <3>1. Holds(NoRaw, chain, 0)
      BY DEF Holds, NoRaw, PageNumbers
    <3>2. 0 \in 0..Len(chain)
      BY <2>2
    <3>3. QED
      BY <2>5, <3>1, <3>2
  <2> HIDE DEF chain
  <2>7. At(run'[p], Own(p))
    BY <2>4, <2>5, <2>6, AtCopying DEF Copying
  <2>8. Sourced(run'[p], disk, output)
    BY <1>0, <2>2, <2>4 DEF Sourced, Matched, Copying, Rebuilding, chain
  <2>9. QED
    BY <1>0, <2>7, <2>8, MemoryStep
<1>3. QED
  BY <1>1, <1>2

\* A page of the chain is copied from the source, which still has it.
LEMMA CopyPagesKeeps ==
    ASSUME ChainInv, NEW p \in Procs, CopyPages(p)
    PROVE  ChainInv' /\ Growth
<1> DEFINE D == Own(p)
           chain == run[p].chain
           n == Cardinality(RawPages(D.raw)) + 1
           new == [D EXCEPT !.raw[n] = Source(p).raw[n]]
           r == [run[p] EXCEPT !.pc = "copy_pages"]
<1>0. /\ run[p].pc = "copy_pages" /\ Inv /\ Progress(p)
      /\ run[p].pc \in Copying /\ run[p].pc \in Matched
      /\ run[p].pc \in ResumeStages
  BY CopyPagesStep DEF CopyPages, ChainInv, ResumeStages, Copying, Matched
<1>1. /\ run[p] \in Run /\ At(run[p], D) /\ Sourced(run[p], disk, output)
      /\ chain \in Seq(Bodies) /\ Len(chain) \in Nat /\ Len(chain) <= MaxPages
      /\ D \in Directory /\ D.raw \in [PageNumbers -> Bodies \cup {None}]
  BY <1>0, Running
<1>2. PICK k \in 0..Len(chain) : Holds(D.raw, chain, k)
  BY <1>0, <1>1, AtCopying
<1>3. n = k + 1 /\ k \in Nat
  <2>1. Cardinality(RawPages(D.raw)) = k
    <3> HIDE DEF D, chain
    <3>1. QED
      BY <1>1, <1>2, HoldsPages
  <2>2. k \in Nat
    BY <1>1
  <2>3. QED
    BY <2>1, <2>2
<1>4. HeadOf(D, <<>>, run[p].mode) /\ Linked(chain)
  BY <1>0, <1>1, AtCopying
<1>5. CASE FailUnchanged(p)
  BY <1>0, <1>5, FailKeeps
<1>6. CASE n > Len(chain) /\ Goto(p, "adopt_history") /\ disk' = disk
  <2>1. k = Len(chain)
    BY <1>1, <1>2, <1>3, <1>6
  <2>2. /\ run'[p].pc = "adopt_history" /\ run'[p].chain = chain
        /\ run'[p].source = run[p].source /\ run'[p].mode = run[p].mode
    BY <1>6, GoneTo
  <2>3. At(run'[p], D)
    BY <1>2, <1>4, <2>1, <2>2, AtCopying DEF Copying
  <2>4. Sourced(run'[p], disk, output)
    BY <1>0, <1>1, <2>2 DEF Sourced, Matched, Copying, Rebuilding
  <2>5. QED
    BY <1>0, <1>6, <2>3, <2>4, MemoryStep
<1>7. CASE /\ n <= Len(chain) /\ disk[run[p].source] # None
           /\ Source(p).raw[n] # None
           /\ Replace(p, run[p].dir, new, "copy_pages", "diagnose")
  <2>1. Source(p).raw[n] = chain[n] /\ n \in 1..Len(chain)
    <3>1. n \in 1..Len(chain)
      BY <1>1, <1>3, <1>7
    <3>2. Pages(Source(p).raw, Len(chain)) = chain
      BY <1>0, <1>1, <1>7, SourceFacts DEF Sourced, StartsWith
    <3>3. Pages(Source(p).raw, Len(chain))[n] = Source(p).raw[n]
      BY <3>1 DEF Pages
    <3>4. QED
      BY <3>1, <3>2, <3>3
  <2>2. /\ chain[n] \in Bodies /\ n \in PageNumbers
    BY <1>1, <2>1, ConstantsAssumption DEF PageNumbers
  <2>3. /\ new \in Directory /\ new.ckpt = D.ckpt
        /\ new.raw = [D.raw EXCEPT ![k + 1] = chain[k + 1]]
    BY <1>1, <1>3, <2>1, <2>2 DEF Directory
  <2>4. Holds(new.raw, chain, k + 1) /\ k + 1 \in 0..Len(chain)
    BY <1>1, <1>2, <1>3, <2>1, <2>3, HoldsNext
  <2>5. \A i \in PageNumbers : D.raw[i] # None => new.raw[i] = D.raw[i]
    <3>1. D.raw[k + 1] = None
      BY <1>2, <1>3, <2>2 DEF Holds
    <3>2. QED
      BY <1>1, <2>3, <3>1
  <2> HIDE DEF new
  <2>6. /\ HeadOf(new, <<>>, run[p].mode) /\ Sound(new) /\ Grows(D, new)
        /\ new.ckpt # None
    BY <1>1, <1>4, <2>3, <2>5, FirstHead
  <2>7. /\ r.pc = "copy_pages" /\ r.chain = chain
        /\ r.source = run[p].source /\ r.mode = run[p].mode
    BY <1>1 DEF Run
  <2> HIDE DEF r
  <2>8. At(r, new)
    BY <1>4, <2>4, <2>6, <2>7, AtCopying DEF Copying
  <2>9. Sourced(r, disk, output)
    BY <1>0, <1>1, <2>7 DEF Sourced, Matched, Copying, Rebuilding
  <2>10. QED
    BY <1>0, <1>7, <2>3, <2>6, <2>8, <2>9, OwnReplace DEF r
<1>8. QED
  <2>1. n \in Nat
    BY <1>3
  <2>2. n > Len(chain) \/ n <= Len(chain)
    BY <1>1, <2>1
  <2>3. QED
    BY <1>5, <1>6, <1>7, <2>2 DEF CopyPages

LEMMA AdoptHistoryKeeps ==
    ASSUME ChainInv, NEW p \in Procs, AdoptHistory(p)
    PROVE  ChainInv' /\ Growth
<1> DEFINE D == Own(p)
           new == [D EXCEPT !.history = run[p].history]
           r == [run[p] EXCEPT !.pc = "digest_adopted"]
<1>0. /\ run[p].pc = "adopt_history" /\ Inv /\ Progress(p)
      /\ run[p].pc \in Copying /\ run[p].pc \in Matched
  BY AdoptSteps DEF AdoptHistory, ChainInv, Copying, Matched
<1>1. /\ run[p] \in Run /\ At(run[p], D) /\ Sourced(run[p], disk, output)
      /\ D \in Directory /\ run[p].history \in Seq(Line)
  BY <1>0, Running
<1>2. /\ HeadOf(D, <<>>, run[p].mode) /\ Linked(run[p].chain)
      /\ Holds(D.raw, run[p].chain, Len(run[p].chain))
  BY <1>0, <1>1, AtCopying
<1>3. new \in Directory /\ new.ckpt = D.ckpt /\ new.raw = D.raw
  BY <1>1 DEF Directory
<1>4. /\ r.pc = "digest_adopted" /\ r.chain = run[p].chain
      /\ r.source = run[p].source /\ r.mode = run[p].mode
  BY <1>1 DEF Run
<1>5. Replace(p, run[p].dir, new, "digest_adopted", "diagnose")
  BY DEF AdoptHistory
<1> HIDE DEF new, r
<1>6. /\ HeadOf(new, <<>>, run[p].mode) /\ Sound(new) /\ Grows(D, new)
      /\ new.ckpt # None
  BY <1>1, <1>2, <1>3, FirstHead
<1>7. At(r, new)
  BY <1>2, <1>3, <1>4, <1>6, AtCopying DEF Copying
<1>8. Sourced(r, disk, output)
  BY <1>0, <1>1, <1>4 DEF Sourced, Matched, Copying, Rebuilding
<1>9. QED
  BY <1>0, <1>3, <1>5, <1>6, <1>7, <1>8, OwnReplace DEF r

\* The pages copied become the resumed head.
LEMMA AdoptHeadKeeps ==
    ASSUME ChainInv, NEW p \in Procs, AdoptHead(p)
    PROVE  ChainInv' /\ Growth
<1> DEFINE D == Own(p)
           chain == run[p].chain
           new == [D EXCEPT !.ckpt =
                     DurableHead(3, chain, run[p].digest, run[p].mode)]
           next == IF ~Functional(AllRecords(chain)) THEN "diagnose"
                   ELSE IF chain # <<>> /\ Next_(chain) = None
                   THEN "canonicalize" ELSE "next_page"
           r == [run[p] EXCEPT !.pc = next]
<1>0. /\ run[p].pc = "adopt_head" /\ Inv /\ Progress(p)
      /\ run[p].pc \in Copying
  BY AdoptSteps DEF AdoptHead, ChainInv, Copying
<1>1. /\ run[p] \in Run /\ At(run[p], D) /\ D \in Directory
      /\ run[p].mode \in Modes /\ run[p].digest \in Seq(Line)
      /\ chain \in Seq(Bodies) /\ Len(chain) \in Nat /\ Len(chain) <= MaxPages
  BY <1>0, Running
<1>2. /\ HeadOf(D, <<>>, run[p].mode)
      /\ Linked(chain) /\ Holds(D.raw, chain, Len(chain))
  BY <1>0, <1>1, AtCopying
<1>3. /\ new \in Directory /\ new.raw = D.raw /\ HeadOf(new, chain, run[p].mode)
      /\ new.ckpt # None /\ new.ckpt.pages = Len(chain)
  BY <1>1, NewHead DEF HeadOf
<1>4. r.pc = next /\ r.chain = chain /\ r.mode = run[p].mode
  BY <1>1 DEF Run
<1>5. Replace(p, run[p].dir, new, next, "diagnose")
  BY DEF AdoptHead
<1> HIDE DEF new
<1>6. Pages(D.raw, Len(chain)) = chain
  BY <1>1, <1>2, HoldsPages
<1>7. Sound(new)
  BY <1>1, <1>2, <1>3, <1>6, HeadSound
<1>8. Grows(D, new)
  <2>1. D.ckpt.pages = 0 /\ Pages(new.raw, 0) = Pages(D.raw, 0)
    BY <1>2, NoPages DEF HeadOf
  <2>2. QED
    BY <1>1, <1>3, <2>1 DEF Grows
<1>9. At(r, new)
  <2>1. CASE next = "diagnose"
    BY <1>4, <2>1, AtDiagnose
  <2>2. CASE next = "next_page"
    <3>1. chain # <<>> => Next_(chain) # None
      BY <2>2
    <3>2. r.pc \in Fetching /\ r.pc # "store_page"
      BY <1>4, <2>2 DEF Fetching
    <3> HIDE DEF r
    <3>3. QED
      BY <1>2, <1>3, <1>4, <3>1, <3>2, AtFetching
  <2>3. CASE next = "canonicalize"
    <3>1. chain # <<>> /\ Next_(chain) = None
      BY <2>3
    <3>2. r.pc = "canonicalize" /\ r.pc \in Finishing
      BY <1>4, <2>3 DEF Finishing
    <3> HIDE DEF r
    <3>3. Ending(r, new)
      BY <1>4, <3>1, <3>2 DEF Ending
    <3>4. QED
      BY <1>2, <1>3, <1>4, <3>2, <3>3, AtFinishing
  <2>4. QED
    BY <2>1, <2>2, <2>3
<1>10. Sourced(r, disk, output)
  <2>1. r.pc \in {"diagnose", "next_page", "canonicalize"}
    BY <1>4
  <2>2. QED
    BY <2>1, Unsourced DEF Matched, Copying, Rebuilding
<1> HIDE DEF r, next
<1>11. QED
  BY <1>0, <1>3, <1>5, <1>7, <1>8, <1>9, <1>10, OwnReplace DEF r

\* Pages that reconstruct_state accepts are a linked chain.
LEMMA FoundChain ==
    ASSUME NEW raw \in [PageNumbers -> Bodies \cup {None}],
           Readable(raw, RawPages(raw)), RawPages(raw) # {},
           NEW chain, chain = Pages(raw, Cardinality(RawPages(raw)))
    PROVE  /\ chain \in Seq(Bodies) /\ Len(chain) <= MaxPages /\ chain # <<>>
           /\ Pages(raw, Len(chain)) = chain
           /\ Linked(chain)
<1> DEFINE n == Cardinality(RawPages(raw))
<1>1. n \in Nat
  BY CountRawPages
<1>2. chain \in Seq(Bodies) /\ Len(chain) = n /\ n <= MaxPages
  BY <1>1, ReadableType
<1>3. Linked(chain)
  BY DEF Readable, Chained, Linked, Pages
<1>4. n # 0
  BY DEF Readable
<1>5. QED
  BY <1>1, <1>2, <1>3, <1>4

LEMMA ReconstructStateKeeps ==
    ASSUME ChainInv, NEW p \in Procs, ReconstructState(p)
    PROVE  ChainInv' /\ Growth
<1>0. /\ run[p].pc = "reconstruct_state" /\ Inv /\ Progress(p) /\ disk' = disk
      /\ run[p].pc \in ResumeStages \ Copying
  BY ReconstructStateStep DEF ReconstructState, ChainInv, ResumeStages, Copying
<1>1. CASE Fail(p)
  BY <1>0, <1>1, FailKeeps DEF FailUnchanged, ReconstructState
<1>2. CASE ~Fail(p)
  <2> DEFINE raw == Source(p).raw
             chain == Pages(raw, Cardinality(RawPages(raw)))
  <2>1. /\ disk[run[p].source] # None
        /\ RawPages(raw) # {} /\ Readable(raw, RawPages(raw))
        /\ run' = [run EXCEPT ![p].pc = "reconstruct_history",
                              ![p].chain = chain]
    BY <1>2 DEF ReconstructState
  <2>2. /\ run[p] \in Run /\ run[p].source # None /\ At(run[p], Own(p))
    BY <1>0, Running DEF StageOK, StageAt
  <2>3. /\ raw \in [PageNumbers -> Bodies \cup {None}]
        /\ Source(p) = disk[run[p].source]
    BY <1>0, <2>1, SourceFacts
  <2>4. /\ chain \in Seq(Bodies) /\ chain # <<>> /\ Linked(chain)
        /\ Pages(raw, Len(chain)) = chain
    BY <2>1, <2>3, FoundChain
  <2> HIDE DEF chain
  <2>5. run'[p] = [run[p] EXCEPT !.pc = "reconstruct_history", !.chain = chain]
    BY <2>1 DEF ChainInv, Inv, TypeOK
  <2>6. /\ run'[p].pc = "reconstruct_history" /\ run'[p].chain = chain
        /\ run'[p].source = run[p].source /\ run'[p].mode = run[p].mode
    BY <2>2, <2>5 DEF Run
  <2>7. HeadOf(Own(p), <<>>, run[p].mode) /\ Own(p).raw = NoRaw
    BY <1>0, <2>2, AtReading
  <2>8. At(run'[p], Own(p))
    BY <2>4, <2>6, <2>7, AtReading DEF ResumeStages, Copying
  <2>9. Sourced(run'[p], disk, output)
    BY <2>1, <2>2, <2>3, <2>4, <2>6
       DEF Sourced, Matched, Copying, StartsWith, IsSomewhere
  <2>10. QED
    BY <1>0, <2>8, <2>9, MemoryStep
<1>3. QED
  BY <1>1, <1>2

\* The history of whatever directory the source is by now: its own process
\* goes on.
LEMMA ReconstructHistoryKeeps ==
    ASSUME ChainInv, NEW p \in Procs, ReconstructHistory(p)
    PROVE  ChainInv' /\ Growth
<1> DEFINE S == Source(p)
           chain == run[p].chain
           E == [S EXCEPT !.history = LegacyHistory(chain)]
<1>0. /\ run[p].pc = "reconstruct_history" /\ Inv /\ Progress(p)
      /\ run[p].pc \in ResumeStages \ Copying /\ run[p].pc # "idle"
      /\ run[p].pc \in Rebuilding
  BY ReconstructHistoryStep
     DEF ReconstructHistory, ChainInv, ResumeStages, Copying, Rebuilding
<1>1. CASE FailUnchanged(p)
  BY <1>0, <1>1, FailKeeps
<1>2. CASE ~FailUnchanged(p)
  <2>1. /\ disk[run[p].source] # None
        /\ Replace(p, run[p].source, E, "digest_reconstructed", "diagnose")
    BY <1>2 DEF ReconstructHistory
  <2>2. /\ run[p] \in Run /\ At(run[p], Own(p))
        /\ run[p].dir \in Dirs /\ Own(p) = disk[run[p].dir]
        /\ Sourced(run[p], disk, output)
        /\ chain \in Seq(Bodies) /\ Len(chain) <= MaxPages
    BY <1>0, Running
  <2>3. PICK e \in Dirs : e = run[p].source
    BY <1>0, <2>1, SourceFacts
  <2>4. /\ S = disk[e] /\ S \in Directory /\ Sound(S) /\ disk[e] # None
        /\ e # 0 /\ S.ckpt = None => S.raw = NoRaw
    BY <1>0, <2>1, <2>3, SourceFacts DEF ChainInv, DirectoriesSound
  <2>5. /\ chain # <<>> /\ Linked(chain) /\ Pages(S.raw, Len(chain)) = chain
        /\ HeadOf(Own(p), <<>>, run[p].mode) /\ Own(p).raw = NoRaw
    <3>1. chain # <<>> /\ Pages(S.raw, Len(chain)) = chain
      BY <1>0, <2>2, <2>3, <2>4 DEF Sourced, StartsWith
    <3>2. QED
      BY <1>0, <2>2, <3>1, AtReading
  <2>6. /\ E \in Directory /\ E.ckpt = S.ckpt /\ E.raw = S.raw
    BY <2>2, <2>4, LegacyHistoryType DEF Directory
  <2>7. Sound(E) /\ Grows(disk[e], E)
    BY <2>4, <2>6, SameCommitment
  <2>8. ASSUME NEW q \in Procs, run[q].pc # "idle", run[q].dir = e
        PROVE  At(run[q], E)
    <3>1. run[q] \in Run /\ At(run[q], S)
      BY <2>4, <2>8, Running
    <3>2. QED
      BY <2>2, <2>4, <2>5, <3>1, AtRebuilt
  <2> HIDE DEF E
  <2>9. CASE disk' = disk /\ Goto(p, "diagnose")
    BY <1>0, <2>9, DiagnosisKeeps DEF Fail, Goto
  <2>10. CASE /\ disk' = [disk EXCEPT ![e] = E]
              /\ Goto(p, "digest_reconstructed") \/ Goto(p, "diagnose")
    <3>1. /\ HeadOf(disk'[run[p].dir], <<>>, run[p].mode)
          /\ disk'[run[p].dir].raw = NoRaw
      <4>1. CASE run[p].dir = e
        <5>1. disk'[run[p].dir] = E /\ Own(p) = S
          BY <2>2, <2>4, <2>10, <4>1 DEF ChainInv, Inv, TypeOK
        <5>2. QED
          BY <2>5, <2>6, <5>1 DEF HeadOf
      <4>2. CASE run[p].dir # e
        <5>1. disk'[run[p].dir] = Own(p)
          BY <2>2, <2>10, <4>2 DEF ChainInv, Inv, TypeOK
        <5>2. QED
          BY <2>5, <5>1
      <4>3. QED
        BY <4>1, <4>2
    <3>2. At(run'[p], disk'[run[p].dir]) /\ Sourced(run'[p], disk, output)
      <4>1. CASE Goto(p, "diagnose")
        BY <4>1, GoneTo, AtDiagnose
      <4>2. CASE Goto(p, "digest_reconstructed")
        <5>1. /\ run'[p].pc = "digest_reconstructed"
              /\ run'[p].chain = chain /\ run'[p].source = run[p].source
              /\ run'[p].mode = run[p].mode
          BY <4>2, GoneTo
        <5>2. At(run'[p], disk'[run[p].dir])
          BY <2>5, <3>1, <5>1, AtReading DEF ResumeStages, Copying
        <5>3. Sourced(run'[p], disk, output)
          BY <1>0, <2>2, <5>1 DEF Sourced, Matched, Copying, Rebuilding
        <5>4. QED
          BY <5>2, <5>3
      <4>3. QED
        BY <2>10, <4>1, <4>2
    <3>3. /\ E \in Directory /\ disk' = [disk EXCEPT ![e] = E] /\ Progress(p)
          /\ Sound(E) /\ Grows(disk[e], E) /\ disk[e] # None
          /\ e # 0 /\ E.ckpt = None => E.raw = NoRaw
          /\ \A q \in Procs \ {p} :
                run[q].pc # "idle" /\ run[q].dir = e => At(run[q], E)
      BY <1>0, <2>4, <2>6, <2>7, <2>8, <2>10
    <3>4. QED
      BY <3>2, <3>3, ChainStep
  <2>11. QED
    BY <2>1, <2>3, <2>9, <2>10 DEF Replace
<1>3. QED
  BY <1>1, <1>2

\* Reading back the digest changes nothing that is committed.
LEMMA DigestKeeps ==
    ASSUME ChainInv, NEW p \in Procs,
           DigestReconstructed(p) \/ DigestAdopted(p) \/ DigestStored(p)
    PROVE  ChainInv' /\ Growth
<1>0. /\ run[p].pc \in {"digest_reconstructed", "digest_adopted", "digest_stored"}
      /\ Inv /\ Progress(p) /\ disk' = disk /\ output' = output
  BY DigestSteps
     DEF DigestReconstructed, DigestAdopted, DigestStored, Digest, ChainInv
<1>1. CASE Fail(p)
  BY <1>0, <1>1, FailKeeps DEF FailUnchanged
<1>2. CASE ~Fail(p)
  <2> DEFINE stage == CASE run[p].pc = "digest_reconstructed" -> "reconstruct_head"
                        [] run[p].pc = "digest_adopted" -> "adopt_head"
                        [] OTHER -> "store_head"
  <2>1. PICK digest :
            run' = [run EXCEPT ![p].pc = stage, ![p].digest = digest]
    BY <1>2 DEF DigestReconstructed, DigestAdopted, DigestStored, Digest
  <2>2. run[p] \in Run /\ At(run[p], Own(p)) /\ Sourced(run[p], disk, output)
    BY <1>0, Running
  <2> HIDE DEF stage
  <2>3. run'[p] = [run[p] EXCEPT !.pc = stage, !.digest = digest]
    BY <2>1 DEF ChainInv, Inv, TypeOK
  <2>4. /\ run'[p].pc = stage /\ run'[p].chain = run[p].chain
        /\ run'[p].source = run[p].source /\ run'[p].mode = run[p].mode
        /\ run'[p].page = run[p].page
    BY <2>2, <2>3 DEF Run
  <2>5. At(run'[p], Own(p)) /\ Sourced(run'[p], disk, output)
    <3>1. CASE run[p].pc = "digest_reconstructed"
      <4>1. stage = "reconstruct_head"
        BY <3>1 DEF stage
      <4>2. At(run'[p], Own(p))
        BY <2>2, <2>4, <3>1, <4>1, AtReading
           DEF ResumeStages, Copying, Rebuilding
      <4>3. QED
        BY <2>2, <2>4, <3>1, <4>1, <4>2
           DEF Sourced, Matched, Copying, Rebuilding
    <3>2. CASE run[p].pc = "digest_adopted"
      <4>1. stage = "adopt_head"
        BY <3>2 DEF stage
      <4>2. At(run'[p], Own(p))
        BY <2>2, <2>4, <3>2, <4>1, AtCopying DEF Copying
      <4>3. QED
        BY <2>2, <2>4, <3>2, <4>1, <4>2
           DEF Sourced, Matched, Copying, Rebuilding
    <3>3. CASE run[p].pc = "digest_stored"
      <4>1. stage = "store_head"
        BY <3>3 DEF stage
      <4>2. At(run'[p], Own(p))
        BY <2>2, <2>4, <3>3, <4>1, AtStoring DEF Storing
      <4>3. Sourced(run'[p], disk, output)
        BY <2>4, <4>1, Unsourced DEF Matched, Copying, Rebuilding
      <4>4. QED
        BY <4>2, <4>3
    <3>4. QED
      BY <1>0, <3>1, <3>2, <3>3
  <2>6. QED
    BY <1>0, <2>5, MemoryStep
<1>3. QED
  BY <1>1, <1>2

\* Only the legacy partial has pages without a head.
LEMMA LegacySource ==
    ASSUME ChainInv, NEW p \in Procs, run[p].pc \in ResumeStages \cap Rebuilding,
           disk[run[p].source] # None, Source(p).ckpt = None
    PROVE  run[p].source = 0
<1> DEFINE chain == run[p].chain
           raw == Source(p).raw
<1>1. /\ run[p].source \in Dirs /\ Source(p) = disk[run[p].source]
      /\ Source(p) \in Directory
  BY SourceFacts
<1>2. /\ chain \in Seq(Bodies) /\ Len(chain) <= MaxPages
      /\ chain # <<>> /\ Pages(raw, Len(chain)) = chain
  <2>1. run[p].pc # "idle"
    BY DEF Rebuilding
  <2>2. QED
    BY <1>1, <2>1, Running DEF Sourced, StartsWith
<1>3. raw[1] # None /\ 1 \in PageNumbers
  <2>1. 1 \in 1..Len(chain) /\ chain[1] \in Bodies
    BY <1>2
  <2>2. Pages(raw, Len(chain))[1] = raw[1]
    BY <2>1 DEF Pages
  <2>3. raw[1] = chain[1]
    BY <1>2, <2>2
  <2>4. QED
    BY <2>1, <2>3, ConstantsAssumption DEF PageNumbers
<1>4. raw # NoRaw
  BY <1>3 DEF NoRaw
<1>5. QED
  BY <1>1, <1>4 DEF ChainInv, DirectoriesSound

\* The head of the legacy partial.
LEMMA ReconstructHeadKeeps ==
    ASSUME ChainInv, NEW p \in Procs, ReconstructHead(p)
    PROVE  ChainInv' /\ Growth
<1> DEFINE S == Source(p)
           chain == run[p].chain
           E == [S EXCEPT !.ckpt = DurableHead(2, chain, run[p].digest, Full)]
<1>0. /\ run[p].pc = "reconstruct_head" /\ Inv /\ Progress(p)
      /\ run[p].pc \in ResumeStages \ Copying /\ run[p].pc # "idle"
      /\ run[p].pc \in Rebuilding
  BY ReconstructHeadStep
     DEF ReconstructHead, ChainInv, ResumeStages, Copying, Rebuilding
<1>1. CASE FailUnchanged(p)
  BY <1>0, <1>1, FailKeeps
<1>2. CASE ~FailUnchanged(p)
  <2>1. /\ disk[run[p].source] # None /\ S.ckpt = None
        /\ Replace(p, run[p].source, E, "read_head", "diagnose")
    BY <1>2 DEF ReconstructHead
  <2>2. /\ run[p] \in Run /\ At(run[p], Own(p)) /\ run[p].dir # 0
        /\ run[p].dir \in Dirs /\ Own(p) = disk[run[p].dir]
        /\ Sourced(run[p], disk, output) /\ run[p].digest \in Seq(Line)
        /\ chain \in Seq(Bodies) /\ Len(chain) <= MaxPages
    BY <1>0, Running
  <2>3. run[p].source = 0
    BY <1>0, <2>1, LegacySource
  <2>4. S = disk[0] /\ S \in Directory /\ disk[0] # None /\ 0 \in Dirs
    BY <1>0, <2>1, <2>3, SourceFacts
  <2>5. /\ Pages(S.raw, Len(chain)) = chain /\ Linked(chain)
        /\ HeadOf(Own(p), <<>>, run[p].mode) /\ Own(p).raw = NoRaw
    <3>1. Pages(S.raw, Len(chain)) = chain
      BY <1>0, <2>2, <2>3, <2>4 DEF Sourced, StartsWith
    <3>2. QED
      BY <1>0, <2>2, <3>1, AtReading
  <2>6. /\ E \in Directory /\ E.raw = S.raw /\ HeadOf(E, chain, Full)
    <3>1. PICK mode \in Modes, version \in {2, 3} : mode = Full /\ version = 2
      BY ConstantsAssumption
    <3>2. E = [S EXCEPT !.ckpt = DurableHead(version, chain, run[p].digest, mode)]
      BY <3>1
    <3> HIDE DEF E, S, chain
    <3>3. E \in Directory /\ E.raw = S.raw /\ HeadOf(E, chain, mode)
      BY <2>2, <2>4, <3>2, NewHead
    <3>4. QED
      BY <3>1, <3>3
  <2> HIDE DEF E
  <2>7. E.ckpt # None
    BY <2>6 DEF HeadOf
  <2>8. Sound(E)
    BY <2>2, <2>5, <2>6, HeadSound
  <2>9. Grows(disk[0], E)
    BY <2>1, <2>4, <2>6 DEF Grows
  <2>10. CASE disk' = disk /\ Goto(p, "diagnose")
    BY <1>0, <2>10, DiagnosisKeeps DEF Fail, Goto
  <2>11. CASE /\ disk' = [disk EXCEPT ![0] = E]
              /\ Goto(p, "read_head") \/ Goto(p, "diagnose")
    <3>1. disk'[run[p].dir] = Own(p)
      BY <2>2, <2>11 DEF ChainInv, Inv, TypeOK
    <3>2. At(run'[p], Own(p)) /\ Sourced(run'[p], disk, output)
      <4>1. CASE Goto(p, "diagnose")
        BY <4>1, GoneTo, AtDiagnose
      <4>2. CASE Goto(p, "read_head")
        <5>1. run'[p].pc = "read_head" /\ run'[p].mode = run[p].mode
          BY <4>2, GoneTo
        <5>2. /\ run'[p].pc \in ResumeStages \ Copying
              /\ run'[p].pc \notin Matched \cup Rebuilding \cup {"read_pages"}
          BY <5>1 DEF ResumeStages, Copying, Matched, Rebuilding
        <5>3. At(run'[p], Own(p))
          BY <2>5, <5>1, <5>2, AtReading
        <5>4. QED
          BY <5>2, <5>3, Unsourced
      <4>3. QED
        BY <2>11, <4>1, <4>2
    <3>3. PICK e \in Dirs : e = 0
      BY <2>4
    <3>4. \A q \in Procs \ {p} :
              run[q].pc # "idle" /\ run[q].dir = e => At(run[q], E)
      BY <3>3, Running
    <3>5. /\ E \in Directory /\ disk' = [disk EXCEPT ![e] = E] /\ Progress(p)
          /\ Sound(E) /\ Grows(disk[e], E) /\ disk[e] # None
          /\ e # 0 /\ E.ckpt = None => E.raw = NoRaw
          /\ run'[p].pc # "idle" =>
                At(run'[p], disk'[run[p].dir]) /\ Sourced(run'[p], disk, output)
      BY <1>0, <2>4, <2>6, <2>8, <2>9, <2>11, <3>1, <3>2, <3>3
    <3>6. QED
      BY <3>4, <3>5, ChainStep
  <2>12. QED
    BY <2>1, <2>3, <2>10, <2>11 DEF Replace
<1>3. QED
  BY <1>1, <1>2

\* Steps of the page loop before anything is stored.
LEMMA FetchingKeeps ==
    ASSUME ChainInv, NEW p \in Procs,
           NextPage(p) \/ Request(p) \/ Network(p) \/ CancelRequest(p) \/ Retry(p)
    PROVE  ChainInv' /\ Growth
<1>0. /\ run[p].pc \in Fetching \ {"store_page"} /\ run[p].pc # "idle"
      /\ Inv /\ Progress(p) /\ disk' = disk
  <2>1. Inv
    BY DEF ChainInv
  <2>2. Progress(p)
    BY <2>1, NetworkSteps, DecisionSteps DEF Network
  <2>3. disk' = disk /\ run[p].pc \in {"next_page", "request", "await", "backoff"}
    BY DEF NextPage, Request, Network, CancelRequest, Retry, Respond, Redirect,
           TransientFailure, FatalFailure, FailUnchanged
  <2>4. QED
    BY <2>1, <2>2, <2>3 DEF Fetching
<1>1. run[p] \in Run /\ At(run[p], Own(p)) /\ run \in [Procs -> Run]
  BY <1>0, Running DEF ChainInv, Inv, TypeOK
<1>2. CASE Fail(p)
  BY <1>0, <1>2, DiagnosisKeeps
<1>3. CASE ~Fail(p)
  <2>1. /\ run'[p].pc \in Fetching \ {"store_page"}
        /\ run'[p].chain = run[p].chain /\ run'[p].mode = run[p].mode
    <3>1. CASE NextPage(p)
      <4>1. run'[p] = [run[p] EXCEPT !.pc = "request", !.attempt = 1,
                                     !.redirects = 0]
        BY <1>1, <1>3, <3>1 DEF NextPage
      <4>2. QED
        BY <1>1, <4>1 DEF Run, Fetching
    <3>2. CASE Request(p)
      <4>1. Goto(p, "await")
        BY <1>3, <3>2 DEF Request
      <4>2. /\ run'[p].pc = "await"
            /\ run'[p].chain = run[p].chain /\ run'[p].mode = run[p].mode
        BY <4>1, GoneTo
      <4>3. QED
        BY <4>2 DEF Fetching
    <3>3. CASE CancelRequest(p) \/ FatalFailure(p)
      BY <1>3, <3>3 DEF CancelRequest, FatalFailure, FailUnchanged
    <3>4. CASE Retry(p)
      <4>1. run'[p] = [run[p] EXCEPT !.pc = "request",
                                     !.attempt = run[p].attempt + 1,
                                     !.redirects = 0]
        BY <1>1, <1>3, <3>4 DEF Retry
      <4>2. QED
        BY <1>1, <4>1 DEF Run, Fetching
    <3>5. CASE Respond(p)
      <4>1. PICK body \in Bodies :
                run' = [run EXCEPT ![p].pc = "validate", ![p].page = body]
        BY <3>5 DEF Respond
      <4>2. run'[p] = [run[p] EXCEPT !.pc = "validate", !.page = body]
        BY <1>1, <4>1
      <4>3. QED
        BY <1>1, <4>2 DEF Run, Fetching
    <3>6. CASE Redirect(p)
      <4>1. run'[p] = [run[p] EXCEPT !.pc = "request",
                                     !.redirects = run[p].redirects + 1]
        BY <1>1, <1>3, <3>6 DEF Redirect
      <4>2. QED
        BY <1>1, <4>1 DEF Run, Fetching
    <3>7. CASE TransientFailure(p)
      <4>1. Goto(p, "backoff")
        BY <1>3, <3>7 DEF TransientFailure
      <4>2. /\ run'[p].pc = "backoff"
            /\ run'[p].chain = run[p].chain /\ run'[p].mode = run[p].mode
        BY <4>1, GoneTo
      <4>3. QED
        BY <4>2 DEF Fetching
    <3>8. QED
      BY <3>1, <3>2, <3>3, <3>4, <3>5, <3>6, <3>7 DEF Network
  <2>2. At(run'[p], Own(p))
    BY <1>0, <1>1, <2>1, AtFetching
  <2>3. Sourced(run'[p], disk, output)
    BY <2>1, Unsourced DEF Fetching, Matched, Copying, Rebuilding
  <2>4. QED
    BY <1>0, <2>2, <2>3, MemoryStep
<1>4. QED
  BY <1>2, <1>3

\* A page that is about to be stored continues the chain.
LEMMA ValidateKeeps ==
    ASSUME ChainInv, NEW p \in Procs, Validate(p)
    PROVE  ChainInv' /\ Growth
<1>0. /\ run[p].pc = "validate" /\ run[p].pc \in Fetching /\ run[p].pc # "idle"
      /\ Inv /\ Progress(p) /\ disk' = disk
  BY DecisionSteps DEF Validate, ChainInv, Fetching
<1>1. CASE Fail(p)
  BY <1>0, <1>1, DiagnosisKeeps
<1>2. CASE ~Fail(p)
  <2>1. Acceptable(p) /\ Goto(p, "store_page")
    BY <1>2 DEF Validate
  <2>2. run[p].page # None /\ At(run[p], Own(p))
    BY <1>0, Running DEF StageOK, StageAt, PageStages
  <2>3. /\ run'[p].pc = "store_page" /\ run'[p].pc \in Fetching
        /\ run'[p].chain = run[p].chain
        /\ run'[p].mode = run[p].mode /\ run'[p].page = run[p].page
    BY <2>1, GoneTo DEF Fetching
  <2>4. run[p].page.next \notin Seen(run[p].chain)
    BY <2>1 DEF Acceptable
  <2>5. At(run'[p], Own(p))
    BY <1>0, <2>2, <2>3, <2>4, AtFetching
  <2>6. Sourced(run'[p], disk, output)
    BY <2>3, Unsourced DEF Matched, Copying, Rebuilding
  <2>7. QED
    BY <1>0, <2>5, <2>6, MemoryStep
<1>3. QED
  BY <1>1, <1>2

LEMMA StorePageKeeps ==
    ASSUME ChainInv, NEW p \in Procs, StorePage(p)
    PROVE  ChainInv' /\ Growth
<1> DEFINE D == Own(p)
           chain == run[p].chain
           n == Len(chain) + 1
           new == [D EXCEPT !.raw[n] = run[p].page]
           r == [run[p] EXCEPT !.pc = "store_history"]
<1>0. /\ run[p].pc = "store_page" /\ run[p].pc \in Fetching /\ run[p].pc # "idle"
      /\ Inv /\ Progress(p)
  BY StoreSteps DEF StorePage, ChainInv, Fetching
<1>1. CASE FailUnchanged(p)
  BY <1>0, <1>1, FailKeeps
<1>2. CASE ~FailUnchanged(p)
  <2>1. Replace(p, run[p].dir, new, "store_history", "diagnose")
    BY <1>2 DEF StorePage
  <2>2. /\ run[p] \in Run /\ At(run[p], D) /\ StageOK(run[p])
        /\ chain \in Seq(Bodies) /\ Len(chain) \in Nat /\ Len(chain) <= MaxPages
        /\ D \in Directory /\ D.raw \in [PageNumbers -> Bodies \cup {None}]
    BY <1>0, Running
  <2>3. /\ Linked(chain) /\ (chain # <<>> => Next_(chain) # None)
        /\ Holds(D.raw, chain, Len(chain))
        /\ HeadOf(D, chain, run[p].mode)
        /\ run[p].page # None /\ run[p].page.next \notin Seen(chain)
    BY <1>0, <2>2, AtFetching
  <2>4. Len(chain) < MaxPages /\ run[p].page \in Bodies
    BY <1>0, <2>2, <2>3 DEF StageOK, StageAt, PageStages, Run
  <2>5. n \in PageNumbers
    <3>1. Len(chain) \in Nat /\ MaxPages \in Nat
      BY <2>2, ConstantsAssumption
    <3> HIDE DEF chain
    <3>2. QED
      BY <2>4, <3>1 DEF PageNumbers
  <2>6. /\ new \in Directory /\ new.ckpt = D.ckpt
        /\ new.raw = [D.raw EXCEPT ![n] = run[p].page]
    BY <2>2, <2>4, <2>5 DEF Directory
  <2>7. Holds(new.raw, Append(chain, run[p].page), Len(chain) + 1)
    <3> HIDE DEF D, new, chain
    <3>1. Holds([D.raw EXCEPT ![Len(chain) + 1] = run[p].page],
                Append(chain, run[p].page), Len(chain) + 1)
      BY <2>2, <2>3, <2>4, HoldsAppend
    <3>2. QED
      BY <2>6, <3>1
  <2>8. Pages(D.raw, Len(chain)) = chain /\ Pages(new.raw, Len(chain)) = chain
    <3>1. Pages(D.raw, Len(chain)) = chain
      BY <2>2, <2>3, HoldsPages
    <3>2. \A i \in 1..Len(chain) : new.raw[i] = D.raw[i]
      <4>1. \A i \in 1..Len(chain) : i # n /\ i \in PageNumbers
        BY <2>2, ConstantsAssumption DEF PageNumbers
      <4>2. QED
        BY <2>2, <2>6, <4>1
    <3>3. QED
      BY <3>1, <3>2 DEF Pages
  <2>9. /\ r.pc = "store_history" /\ r.chain = chain
        /\ r.mode = run[p].mode /\ r.page = run[p].page
    BY <2>2 DEF Run
  <2>10. \A i \in PageNumbers : D.raw[i] # None => new.raw[i] = D.raw[i]
    <3>1. D.raw[n] = None
      BY <2>2, <2>3, <2>5 DEF Holds
    <3>2. QED
      BY <2>2, <2>6, <3>1
  <2> HIDE DEF new, r, D, chain
  <2>11. HeadOf(new, chain, run[p].mode) /\ new.ckpt # None
         /\ D.ckpt.pages = Len(chain)
    BY <2>3, <2>6 DEF HeadOf
  <2>12. Sound(new)
    BY <2>2, <2>3, <2>8, <2>11, HeadSound
  <2>13. Grows(D, new)
    BY <2>2, <2>6, <2>8, <2>10, <2>11, SameHead
  <2>14. At(r, new)
    <3>1. r.pc \in Storing
      BY <2>9 DEF Storing
    <3>2. QED
      BY <2>3, <2>4, <2>7, <2>9, <2>11, <3>1, AtStoring
  <2>15. Sourced(r, disk, output)
    BY <2>9, Unsourced DEF Matched, Copying, Rebuilding
  <2>16. QED
    BY <1>0, <2>1, <2>6, <2>11, <2>12, <2>13, <2>14, <2>15, OwnReplace DEF r, D
<1>3. QED
  BY <1>1, <1>2

\* A raw directory that holds the chain and one page more.
LEMMA StoredPages ==
    ASSUME NEW raw, NEW chain \in Seq(Bodies), NEW page \in Bodies,
           Len(chain) < MaxPages,
           Holds(raw, Append(chain, page), Len(chain) + 1)
    PROVE  /\ Append(chain, page) \in Seq(Bodies)
           /\ Len(Append(chain, page)) = Len(chain) + 1
           /\ Pages(raw, Len(chain)) = chain
           /\ Pages(raw, Len(chain) + 1) = Append(chain, page)
<1> DEFINE new == Append(chain, page)
           n == Len(chain)
<1>1. /\ new \in Seq(Bodies) /\ Len(new) = n + 1 /\ n \in Nat
      /\ \A i \in 1..n : new[i] = chain[i]
  OBVIOUS
<1>2. n + 1 <= MaxPages /\ n + 1 \in 0..Len(new)
  BY <1>1, ConstantsAssumption
<1> HIDE DEF new
<1>3. (\A i \in 1..(n + 1) : raw[i] = new[i]) /\ Pages(raw, Len(new)) = new
  <2>1. Holds(raw, new, Len(new))
    BY <1>1 DEF new
  <2>2. Len(new) <= MaxPages /\ Len(new) \in 0..Len(new)
    BY <1>1, <1>2
  <2> HIDE DEF n
  <2>3. /\ \A i \in 1..Len(new) : raw[i] = new[i] /\ raw[i] # None
        /\ Pages(raw, Len(new)) = new
    BY <1>1, <2>1, <2>2, HoldsPages
  <2>4. QED
    BY <1>1, <2>3
<1>4. \A i \in 1..n : raw[i] = chain[i]
  <2>1. \A i \in 1..n : i \in 1..(n + 1)
    BY <1>1
  <2>2. QED
    BY <1>1, <1>3, <2>1
<1>5. Pages(raw, n) = chain
  BY <1>4 DEF Pages
<1>6. QED
  BY <1>1, <1>3, <1>5 DEF new

\* What is known of a process between the raw page and the durable head.
LEMMA StoringFacts ==
    ASSUME ChainInv, NEW p \in Procs, run[p].pc \in Storing
    PROVE  LET r == run[p]
               D == Own(p)
               chain == Append(r.chain, r.page) IN
           /\ r.page \in Bodies /\ Len(r.chain) < MaxPages
           /\ Linked(r.chain) /\ Linked(chain)
           /\ chain \in Seq(Bodies) /\ Len(chain) = Len(r.chain) + 1
           /\ Len(chain) <= MaxPages
           /\ Holds(D.raw, chain, Len(chain))
           /\ Pages(D.raw, Len(r.chain)) = r.chain
           /\ Pages(D.raw, Len(chain)) = chain
           /\ HeadOf(D, r.chain, r.mode) \/ HeadOf(D, chain, r.mode)
           /\ r.pc # "rollback" => HeadOf(D, r.chain, r.mode)
<1> DEFINE r == run[p]
           D == Own(p)
           chain == Append(r.chain, r.page)
<1>0. r.pc # "idle"
  BY DEF Storing
<1>1. /\ r \in Run /\ r.chain \in Seq(Bodies) /\ Len(r.chain) \in Nat
      /\ r.page \in Bodies \cup {None} /\ At(r, D)
  BY <1>0, Running DEF Run
<1> HIDE DEF r, D
<1>2. /\ Linked(r.chain)
      /\ r.chain # <<>> => Next_(r.chain) # None
      /\ r.page # None /\ r.page.next \notin Seen(r.chain)
      /\ Len(r.chain) < MaxPages
      /\ Holds(D.raw, chain, Len(r.chain) + 1)
      /\ HeadOf(D, r.chain, r.mode)
           \/ (r.pc = "rollback" /\ HeadOf(D, chain, r.mode))
  BY <1>1, AtStoring DEF r
<1>3. r.page \in Bodies
  BY <1>1, <1>2
<1>4. Linked(chain)
  BY <1>1, <1>2, <1>3, LinkedAppend
<1>5. /\ chain \in Seq(Bodies) /\ Len(chain) = Len(r.chain) + 1
      /\ Pages(D.raw, Len(r.chain)) = r.chain
      /\ Pages(D.raw, Len(chain)) = chain
  <2>1. /\ chain \in Seq(Bodies) /\ Len(chain) = Len(r.chain) + 1
        /\ Pages(D.raw, Len(r.chain)) = r.chain
        /\ Pages(D.raw, Len(r.chain) + 1) = chain
    <3>1. Holds(D.raw, Append(r.chain, r.page), Len(r.chain) + 1)
      BY <1>2
    <3>2. r.chain \in Seq(Bodies) /\ r.page \in Bodies /\ Len(r.chain) < MaxPages
      BY <1>1, <1>2, <1>3
    <3>3. QED
      BY <3>1, <3>2, StoredPages
  <2> HIDE DEF chain
  <2>2. QED
    BY <2>1
<1> HIDE DEF chain
<1>6. Len(chain) <= MaxPages
  BY <1>1, <1>2, <1>5, ConstantsAssumption
<1>7. QED
  BY <1>2, <1>3, <1>4, <1>5, <1>6 DEF r, D, chain

LEMMA StoreHistoryKeeps ==
    ASSUME ChainInv, NEW p \in Procs, StoreHistory(p)
    PROVE  ChainInv' /\ Growth
<1> DEFINE D == Own(p)
           chain == run[p].chain
           new == [D EXCEPT !.history = Candidate(p)]
           r == [run[p] EXCEPT !.pc = "digest_stored"]
<1>0. /\ run[p].pc = "store_history" /\ run[p].pc \in Storing
      /\ run[p].pc # "idle" /\ Progress(p)
  BY StoreSteps DEF StoreHistory, ChainInv, Storing
<1>1. /\ run[p] \in Run /\ At(run[p], D) /\ D \in Directory /\ Sound(D)
  BY <1>0, Running
<1> HIDE DEF D
<1>2. /\ HeadOf(D, chain, run[p].mode) /\ Linked(chain)
      /\ chain # <<>> => Next_(chain) # None
      /\ run[p].page # None /\ run[p].page.next \notin Seen(chain)
      /\ Len(chain) < MaxPages
      /\ Holds(D.raw, Append(chain, run[p].page), Len(chain) + 1)
  BY <1>0, <1>1, AtStoring
<1>3. Candidate(p) \in Seq(Line)
  BY <1>1, <1>2, CandidateType
<1>4. new \in Directory /\ new.ckpt = D.ckpt /\ new.raw = D.raw
  BY <1>1, <1>3 DEF Directory
<1>5. /\ r.pc = "digest_stored" /\ r.chain = chain
      /\ r.mode = run[p].mode /\ r.page = run[p].page
  BY <1>1 DEF Run
<1>6. Replace(p, run[p].dir, new, "digest_stored", "diagnose")
  BY DEF StoreHistory, D
<1> HIDE DEF new, r
<1>7. Sound(new) /\ Grows(D, new)
  BY <1>1, <1>4, SameCommitment
<1>8. HeadOf(new, chain, run[p].mode) /\ new.ckpt # None
  BY <1>2, <1>4 DEF HeadOf
<1>9. At(r, new)
  <2>1. r.pc \in Storing
    BY <1>5 DEF Storing
  <2>2. QED
    BY <1>2, <1>4, <1>5, <1>8, <2>1, AtStoring
<1>10. Sourced(r, disk, output)
  BY <1>5, Unsourced DEF Matched, Copying, Rebuilding
<1>11. QED
  BY <1>0, <1>4, <1>6, <1>7, <1>8, <1>9, <1>10, OwnReplace DEF r, D

\* The head commits the page, or may have done so when it fails.
LEMMA StoreHeadKeeps ==
    ASSUME ChainInv, NEW p \in Procs, StoreHead(p)
    PROVE  ChainInv' /\ Growth
<1> DEFINE D == Own(p)
           chain == Append(run[p].chain, run[p].page)
           new == [D EXCEPT !.ckpt =
                     DurableHead(3, chain, run[p].digest, run[p].mode)]
<1>0. /\ run[p].pc = "store_head" /\ run[p].pc \in Storing
      /\ run[p].pc # "idle" /\ Progress(p) /\ run \in [Procs -> Run]
  BY StoreHeadStep DEF StoreHead, ChainInv, Inv, TypeOK, Storing
<1>1. /\ run[p] \in Run /\ At(run[p], D) /\ D \in Directory
      /\ run[p].chain \in Seq(Bodies) /\ Len(run[p].chain) \in Nat
      /\ run[p].mode \in Modes /\ run[p].digest \in Seq(Line)
  BY <1>0, Running
<1>2. /\ run[p].page \in Bodies /\ Len(run[p].chain) < MaxPages
      /\ Linked(chain)
      /\ chain \in Seq(Bodies) /\ Len(chain) = Len(run[p].chain) + 1
      /\ Len(chain) <= MaxPages
      /\ Holds(D.raw, chain, Len(chain))
      /\ Pages(D.raw, Len(run[p].chain)) = run[p].chain
      /\ Pages(D.raw, Len(chain)) = chain
      /\ HeadOf(D, run[p].chain, run[p].mode)
  BY <1>0, StoringFacts
<1>3. Next_(chain) = run[p].page.next /\ chain # <<>>
  <2>1. chain[Len(run[p].chain) + 1] = run[p].page
    BY <1>1
  <2> HIDE DEF chain
  <2>2. chain # <<>>
    BY <1>1, <1>2
  <2>3. QED
    BY <1>2, <2>1, <2>2 DEF Next_
<1>4. /\ \/ /\ disk' = [disk EXCEPT ![run[p].dir] = new]
            /\ run' = [run EXCEPT ![p] =
                 [run[p] EXCEPT !.pc = IF run[p].page.next = None
                                       THEN "canonicalize" ELSE "next_page",
                                !.chain = chain, !.history = Candidate(p),
                                !.page = None, !.attempt = 0, !.redirects = 0,
                                !.stalled = 0]]
         \/ /\ disk' \in {disk, [disk EXCEPT ![run[p].dir] = new]}
            /\ Goto(p, "rollback")
  BY DEF StoreHead
<1> HIDE DEF D, chain
<1>5. /\ new \in Directory /\ new.raw = D.raw /\ new.ckpt.pages = Len(chain)
      /\ HeadOf(new, chain, run[p].mode)
  <2>1. 3 \in {2, 3}
    OBVIOUS
  <2>2. QED
    BY <1>1, <1>2, <2>1, NewHead
<1> HIDE DEF new
<1>6. new.ckpt # None
  BY <1>5 DEF HeadOf
<1>7. Sound(new)
  BY <1>2, <1>5, HeadSound
<1>8. Grows(D, new)
  <2>1. D.ckpt.pages = Len(run[p].chain)
    BY <1>2 DEF HeadOf
  <2>2. QED
    BY <1>1, <1>2, <1>5, <1>6, <2>1 DEF Grows
<1>9. CASE Goto(p, "rollback")
  <2>1. /\ run'[p].pc = "rollback" /\ run'[p].chain = run[p].chain
        /\ run'[p].mode = run[p].mode /\ run'[p].page = run[p].page
    BY <1>9, GoneTo
  <2>2. /\ Linked(run[p].chain)
        /\ run[p].chain # <<>> => Next_(run[p].chain) # None
        /\ run[p].page # None /\ run[p].page.next \notin Seen(run[p].chain)
        /\ Holds(D.raw, chain, Len(run[p].chain) + 1)
    BY <1>0, <1>1, AtStoring DEF chain
  <2>3. run'[p].pc \in Storing /\ Sourced(run'[p], disk, output)
    BY <2>1, Unsourced DEF Storing, Matched, Copying, Rebuilding
  <2>4. PICK r : r = run'[p]
    OBVIOUS
  <2>5. /\ r.pc = "rollback" /\ r.pc \in Storing
        /\ Linked(r.chain) /\ (r.chain # <<>> => Next_(r.chain) # None)
        /\ r.page # None /\ r.page.next \notin Seen(r.chain)
        /\ Len(r.chain) < MaxPages
    BY <1>2, <2>1, <2>2, <2>3, <2>4
  <2>6. /\ Holds(D.raw, Append(r.chain, r.page), Len(r.chain) + 1)
        /\ Holds(new.raw, Append(r.chain, r.page), Len(r.chain) + 1)
        /\ HeadOf(D, r.chain, r.mode)
        /\ HeadOf(new, Append(r.chain, r.page), r.mode)
    BY <1>2, <1>5, <2>1, <2>2, <2>4 DEF chain
  <2>7. At(run'[p], D) /\ At(run'[p], new)
    BY <2>4, <2>5, <2>6, AtStoring
  <2>8. CASE disk' = disk
    BY <1>0, <2>3, <2>7, <2>8, MemoryStep DEF D
  <2>9. CASE disk' = [disk EXCEPT ![run[p].dir] = new]
    BY <1>0, <1>5, <1>6, <1>7, <1>8, <2>3, <2>7, <2>9, OwnStep DEF D
  <2>10. QED
    BY <1>4, <1>9, <2>8, <2>9
<1>10. CASE ~Goto(p, "rollback")
  <2>1. PICK stage \in {"canonicalize", "next_page"} :
          /\ run'[p] = [run[p] EXCEPT !.pc = stage, !.chain = chain,
                               !.history = Candidate(p), !.page = None,
                               !.attempt = 0, !.redirects = 0, !.stalled = 0]
          /\ stage = "canonicalize" <=> run[p].page.next = None
    BY <1>0, <1>4, <1>10
  <2>2. /\ run'[p].pc = stage /\ run'[p].chain = chain
        /\ run'[p].mode = run[p].mode
    BY <1>1, <2>1 DEF Run
  <2>3. disk' = [disk EXCEPT ![run[p].dir] = new]
    BY <1>4, <1>10
  <2>4. At(run'[p], new)
    <3>1. CASE stage = "next_page"
      <4>1. run'[p].pc \in Fetching /\ run'[p].pc # "store_page"
        BY <2>2, <3>1 DEF Fetching
      <4>2. Next_(chain) # None
        BY <1>3, <2>1, <3>1
      <4>3. QED
        BY <1>2, <1>5, <2>2, <4>1, <4>2, AtFetching
    <3>2. CASE stage = "canonicalize"
      <4>1. run'[p].pc \in Finishing /\ run'[p].pc = "canonicalize"
        BY <2>2, <3>2 DEF Finishing
      <4>2. Ending(run'[p], new)
        BY <1>3, <2>1, <2>2, <3>2, <4>1 DEF Ending
      <4>3. QED
        BY <1>2, <1>5, <2>2, <4>1, <4>2, AtFinishing
    <3>3. QED
      BY <3>1, <3>2
  <2>5. Sourced(run'[p], disk, output)
    BY <2>2, Unsourced DEF Matched, Copying, Rebuilding
  <2>6. QED
    BY <1>0, <1>5, <1>6, <1>7, <1>8, <2>3, <2>4, <2>5, OwnStep DEF D
<1>11. QED
  BY <1>9, <1>10

\* Only the history is put back.
LEMMA RollbackKeeps ==
    ASSUME ChainInv, NEW p \in Procs, Rollback(p)
    PROVE  ChainInv' /\ Growth
<1> DEFINE D == Own(p)
           new == [D EXCEPT !.history = run[p].history]
           r == [run[p] EXCEPT !.pc = "diagnose"]
<1>0. /\ run[p].pc # "idle" /\ Progress(p)
  BY FinalSteps DEF Rollback, ChainInv
<1>1. /\ run[p] \in Run /\ D \in Directory /\ Sound(D)
      /\ run[p].history \in Seq(Line) /\ (D.ckpt = None => D.raw = NoRaw)
  BY <1>0, Running
<1>2. new \in Directory /\ new.ckpt = D.ckpt /\ new.raw = D.raw
  BY <1>1 DEF Directory
<1>3. Replace(p, run[p].dir, new, "diagnose", "diagnose")
  BY DEF Rollback
<1>4. r.pc = "diagnose"
  BY <1>1 DEF Run
<1> HIDE DEF new, r
<1>5. Sound(new) /\ Grows(D, new) /\ (new.ckpt = None => new.raw = NoRaw)
  BY <1>1, <1>2, SameCommitment
<1>6. At(r, new) /\ Sourced(r, disk, output)
  BY <1>4, AtDiagnose
<1>7. QED
  BY <1>0, <1>2, <1>3, <1>5, <1>6, OwnReplace DEF r

-----------------------------------------------------------------------------
(* Finalization.                                                           *)

\* A write of the finalization leaves pages and head.
LEMMA FinishStep ==
    ASSUME ChainInv, NEW p \in Procs, Progress(p), run[p].pc \in Finishing,
           NEW new \in Directory, NEW next \in Finishing,
           new.ckpt = Own(p).ckpt, new.raw = Own(p).raw,
           Replace(p, run[p].dir, new, next, "diagnose"),
           Ending([run[p] EXCEPT !.pc = next], new)
    PROVE  ChainInv' /\ Growth
<1> DEFINE D == Own(p)
           r == [run[p] EXCEPT !.pc = next]
<1>0. run[p].pc # "idle"
  BY DEF Progress
<1>1. /\ run[p] \in Run /\ At(run[p], D) /\ D \in Directory /\ Sound(D)
      /\ run[p].chain \in Seq(Bodies) /\ run[p].mode \in Modes
  BY <1>0, Running
<1>2. r.pc = next /\ r.chain = run[p].chain /\ r.mode = run[p].mode
  BY <1>1 DEF Run
<1> HIDE DEF D, r
<1>3. /\ Linked(run[p].chain)
      /\ Holds(D.raw, run[p].chain, Len(run[p].chain))
      /\ HeadOf(D, run[p].chain, run[p].mode)
  BY <1>1, AtFinishing
<1>4. new.ckpt = D.ckpt /\ new.raw = D.raw /\ Ending(r, new)
  BY DEF D, r
<1>5. HeadOf(new, run[p].chain, run[p].mode) /\ new.ckpt # None
  BY <1>3, <1>4 DEF HeadOf
<1>6. At(r, new)
  BY <1>2, <1>3, <1>4, <1>5, AtFinishing
<1>7. Sound(new) /\ Grows(D, new)
  BY <1>1, <1>4, SameCommitment
<1>8. Sourced(r, disk, output)
  BY <1>2, Unsourced DEF Finishing, Matched, Copying, Rebuilding
<1>9. QED
  BY <1>5, <1>6, <1>7, <1>8, OwnReplace DEF r, D

LEMMA CanonicalizeKeeps ==
    ASSUME ChainInv, NEW p \in Procs, Canonicalize(p)
    PROVE  ChainInv' /\ Growth
<1> DEFINE D == Own(p)
           recs == AllRecords(run[p].chain)
           new == [D EXCEPT !.canon = recs, !.errors = "empty"]
           r == [run[p] EXCEPT !.pc = "manifest"]
<1>0. /\ run[p].pc = "canonicalize" /\ run[p].pc \in Finishing
      /\ run[p].pc # "idle" /\ Progress(p) /\ "manifest" \in Finishing
  BY FinalSteps DEF Canonicalize, ChainInv, Finishing
<1>1. CASE FailUnchanged(p)
  BY <1>0, <1>1, FailKeeps
<1>2. CASE ~FailUnchanged(p)
  <2>1. Replace(p, run[p].dir, new, "manifest", "diagnose")
    BY <1>2 DEF Canonicalize
  <2>2. /\ run[p] \in Run /\ At(run[p], D) /\ D \in Directory
        /\ run[p].chain \in Seq(Bodies)
    BY <1>0, Running
  <2>3. recs \in SUBSET Records
    <3>1. \A i \in DOMAIN run[p].chain : run[p].chain[i] \in Body
      BY <2>2, ConstantsAssumption
    <3>2. \A x \in recs : \E i \in DOMAIN run[p].chain : x \in run[p].chain[i].recs
      BY DEF AllRecords
    <3> HIDE DEF recs
    <3>3. QED
      BY <3>1, <3>2 DEF Body
  <2>4. Ending(run[p], D)
    BY <1>0, <2>2, AtFinishing
  <2>5. r.pc = "manifest" /\ r.chain = run[p].chain
    BY <2>2 DEF Run
  <2> HIDE DEF recs
  <2>6. /\ new \in Directory /\ new.ckpt = D.ckpt /\ new.raw = D.raw
        /\ new.canon = recs
    BY <2>2, <2>3 DEF Directory
  <2> HIDE DEF new, r
  <2>7. Ending(r, new)
    BY <1>0, <2>4, <2>5, <2>6 DEF Ending, Finishing, recs
  <2>8. QED
    BY <1>0, <2>1, <2>6, <2>7, FinishStep DEF r
<1>3. QED
  BY <1>1, <1>2

LEMMA WriteManifestKeeps ==
    ASSUME ChainInv, NEW p \in Procs, WriteManifest(p)
    PROVE  ChainInv' /\ Growth
<1> DEFINE D == Own(p)
           n == Len(run[p].chain)
           manifest == [raw |-> Pages(D.raw, n), history |-> D.history,
                        canon |-> D.canon, errors |-> D.errors, pages |-> n,
                        mode |-> run[p].mode]
           new == [D EXCEPT !.manifest = manifest]
           r == [run[p] EXCEPT !.pc = "self_check"]
<1>0. /\ run[p].pc = "manifest" /\ run[p].pc \in Finishing
      /\ run[p].pc # "idle" /\ Progress(p) /\ "self_check" \in Finishing
  BY FinalSteps DEF WriteManifest, ChainInv, Finishing
<1>1. /\ run[p] \in Run /\ At(run[p], D) /\ D \in Directory
      /\ n \in Nat /\ n <= MaxPages /\ run[p].mode \in Modes
      /\ D.raw \in [PageNumbers -> Bodies \cup {None}]
  BY <1>0, Running
<1>2. manifest \in Manifest
  <2>1. n \in 0..(MaxPages + 1)
    BY <1>1, ConstantsAssumption
  <2>2. Pages(D.raw, n) \in Seq(Bodies \cup {None})
    BY <1>1, <2>1, PagesType
  <2>3. QED
    BY <1>1, <2>2 DEF Manifest, Directory
<1>3. Ending(run[p], D)
  BY <1>0, <1>1, AtFinishing
<1>4. r.pc = "self_check" /\ r.chain = run[p].chain
  BY <1>1 DEF Run
<1>5. Replace(p, run[p].dir, new, "self_check", "diagnose")
  BY DEF WriteManifest
<1>6. manifest.pages = n
  OBVIOUS
<1> HIDE DEF manifest
<1>7. /\ new \in Directory /\ new.ckpt = D.ckpt /\ new.raw = D.raw
      /\ new.canon = D.canon
      /\ new.manifest = manifest /\ manifest # None
  BY <1>1, <1>2, AbsentAssumption DEF Directory
<1> HIDE DEF new, r
<1>8. Ending(r, new)
  BY <1>0, <1>3, <1>4, <1>6, <1>7 DEF Ending, Finishing
<1>9. QED
  BY <1>0, <1>5, <1>7, <1>8, FinishStep DEF r

\* A directory with the declared history is as declared.
LEMMA AsDeclared ==
    ASSUME NEW D \in Directory, D.history = D.manifest.history
    PROVE  Declared(D) = D
BY DEF Declared, Directory

\* What passes the check of the artifacts is as its manifest declares it.
LEMMA SelfCheckKeeps ==
    ASSUME ChainInv, NEW p \in Procs, SelfCheck(p)
    PROVE  ChainInv' /\ Growth
<1>0. /\ run[p].pc = "self_check" /\ run[p].pc \in Finishing
      /\ run[p].pc # "idle" /\ Inv /\ Progress(p) /\ disk' = disk
  BY DecisionSteps DEF SelfCheck, ChainInv, Finishing
<1>1. CASE Fail(p)
  BY <1>0, <1>1, DiagnosisKeeps
<1>2. CASE ~Fail(p)
  <2>1. ArtifactsMatch(Own(p)) /\ Goto(p, "check_history")
    BY <1>2 DEF SelfCheck
  <2>2. At(run[p], Own(p)) /\ Own(p) \in Directory
    BY <1>0, Running
  <2>3. /\ run'[p].pc = "check_history" /\ run'[p].pc \in Finishing
        /\ run'[p].chain = run[p].chain /\ run'[p].mode = run[p].mode
    BY <2>1, GoneTo DEF Finishing
  <2>4. Own(p).history = Own(p).manifest.history
    BY <2>1 DEF ArtifactsMatch
  <2>5. Declared(Own(p)) = Own(p)
    BY <2>2, <2>4, AsDeclared
  <2>6. Ending(run[p], Own(p))
    BY <1>0, <2>2, AtFinishing
  <2>7. Ending(run'[p], Own(p))
    BY <1>0, <2>1, <2>3, <2>4, <2>5, <2>6 DEF Ending
  <2>8. At(run'[p], Own(p))
    BY <1>0, <2>2, <2>3, <2>7, AtFinishing
  <2>9. Sourced(run'[p], disk, output)
    BY <2>3, Unsourced DEF Matched, Copying, Rebuilding
  <2>10. QED
    BY <1>0, <2>8, <2>9, MemoryStep
<1>3. QED
  BY <1>1, <1>2

\* The lines that are read then are the declared ones, or rebuilt ones.
LEMMA CheckHistoryKeeps ==
    ASSUME ChainInv, NEW p \in Procs, CheckHistory(p)
    PROVE  ChainInv' /\ Growth
<1>0. /\ run[p].pc = "check_history" /\ run[p].pc \in Finishing
      /\ run[p].pc # "idle" /\ Inv /\ Progress(p) /\ disk' = disk
  BY DecisionSteps DEF CheckHistory, ChainInv, Finishing
<1>1. CASE Fail(p)
  BY <1>0, <1>1, DiagnosisKeeps
<1>2. CASE ~Fail(p)
  <2>1. HistoryDescribes(Own(p)) /\ Goto(p, "mark_success")
    BY <1>2 DEF CheckHistory
  <2>2. At(run[p], Own(p)) /\ Own(p) \in Directory
    BY <1>0, Running
  <2>3. /\ run'[p].pc = "mark_success" /\ run'[p].pc \in Finishing
        /\ run'[p].chain = run[p].chain /\ run'[p].mode = run[p].mode
    BY <2>1, GoneTo DEF Finishing
  <2>4. Ending(run[p], Own(p))
    BY <1>0, <2>2, AtFinishing
  <2>5. Valid(Own(p)) \/ Rebuilt(Own(p))
    <3>1. CASE Own(p).history = Own(p).manifest.history
      BY <1>0, <2>1, <2>2, <2>4, <3>1, AsDeclared DEF Ending, Valid
    <3>2. QED
      BY <1>0, <2>4, <3>1 DEF Ending
  <2>6. Ending(run'[p], Own(p))
    BY <1>0, <2>3, <2>4, <2>5 DEF Ending
  <2>7. At(run'[p], Own(p))
    BY <1>0, <2>2, <2>3, <2>6, AtFinishing
  <2>8. Sourced(run'[p], disk, output)
    BY <2>3, Unsourced DEF Matched, Copying, Rebuilding
  <2>9. QED
    BY <1>0, <2>7, <2>8, MemoryStep
<1>3. QED
  BY <1>1, <1>2

LEMMA MarkSuccessKeeps ==
    ASSUME ChainInv, NEW p \in Procs, MarkSuccess(p)
    PROVE  ChainInv' /\ Growth
<1> DEFINE D == Own(p)
           new == [D EXCEPT !.success = TRUE]
           r == [run[p] EXCEPT !.pc = "promote"]
<1>0. /\ run[p].pc = "mark_success" /\ run[p].pc \in Finishing
      /\ run[p].pc # "idle" /\ Progress(p) /\ "promote" \in Finishing
  BY FinalSteps DEF MarkSuccess, ChainInv, Finishing
<1>1. run[p] \in Run /\ At(run[p], D) /\ D \in Directory
  BY <1>0, Running
<1>2. Ending(run[p], D)
  BY <1>0, <1>1, AtFinishing
<1>3. r.pc = "promote" /\ r.chain = run[p].chain
  BY <1>1 DEF Run
<1>4. Replace(p, run[p].dir, new, "promote", "diagnose")
  BY DEF MarkSuccess
<1>5. /\ new \in Directory /\ new.ckpt = D.ckpt /\ new.raw = D.raw
      /\ new.history = D.history /\ new.canon = D.canon
      /\ new.errors = D.errors /\ new.manifest = D.manifest /\ new.success
  BY <1>1 DEF Directory
<1>6. /\ Declared(new).raw = Declared(D).raw
      /\ Declared(new).history = Declared(D).history
      /\ Declared(new).canon = Declared(D).canon
      /\ Declared(new).errors = Declared(D).errors
      /\ Declared(new).manifest = Declared(D).manifest
  BY <1>1 DEF Declared, Directory
<1> HIDE DEF new, r
<1>7. ArtifactsMatch(Declared(D)) => ArtifactsMatch(Declared(new))
  BY <1>6 DEF ArtifactsMatch
<1>8. /\ Valid(D) => Valid(new)
      /\ Rebuilt(D) => Rebuilt(new)
  BY <1>5 DEF Valid, ArtifactsMatch, HistoryDescribes, Rebuilt
<1>9. Ending(r, new)
  BY <1>0, <1>2, <1>3, <1>5, <1>7, <1>8 DEF Ending
<1>10. QED
  BY <1>0, <1>4, <1>5, <1>9, FinishStep DEF r

-----------------------------------------------------------------------------
(* The end of a process, time, and the ends of a collection.               *)

\* What is asked of a process does not depend on its clocks and its attempts.
LEMMA SameMemory ==
    ASSUME NEW r, NEW s, NEW D, NEW fs, NEW out,
           s.pc = r.pc, s.chain = r.chain, s.mode = r.mode, s.page = r.page,
           s.source = r.source, s.head = r.head,
           At(r, D), Sourced(r, fs, out)
    PROVE  At(s, D) /\ Sourced(s, fs, out)
<1>1. Initializing(s, D) /\ Resuming(s, D) /\ Remembering(s) /\ Ending(s, D)
  BY DEF At, Initializing, Resuming, Remembering, Ending
<1>2. Committing(s, D)
  BY DEF At, Committing
<1>3. Sourced(s, fs, out)
  BY DEF Sourced
<1>4. QED
  BY <1>1, <1>2, <1>3 DEF At

LEMMA EndKeeps ==
    ASSUME ChainInv, NEW p \in Procs, Diagnose(p) \/ Crash(p) \/ Tick(p)
    PROVE  ChainInv' /\ Growth
<1>0. /\ run[p].pc # "idle" /\ Inv /\ Progress(p) /\ run \in [Procs -> Run]
  BY EndSteps DEF Diagnose, Crash, Tick, ChainInv, Inv, TypeOK
<1>1. /\ run[p] \in Run /\ At(run[p], Own(p)) /\ Sourced(run[p], disk, output)
      /\ Own(p) \in Directory
      /\ Sound(Own(p)) /\ (Own(p).ckpt = None => Own(p).raw = NoRaw)
  BY <1>0, Running
<1>2. CASE Diagnose(p)
  <2> DEFINE E == [Own(p) EXCEPT !.errors = "failed"]
  <2>1. run'[p].pc = "idle"
    BY <1>0, <1>2, IdleRunType DEF Diagnose
  <2>2. CASE disk' = disk
    BY <1>0, <2>1, <2>2, MemoryStep
  <2>3. CASE disk' = [disk EXCEPT ![run[p].dir] = E]
    <3>1. E \in Directory /\ E.ckpt = Own(p).ckpt /\ E.raw = Own(p).raw
      BY <1>1 DEF Directory
    <3> HIDE DEF E
    <3>2. Sound(E) /\ Grows(Own(p), E)
      BY <1>1, <3>1, SameCommitment
    <3>3. QED
      BY <1>0, <1>1, <2>1, <2>3, <3>1, <3>2, OwnStep
  <2>4. QED
    <3>1. [disk EXCEPT ![run[p].dir] = E]
            = [disk EXCEPT ![run[p].dir].errors = "failed"]
      BY DEF Own
    <3> HIDE DEF E
    <3>2. QED
      BY <1>2, <2>2, <2>3, <3>1 DEF Diagnose
<1>3. CASE Crash(p)
  <2>1. run'[p].pc = "idle" /\ disk' = disk
    BY <1>0, <1>3, IdleRunType DEF Crash
  <2>2. QED
    BY <1>0, <2>1, MemoryStep
<1>4. CASE Tick(p)
  <2>1. PICK stalled, elapsed :
          run' = [run EXCEPT ![p].stalled = stalled, ![p].elapsed = elapsed]
    BY <1>4 DEF Tick
  <2>2. run'[p] = [run[p] EXCEPT !.stalled = stalled, !.elapsed = elapsed]
    BY <1>0, <2>1
  <2>3. /\ run'[p].pc = run[p].pc /\ run'[p].chain = run[p].chain
        /\ run'[p].mode = run[p].mode /\ run'[p].page = run[p].page
        /\ run'[p].source = run[p].source /\ run'[p].head = run[p].head
    BY <1>1, <2>2 DEF Run
  <2>4. At(run'[p], Own(p)) /\ Sourced(run'[p], disk, output)
    BY <1>1, <2>3, SameMemory
  <2>5. QED
    BY <1>0, <1>4, <2>4, MemoryStep DEF Tick
<1>5. QED
  BY <1>2, <1>3, <1>4

\* A collection starts in an empty directory of its own.
LEMMA StartKeeps ==
    ASSUME ChainInv, NEW p \in Procs, Start(p)
    PROVE  ChainInv' /\ Growth
<1>0. /\ run \in [Procs -> Run] /\ disk \in [Dirs -> Directory \cup {None}]
      /\ Inv /\ Inv' /\ output = None /\ output' = output
      /\ \A e \in Dirs : disk[e] # None => disk'[e] = disk[e]
  BY StartStep DEF ChainInv, Inv, TypeOK, Start
<1>1. disk' \in [Dirs -> Directory \cup {None}] /\ run' \in [Procs -> Run]
  BY <1>0 DEF Inv, TypeOK
<1>2. PICK d \in Dirs \ {0}, m \in Modes :
        /\ disk[d] = None
        /\ disk' = [disk EXCEPT ![d] = EmptyDirectory]
        /\ \E s : run' = [run EXCEPT ![p] =
              [IdleRun EXCEPT !.pc = "initialize_history", !.mode = m,
                              !.dir = d, !.source = s]]
  BY DEF Start
<1>3. disk'[d] = EmptyDirectory /\ \A e \in Dirs \ {d} : disk'[e] = disk[e]
  BY <1>0, <1>2
<1>4. /\ run'[p].pc = "initialize_history" /\ run'[p].dir = d
      /\ run'[p].chain = <<>>
  <2>1. \E s : run'[p] = [IdleRun EXCEPT !.pc = "initialize_history",
                                  !.mode = m, !.dir = d, !.source = s]
    BY <1>0, <1>2
  <2>2. QED
    BY <2>1 DEF IdleRun
<1>5. /\ EmptyDirectory.ckpt = None /\ EmptyDirectory.raw = NoRaw
      /\ Sound(EmptyDirectory)
  BY DEF EmptyDirectory, Sound
<1>6. Growth
  <2>1. \A e \in Dirs : disk[e] # None => disk[e] \in Directory
    BY <1>0
  <2>2. QED
    BY <1>0, <2>1, GrowsItself DEF Growth
<1>7. DirectoriesSound(disk')
  BY <1>3, <1>5 DEF ChainInv, DirectoriesSound
<1>8. ASSUME NEW q \in Procs, run'[q].pc # "idle"
      PROVE  At(run'[q], disk'[run'[q].dir]) /\ Sourced(run'[q], disk', output')
  <2>1. CASE q = p
    <3>1. At(run'[p], EmptyDirectory)
      BY <1>4, <1>5, AtInitializing
    <3>2. Sourced(run'[p], disk', output')
      BY <1>4, Unsourced DEF Matched, Copying, Rebuilding
    <3>3. QED
      BY <1>3, <1>4, <2>1, <3>1, <3>2
  <2>2. CASE q # p
    <3>1. run'[q] = run[q] /\ run[q].pc # "idle" /\ run[q] \in Run
      BY <1>0, <1>2, <1>8, <2>2
    <3>2. disk[run[q].dir] # None /\ run[q].dir \in Dirs
      BY <1>0, <3>1 DEF Inv, Owned, Run
    <3>3. disk'[run[q].dir] = disk[run[q].dir]
      BY <1>0, <3>2
    <3>4. /\ At(run[q], disk[run[q].dir]) /\ Sourced(run[q], disk, output)
          /\ Len(run[q].chain) <= MaxPages
      BY <3>1, Running DEF ChainInv
    <3>5. Sourced(run[q], disk', output)
      BY <1>0, <1>1, <1>6, <3>1, <3>4, SourcedKept DEF Growth
    <3>6. QED
      BY <1>0, <3>1, <3>3, <3>4, <3>5
  <2>3. QED
    BY <2>1, <2>2
<1>9. QED
  BY <1>0, <1>6, <1>7, <1>8 DEF ChainInv

\* The directory of a collection that is at its promotion is complete.
LEMMA PromotedIsComplete ==
    ASSUME ChainInv, NEW p \in Procs, run[p].pc = "promote"
    PROVE  /\ Complete(Own(p)) /\ Own(p).ckpt # None
           /\ Own(p).manifest.pages = Own(p).ckpt.pages
<1> DEFINE D == Own(p)
           chain == run[p].chain
           n == Len(chain)
<1>0. run[p].pc # "idle" /\ run[p].pc \in Finishing
  BY DEF Finishing
<1>1. /\ run[p] \in Run /\ At(run[p], D) /\ D \in Directory
      /\ chain \in Seq(Bodies) /\ n \in Nat /\ n <= MaxPages
  BY <1>0, Running
<1> HIDE DEF D
<1>2. /\ Linked(chain) /\ Holds(D.raw, chain, n)
      /\ HeadOf(D, chain, run[p].mode) /\ Ending(run[p], D)
  BY <1>0, <1>1, AtFinishing
<1>3. /\ chain # <<>> /\ Next_(chain) = None /\ D.canon = AllRecords(chain)
      /\ D.manifest # None /\ D.manifest.pages = n
      /\ ArtifactsMatch(Declared(D)) /\ (Valid(D) \/ Rebuilt(D)) /\ D.success
  BY <1>0, <1>2 DEF Ending
<1>4. n > 0 /\ chain[n].next = None
  BY <1>1, <1>3 DEF Next_
<1>5. /\ Pages(D.raw, n) = chain /\ RawPages(D.raw) = 1..n
      /\ \A i \in 1..n : chain[i] # None
  <2>1. Len(chain) \in 0..Len(chain) /\ Len(chain) <= MaxPages
    BY <1>1
  <2>2. Holds(D.raw, chain, Len(chain)) /\ chain \in Seq(Bodies)
    BY <1>1, <1>2
  <2> HIDE DEF chain, n
  <2>3. RawPages(D.raw) = 1..Len(chain)
    <3>1. PICK k \in 0..Len(chain) : k = Len(chain)
      BY <2>1
    <3>2. RawPages(D.raw) = 1..k
      BY <2>1, <2>2, <3>1, HoldsPages
    <3>3. QED
      BY <3>1, <3>2
  <2>4. Pages(D.raw, Len(chain)) = chain
    BY <2>1, <2>2, HoldsPages
  <2>5. \A i \in 1..Len(chain) : chain[i] # None
    BY <2>2, ConstantsAssumption
  <2>6. QED
    BY <2>3, <2>4, <2>5 DEF n
<1>6. D.ckpt # None /\ D.ckpt.pages = n
  BY <1>2 DEF HeadOf
<1>7. Complete(D)
  <2> HIDE DEF chain
  <2>1. QED
    BY <1>2, <1>3, <1>4, <1>5 DEF Complete
<1>8. QED
  BY <1>3, <1>6, <1>7 DEF D

\* A promotion moves a complete directory; who was reading or copying from it
\* finds its pages at the destination.
LEMMA PromoteKeeps ==
    ASSUME ChainInv, NEW p \in Procs, Promote(p)
    PROVE  ChainInv' /\ (Growth \/ /\ output = None /\ output' = Own(p)
                                   /\ disk' = [disk EXCEPT ![run[p].dir] = None])
<1>0. /\ run \in [Procs -> Run] /\ disk \in [Dirs -> Directory \cup {None}]
      /\ Inv /\ Inv' /\ run[p].pc = "promote" /\ run[p].pc # "idle"
      /\ run' \in [Procs -> Run]
  BY PromoteStep DEF ChainInv, Inv, TypeOK, Promote
<1>1. CASE FailUnchanged(p)
  BY <1>0, <1>1, FailKeeps
<1>2. CASE ~FailUnchanged(p)
  <2> DEFINE d == run[p].dir
             D == Own(p)
  <2>1. /\ output = None /\ output' = D
        /\ disk' = [disk EXCEPT ![d] = None]
        /\ run' = [run EXCEPT ![p] = IdleRun]
    BY <1>2 DEF Promote
  <2>2. /\ d \in Dirs /\ d # 0 /\ D = disk[d] /\ D # None
    BY <1>0, Running
  <2>3. Complete(D) /\ D.ckpt # None /\ D.manifest.pages = D.ckpt.pages
    BY <1>0, PromotedIsComplete
  <2> HIDE DEF D
  <2>4. disk'[d] = None /\ \A e \in Dirs \ {d} : disk'[e] = disk[e]
    BY <1>0, <2>1, <2>2
  <2>5. DirectoriesSound(disk')
    BY <2>2, <2>4 DEF ChainInv, DirectoriesSound
  <2>6. ASSUME NEW s \in Dirs, NEW n, HasPages(disk, output, s, n)
        PROVE  HasPages(disk', output', s, n)
    <3>1. CASE s = d
      BY <2>1, <2>2, <2>3, <2>4, <2>6, <3>1 DEF HasPages
    <3>2. CASE s # d
      BY <2>1, <2>4, <2>6, <3>2 DEF HasPages
    <3>3. QED
      BY <3>1, <3>2
  <2>7. ASSUME NEW s \in Dirs, NEW chain, IsSomewhere(disk, output, s),
               StartsWith(disk, output, s, chain)
        PROVE  /\ IsSomewhere(disk', output', s)
               /\ StartsWith(disk', output', s, chain)
    <3>1. disk[s] # None
      BY <2>1, <2>7 DEF IsSomewhere
    <3>2. CASE s = d
      BY <2>1, <2>2, <2>4, <2>7, <3>1, <3>2 DEF StartsWith, IsSomewhere
    <3>3. CASE s # d
      BY <2>4, <2>7, <3>1, <3>3 DEF StartsWith, IsSomewhere
    <3>4. QED
      BY <3>2, <3>3
  <2>8. ASSUME NEW q \in Procs, run'[q].pc # "idle"
        PROVE  /\ At(run'[q], disk'[run'[q].dir])
               /\ Sourced(run'[q], disk', output')
    <3>1. q # p
      BY <1>0, <2>1, <2>8, IdleRunType
    <3>2. run'[q] = run[q] /\ run[q].pc # "idle" /\ run[q] \in Run
      BY <1>0, <2>1, <2>8, <3>1
    <3>3. run[q].dir # d /\ run[q].dir \in Dirs
      BY <1>0, <3>1, <3>2 DEF Inv, Owned, Run
    <3>4. At(run[q], disk[run[q].dir]) /\ Sourced(run[q], disk, output)
      BY <3>2 DEF ChainInv
    <3>5. At(run[q], disk'[run[q].dir])
      BY <2>4, <3>3, <3>4
    <3> DEFINE r == run[q]
    <3> HIDE DEF r
    <3>6. r \in Run /\ Sourced(r, disk, output)
      BY <3>2, <3>4 DEF r
    <3>7. r.pc \in Rebuilding \cup Matched \cup {"read_pages"} =>
            r.source \in Dirs
      BY <3>6 DEF Sourced, Run
    <3>8. r.pc = "read_pages" => HasPages(disk', output', r.source, r.head)
      BY <2>6, <3>6, <3>7 DEF Sourced
    <3>9. r.pc \in Matched => HasPages(disk', output', r.source, Len(r.chain))
      BY <2>6, <3>6, <3>7 DEF Sourced
    <3>10. r.pc \in Rebuilding \cup Matched =>
             /\ IsSomewhere(disk', output', r.source)
             /\ StartsWith(disk', output', r.source, r.chain)
      BY <2>7, <3>6, <3>7 DEF Sourced
    <3>11. Sourced(r, disk', output')
      BY <3>6, <3>8, <3>9, <3>10 DEF Sourced
    <3>12. QED
      BY <3>2, <3>5, <3>11 DEF r
  <2>9. ChainInv'
    BY <1>0, <2>1, <2>3, <2>5, <2>8 DEF ChainInv
  <2>10. QED
    BY <2>1, <2>9 DEF D
<1>3. QED
  BY <1>1, <1>2

-----------------------------------------------------------------------------
(* Invariance.                                                             *)

LEMMA InitChain == Init => ChainInv
<1> SUFFICES ASSUME Init PROVE ChainInv
  OBVIOUS
<1>1. Inv
  BY InitInv
<1>2. PICK raw \in LegacyRaws :
        disk = [d \in Dirs |->
                  IF d = 0 THEN [EmptyDirectory EXCEPT !.raw = raw] ELSE None]
  BY DEF Init
<1>3. 0 \in Dirs /\ disk[0].ckpt = None
  BY <1>2, ConstantsAssumption DEF Dirs, EmptyDirectory
<1>4. DirectoriesSound(disk)
  BY <1>2, <1>3 DEF DirectoriesSound, Sound
<1>5. output = None /\ \A p \in Procs : run[p].pc = "idle"
  BY IdleRunType DEF Init
<1>6. QED
  BY <1>1, <1>4, <1>5 DEF ChainInv

\* Every step but a promotion keeps what is committed.
LEMMA StepsKeep ==
    ASSUME ChainInv, NEW p \in Procs,
           Start(p) \/ Step(p) \/ Network(p) \/ Crash(p) \/ Tick(p), ~Promote(p)
    PROVE  ChainInv' /\ Growth
<1>1. CASE Resume(p)
  BY <1>1, ResumeSourceKeeps, ReconstructStateKeeps, ReconstructHistoryKeeps,
     DigestKeeps, ReconstructHeadKeeps, ReadHeadKeeps, ReadPagesKeeps,
     MatchHeadKeeps, ReadHistoryKeeps, CopyPagesKeeps, AdoptHistoryKeeps,
     AdoptHeadKeeps DEF Resume
<1>2. CASE Collect(p)
  BY <1>2, InitializeHistoryKeeps, InitializeHeadKeeps, FetchingKeeps,
     ValidateKeeps, StorePageKeeps, StoreHistoryKeeps, DigestKeeps,
     StoreHeadKeeps, RollbackKeeps DEF Collect
<1>3. CASE Finalize(p)
  BY <1>3, CanonicalizeKeeps, WriteManifestKeeps, SelfCheckKeeps,
     CheckHistoryKeeps, MarkSuccessKeeps, EndKeeps DEF Finalize
<1>4. QED
  BY <1>1, <1>2, <1>3, StartKeeps, FetchingKeeps, EndKeeps DEF Step

LEMMA NextChain == ChainInv /\ [Next]_vars => ChainInv'
<1> SUFFICES ASSUME ChainInv, [Next]_vars PROVE ChainInv'
  OBVIOUS
<1>1. CASE UNCHANGED vars
  <2>1. disk' = disk /\ output' = output /\ run' = run
    BY <1>1 DEF vars
  <2>2. Inv'
    BY NextInv DEF ChainInv
  <2>3. QED
    BY <2>1, <2>2 DEF ChainInv
<1>2. CASE Next
  BY <1>2, StepsKeep, PromoteKeeps DEF Next
<1>3. QED
  BY <1>1, <1>2

LEMMA ChainInvariance == Spec => []ChainInv
BY InitChain, NextChain, PTL DEF Spec

-----------------------------------------------------------------------------
(* Theorems.                                                               *)

\* The pages the Registry answers with do not name the cursor they were asked
\* for, as the official ones do not (docs/registry-bundle-v1.md:210).
SilentInput == \A body \in Bodies : body.echo = None

LEMMA SilentChain ==
    ASSUME SilentInput, NEW chain, Linked(chain),
           \A i \in DOMAIN chain : chain[i] \in Bodies
    PROVE  Chained(chain)
BY DEF SilentInput, Linked, Chained

\* Under crashes, failures, races and resumes alike, a checkpoint names pages
\* that are on disk and form one chain from the first page.
THEOREM HeadsAreBacked == ASSUME SilentInput PROVE Spec => []HeadIsBacked
<1>1. ChainInv => HeadIsBacked
  <2> SUFFICES ASSUME ChainInv, NEW d \in Dirs, HasHead(d)
               PROVE  /\ disk[d].ckpt.pages <= MaxPages
                      /\ \A n \in 1..disk[d].ckpt.pages : disk[d].raw[n] # None
                      /\ Chained(Committed(d))
                      /\ disk[d].ckpt.next = Next_(Committed(d))
                      /\ disk[d].ckpt.pages > 0 =>
                             disk[d].ckpt.last = disk[d].raw[disk[d].ckpt.pages]
    BY DEF HeadIsBacked
  <2> DEFINE n == disk[d].ckpt.pages
             chain == Pages(disk[d].raw, n)
  <2>1. /\ disk[d] # None /\ disk[d].ckpt # None /\ Committed(d) = chain
        /\ disk[d] \in Directory
    BY DEF HasHead, Committed, ChainInv, Inv, TypeOK
  <2>2. Sound(disk[d])
    BY <2>1 DEF ChainInv, DirectoriesSound
  <2>3. /\ n <= MaxPages /\ \A i \in 1..n : disk[d].raw[i] # None
        /\ Linked(chain) /\ disk[d].ckpt.next = Next_(chain)
        /\ n > 0 => disk[d].ckpt.last = disk[d].raw[n]
    BY <2>1, <2>2 DEF Sound
  <2>4. n \in Nat /\ disk[d].raw \in [PageNumbers -> Bodies \cup {None}]
    BY <2>1, GrowsItself DEF Directory
  <2>5. \A i \in DOMAIN chain : chain[i] \in Bodies
    <3>1. \A i \in 1..n : i \in PageNumbers
      BY <2>3, <2>4, ConstantsAssumption DEF PageNumbers
    <3>2. QED
      BY <2>3, <2>4, <3>1 DEF Pages
  <2>6. Chained(chain)
    BY <2>3, <2>5, SilentChain
  <2>7. QED
    BY <2>1, <2>3, <2>6
<1>2. QED
  BY <1>1, ChainInvariance, PTL

\* Whenever the network is used, memory and the durable head agree, also in a
\* run that adopted the pages of another that went on, or was published,
\* while they were copied.
THEOREM RequestsFollowHeads == Spec => []RequestFollowsDurableHead
<1>1. ChainInv => RequestFollowsDurableHead
  <2> SUFFICES ASSUME ChainInv, NEW p \in Procs,
                      run[p].pc \in {"request", "await", "backoff"}
               PROVE  /\ HasHead(run[p].dir)
                      /\ Committed(run[p].dir) = run[p].chain
                      /\ Own(p).ckpt.mode = run[p].mode
    BY DEF RequestFollowsDurableHead
  <2> DEFINE chain == run[p].chain
  <2>1. run[p].pc # "idle" /\ run[p].pc \in Fetching
    BY DEF Fetching
  <2>2. /\ Own(p) = disk[run[p].dir] /\ Own(p) # None
        /\ chain \in Seq(Bodies) /\ Len(chain) <= MaxPages
        /\ At(run[p], Own(p))
    BY <2>1, Running
  <2>3. /\ Holds(Own(p).raw, chain, Len(chain))
        /\ HeadOf(Own(p), chain, run[p].mode)
    BY <2>1, <2>2, AtFetching
  <2>4. /\ Own(p).ckpt # None /\ Own(p).ckpt.pages = Len(chain)
        /\ Own(p).ckpt.mode = run[p].mode
    BY <2>3 DEF HeadOf
  <2>5. Pages(Own(p).raw, Len(chain)) = chain
    BY <2>2, <2>3, HoldsPages
  <2>6. QED
    BY <2>2, <2>4, <2>5 DEF HasHead, Committed
<1>2. QED
  BY <1>1, ChainInvariance, PTL

\* What appears at the destination is marked and is one complete chain of
\* pages, with the records of exactly those pages, as its manifest declares;
\* it validates, or its page history is one that a resume rebuilt from its own
\* first pages.
THEOREM PublicationsAreComplete ==
    ASSUME SilentInput PROVE Spec => []PublishedIsComplete
<1>1. ChainInv => PublishedIsComplete
  <2> SUFFICES ASSUME ChainInv, output # None
               PROVE  /\ output.success /\ CompleteCollection(output)
                      /\ Valid(output) \/ Rebuilt(output)
                      /\ ArtifactsMatch(Declared(output))
    BY DEF PublishedIsComplete
  <2> DEFINE m == output.manifest
             n == m.pages
             chain == Pages(output.raw, n)
  <2>1. Complete(output) /\ output \in Directory
    BY DEF ChainInv, Inv, TypeOK
  <2>2. /\ output.success /\ m # None /\ n > 0
        /\ ArtifactsMatch(Declared(output)) /\ (Valid(output) \/ Rebuilt(output))
        /\ \A i \in 1..n : chain[i] # None
        /\ Linked(chain) /\ chain[n].next = None
        /\ RawPages(output.raw) = 1..n
        /\ output.canon = AllRecords(chain)
    BY <2>1 DEF Complete
  <2>3. /\ n \in Nat /\ output.raw \in [PageNumbers -> Bodies \cup {None}]
    BY <2>1, <2>2 DEF Directory, Manifest
  <2>4. \A i \in 1..n : chain[i] \in Bodies /\ i \in PageNumbers
    <3>1. \A i \in 1..n : i \in PageNumbers
      BY <2>2 DEF RawPages
    <3>2. QED
      BY <2>2, <2>3, <3>1 DEF Pages
  <2>5. Chained(chain)
    <3>1. DOMAIN chain = 1..n
      BY DEF Pages
    <3>2. QED
      BY <2>2, <2>4, <3>1, SilentChain
  <2>6. Functional(output.canon)
    <3>1. Declared(output).canon = output.canon
      BY <2>1 DEF Declared, Directory
    <3>2. QED
      BY <2>2, <3>1 DEF ArtifactsMatch
  <2>7. CompleteCollection(output)
    <3> HIDE DEF chain
    <3>1. QED
      BY <2>2, <2>5, <2>6 DEF CompleteCollection, chain
  <2>8. QED
    BY <2>2, <2>7
<1>2. QED
  BY <1>1, ChainInvariance, PTL

\* No run changes, moves or removes a retained partial with a checkpoint, but
\* for its page history, which a resume that found it without one may replace
\* by that of its own first pages.
THEOREM PartialsAreEvidence == Spec => RetainedPartialIsEvidence
<1>1. ChainInv /\ [Next]_vars =>
        [\A d \in Dirs : Retained(d) /\ HasHead(d) =>
            \/ disk'[d] = disk[d]
            \/ \E p \in Procs :
                  /\ run[p].pc = "reconstruct_history"
                  /\ run[p].source = d
                  /\ run[p].chain = Pages(disk[d].raw, Len(run[p].chain))
                  /\ disk'[d] = [disk[d] EXCEPT
                                   !.history = LegacyHistory(run[p].chain)]]_vars
  <2> SUFFICES ASSUME ChainInv, Next, NEW d \in Dirs, Retained(d), HasHead(d),
                      disk'[d] # disk[d]
               PROVE  \E p \in Procs :
                        /\ run[p].pc = "reconstruct_history"
                        /\ run[p].source = d
                        /\ run[p].chain = Pages(disk[d].raw, Len(run[p].chain))
                        /\ disk'[d] = [disk[d] EXCEPT
                                         !.history = LegacyHistory(run[p].chain)]
    BY DEF vars
  <2>1. PICK p \in Procs :
            Start(p) \/ Step(p) \/ Network(p) \/ Crash(p) \/ Tick(p)
    BY DEF Next
  <2>2. Inv /\ disk[d] # None
    BY DEF ChainInv, Retained
  <2>3. ~Start(p)
    BY <2>2, StartStep
  <2>4. ~Promote(p)
    BY <2>2, PromoteStep DEF Retained
  <2>5. Progress(p)
    BY <2>1, <2>2, <2>3, <2>4, StepsProgress
  <2>6. run[p].pc # "idle" /\ Rebuilds(p, d, disk'[d])
    BY <2>5 DEF Progress, Retained
  <2>7. /\ run[p].pc = "reconstruct_history" /\ run[p].source = d
        /\ disk'[d] = [disk[d] EXCEPT !.history = LegacyHistory(run[p].chain)]
    BY <2>6 DEF Rebuilds
  <2>8. run[p].chain = Pages(disk[d].raw, Len(run[p].chain))
    <3>1. run[p].pc \in Rebuilding /\ Sourced(run[p], disk, output)
      BY <2>6, <2>7, Running DEF Rebuilding
    <3>2. QED
      BY <2>2, <2>7, <3>1 DEF Sourced, StartsWith
  <2>9. QED
    BY <2>7, <2>8
<1>2. QED
  BY <1>1, ChainInvariance, PTL DEF Spec, RetainedPartialIsEvidence

\* A promotion takes away the process's own directory and nothing else.
LEMMA OthersStay ==
    ASSUME ChainInv, NEW p \in Procs, Promote(p), ~Growth
    PROVE  \A d \in Dirs : disk'[d] \in {disk[d], None}
<1>1. disk \in [Dirs -> Directory \cup {None}] /\ run[p].dir \in Dirs
  <2>1. run[p].pc # "idle"
    BY DEF Promote
  <2>2. QED
    BY <2>1, Running DEF ChainInv, Inv, TypeOK
<1>2. disk' = [disk EXCEPT ![run[p].dir] = None]
  BY PromoteKeeps
<1>3. QED
  BY <1>1, <1>2

\* Within a directory the durable head never moves back and no committed page
\* changes, under any interleaving of writers, resumes and crashes.
THEOREM CommitsOnlyGrow == Spec => CommittedOnlyGrows
<1>1. ChainInv /\ [Next]_vars =>
        [\A d \in Dirs : HasHead(d) /\ disk'[d] # None =>
            /\ disk'[d].ckpt # None
            /\ disk'[d].ckpt.pages >= disk[d].ckpt.pages
            /\ Committed(d) = Pages(disk'[d].raw, disk[d].ckpt.pages)]_vars
  <2> SUFFICES ASSUME ChainInv, Next, NEW d \in Dirs, HasHead(d),
                      disk'[d] # None
               PROVE  /\ disk'[d].ckpt # None
                      /\ disk'[d].ckpt.pages >= disk[d].ckpt.pages
                      /\ Committed(d) = Pages(disk'[d].raw, disk[d].ckpt.pages)
    BY DEF vars
  <2>1. PICK p \in Procs :
            Start(p) \/ Step(p) \/ Network(p) \/ Crash(p) \/ Tick(p)
    BY DEF Next
  <2>2. /\ disk[d] # None /\ disk[d].ckpt # None /\ disk[d] \in Directory
        /\ Committed(d) = Pages(disk[d].raw, disk[d].ckpt.pages)
    BY DEF HasHead, Committed, ChainInv, Inv, TypeOK
  <2>3. Grows(disk[d], disk'[d])
    <3>1. CASE Growth
      BY <2>2, <3>1 DEF Growth
    <3>2. CASE ~Growth
      <4>1. Promote(p)
        BY <2>1, <3>2, StepsKeep
      <4>2. disk'[d] = disk[d]
        BY <3>2, <4>1, OthersStay
      <4>3. QED
        BY <2>2, <4>2, GrowsItself
    <3>3. QED
      BY <3>1, <3>2
  <2>4. /\ disk'[d].ckpt # None /\ disk[d].ckpt.pages <= disk'[d].ckpt.pages
        /\ Pages(disk'[d].raw, disk[d].ckpt.pages)
             = Pages(disk[d].raw, disk[d].ckpt.pages)
    BY <2>2, <2>3 DEF Grows
  <2>5. QED
    BY <2>2, <2>4
<1>2. QED
  BY <1>1, ChainInvariance, PTL DEF Spec, CommittedOnlyGrows

-----------------------------------------------------------------------------
(* The stall clock.                                                        *)

LEMMA ClockStays ==
    ASSUME ChainInv, NEW p \in Procs,
           \/ Resume(p) \/ Network(p)
           \/ Collect(p) /\ ~StoreHead(p)
           \/ Canonicalize(p) \/ WriteManifest(p) \/ SelfCheck(p)
           \/ CheckHistory(p) \/ MarkSuccess(p)
    PROVE  run'[p].stalled = run[p].stalled
<1>1. run \in [Procs -> Run] /\ run[p] \in Run
  BY DEF ChainInv, Inv, TypeOK
<1>2. ASSUME NEW stage, Goto(p, stage) PROVE run'[p].stalled = run[p].stalled
  <2>1. run'[p] = [run[p] EXCEPT !.pc = stage]
    BY <1>1, <1>2 DEF Goto
  <2>2. QED
    BY <1>1, <2>1 DEF Run
<1>3. ASSUME Fail(p) PROVE run'[p].stalled = run[p].stalled
  BY <1>2, <1>3 DEF Fail, Goto
<1>4. ASSUME NEW d, NEW new, NEW next, NEW other, Replace(p, d, new, next, other)
      PROVE  run'[p].stalled = run[p].stalled
  BY <1>2, <1>4 DEF Replace
<1>5. CASE DigestReconstructed(p) \/ DigestAdopted(p) \/ DigestStored(p)
  <2>1. PICK next, digest : \/ Fail(p)
                            \/ run' = [run EXCEPT ![p].pc = next,
                                                  ![p].digest = digest]
    BY <1>5 DEF DigestReconstructed, DigestAdopted, DigestStored, Digest
  <2>2. CASE run' = [run EXCEPT ![p].pc = next, ![p].digest = digest]
    <3>1. run'[p] = [run[p] EXCEPT !.pc = next, !.digest = digest]
      BY <1>1, <2>2
    <3>2. QED
      BY <1>1, <3>1 DEF Run
  <2>3. QED
    BY <1>3, <2>1, <2>2
<1>6. CASE \/ Canonicalize(p) \/ WriteManifest(p) \/ SelfCheck(p)
           \/ CheckHistory(p) \/ MarkSuccess(p)
  BY <1>2, <1>3, <1>4, <1>6
     DEF Canonicalize, WriteManifest, SelfCheck, CheckHistory, MarkSuccess,
         FailUnchanged
<1>7. CASE Resume(p)
  <2>1. CASE ReconstructState(p) /\ ~Fail(p)
    <3>1. PICK chain : run' = [run EXCEPT ![p].pc = "reconstruct_history",
                                          ![p].chain = chain]
      BY <2>1 DEF ReconstructState
    <3>2. run'[p] = [run[p] EXCEPT !.pc = "reconstruct_history",
                                   !.chain = chain]
      BY <1>1, <3>1
    <3>3. QED
      BY <1>1, <3>2 DEF Run
  <2>2. CASE ReadHead(p) /\ ~Fail(p)
    <3>1. run'[p] = [run[p] EXCEPT !.pc = "read_pages",
                                   !.head = Source(p).ckpt.pages]
      BY <1>1, <2>2 DEF ReadHead
    <3>2. QED
      BY <1>1, <3>1 DEF Run
  <2>3. CASE ReadPages(p) /\ ~Fail(p)
    <3>1. PICK chain : run' = [run EXCEPT ![p].pc = "match_head",
                                          ![p].chain = chain]
      BY <2>3 DEF ReadPages
    <3>2. run'[p] = [run[p] EXCEPT !.pc = "match_head", !.chain = chain]
      BY <1>1, <3>1
    <3>3. QED
      BY <1>1, <3>2 DEF Run
  <2>4. CASE ReadHistory(p) /\ ~Fail(p)
    <3>1. run'[p] = [run[p] EXCEPT !.pc = "copy_pages",
                                   !.history = Source(p).history]
      BY <1>1, <2>4 DEF ReadHistory
    <3>2. QED
      BY <1>1, <3>1 DEF Run
  <2>5. CASE ResumeSource(p) \/ CheckReconstruct(p) \/ MatchHead(p)
    BY <1>2, <1>3, <2>5 DEF ResumeSource, CheckReconstruct, MatchHead
  <2>6. CASE \/ ReconstructHistory(p) \/ ReconstructHead(p) \/ CopyPages(p)
             \/ AdoptHistory(p) \/ AdoptHead(p)
    BY <1>2, <1>3, <1>4, <2>6
       DEF ReconstructHistory, ReconstructHead, CopyPages, AdoptHistory,
           AdoptHead, FailUnchanged
  <2>7. QED
    BY <1>3, <1>5, <1>7, <2>1, <2>2, <2>3, <2>4, <2>5, <2>6
       DEF Resume
<1>8. CASE Network(p) \/ NextPage(p) \/ Retry(p)
  <2>1. CASE Respond(p)
    <3>1. PICK body : run' = [run EXCEPT ![p].pc = "validate", ![p].page = body]
      BY <2>1 DEF Respond
    <3>2. run'[p] = [run[p] EXCEPT !.pc = "validate", !.page = body]
      BY <1>1, <3>1
    <3>3. QED
      BY <1>1, <3>2 DEF Run
  <2>2. CASE Redirect(p) /\ ~Fail(p)
    <3>1. run'[p] = [run[p] EXCEPT !.pc = "request",
                                   !.redirects = run[p].redirects + 1]
      BY <1>1, <2>2 DEF Redirect
    <3>2. QED
      BY <1>1, <3>1 DEF Run
  <2>3. CASE NextPage(p) /\ ~Fail(p)
    <3>1. run'[p] = [run[p] EXCEPT !.pc = "request", !.attempt = 1,
                                   !.redirects = 0]
      BY <1>1, <2>3 DEF NextPage
    <3>2. QED
      BY <1>1, <3>1 DEF Run
  <2>4. CASE Retry(p) /\ ~Fail(p)
    <3>1. run'[p] = [run[p] EXCEPT !.pc = "request",
                                   !.attempt = run[p].attempt + 1,
                                   !.redirects = 0]
      BY <1>1, <2>4 DEF Retry
    <3>2. QED
      BY <1>1, <3>1 DEF Run
  <2>5. CASE TransientFailure(p) \/ FatalFailure(p)
    BY <1>2, <1>3, <2>5 DEF TransientFailure, FatalFailure, FailUnchanged
  <2>6. QED
    BY <1>3, <1>8, <2>1, <2>2, <2>3, <2>4, <2>5 DEF Network
<1>9. CASE \/ InitializeHistory(p) \/ InitializeHead(p) \/ Request(p)
           \/ CancelRequest(p) \/ Validate(p) \/ StorePage(p)
           \/ StoreHistory(p) \/ Rollback(p)
  BY <1>2, <1>3, <1>4, <1>9
     DEF InitializeHistory, InitializeHead, Request, CancelRequest, Validate,
         StorePage, StoreHistory, Rollback, FailUnchanged
<1>10. QED
  BY <1>5, <1>6, <1>7, <1>8, <1>9 DEF Collect

\* A new head of a directory, its pages being there already.
LEMMA HeadWritten ==
    ASSUME ChainInv, NEW e \in Dirs, disk[e] # None, NEW E \in Directory,
           E.ckpt # None, E.raw = disk[e].raw, disk' = [disk EXCEPT ![e] = E]
    PROVE  /\ HasHead(e)' /\ Committed(e)' = Pages(disk[e].raw, E.ckpt.pages)
           /\ \A d \in Dirs \ {e} : Committed(d)' = Committed(d)
<1>1. disk \in [Dirs -> Directory \cup {None}] /\ E # None
  BY AbsentAssumption DEF ChainInv, Inv, TypeOK
<1>2. disk'[e] = E /\ \A d \in Dirs \ {e} : disk'[d] = disk[d]
  BY <1>1
<1>3. HasHead(e)' /\ Committed(e)' = Pages(disk[e].raw, E.ckpt.pages)
  BY <1>1, <1>2 DEF HasHead, Committed
<1>4. \A d \in Dirs \ {e} : Committed(d)' = Committed(d)
  BY <1>2 DEF HasHead, Committed
<1>5. QED
  BY <1>3, <1>4

\* The head of a fetched page is written, and then known, or it is not known
\* whether it was.
LEMMA StoreHeadCommits ==
    ASSUME ChainInv, NEW p \in Procs, StoreHead(p)
    PROVE  \E e \in Dirs :
           /\ e = run[p].dir /\ run[p].page \in Bodies
           /\ Committed(e) = run[p].chain
           /\ run[p].chain \in Seq(Bodies)
           /\ Linked(Append(run[p].chain, run[p].page))
           /\ \/ disk' = disk /\ Goto(p, "rollback")
              \/ /\ Committed(e)' = Append(run[p].chain, run[p].page)
                 /\ \A d \in Dirs \ {e} : Committed(d)' = Committed(d)
<1> DEFINE D == Own(p)
           chain == Append(run[p].chain, run[p].page)
           new == [D EXCEPT !.ckpt =
                     DurableHead(3, chain, run[p].digest, run[p].mode)]
<1>0. run[p].pc = "store_head" /\ run[p].pc \in Storing /\ run[p].pc # "idle"
  BY DEF StoreHead, Storing
<1>1. /\ D = disk[run[p].dir] /\ D # None /\ D \in Directory
      /\ run[p].chain \in Seq(Bodies) /\ run[p].digest \in Seq(Line)
      /\ run[p].mode \in Modes /\ At(run[p], D) /\ run[p].dir \in Dirs
  BY <1>0, Running
<1>2. /\ run[p].page \in Bodies /\ Linked(chain) /\ chain \in Seq(Bodies)
      /\ Pages(D.raw, Len(run[p].chain)) = run[p].chain
      /\ Pages(D.raw, Len(chain)) = chain
  BY <1>0, StoringFacts
<1>3. Committed(run[p].dir) = run[p].chain
  <2>1. HeadOf(D, run[p].chain, run[p].mode)
    BY <1>0, <1>1, AtStoring
  <2>2. D.ckpt # None /\ D.ckpt.pages = Len(run[p].chain)
    BY <2>1 DEF HeadOf
  <2>3. QED
    BY <1>1, <1>2, <2>2 DEF Committed, HasHead
<1>4. \/ disk' = disk /\ Goto(p, "rollback")
      \/ disk' = [disk EXCEPT ![run[p].dir] = new]
  BY DEF StoreHead
<1> HIDE DEF D, chain
<1>5. /\ new \in Directory /\ new.raw = D.raw /\ new.ckpt.pages = Len(chain)
      /\ new.ckpt # None
  <2>1. 3 \in {2, 3}
    OBVIOUS
  <2>2. /\ new \in Directory /\ new.raw = D.raw
        /\ new.ckpt.pages = Len(chain) /\ HeadOf(new, chain, run[p].mode)
    BY <1>1, <1>2, <2>1, NewHead
  <2>3. QED
    BY <2>2 DEF HeadOf
<1> HIDE DEF new
<1>6. CASE disk' = [disk EXCEPT ![run[p].dir] = new]
  <2>1. PICK e \in Dirs : e = run[p].dir
    BY <1>1
  <2>2. /\ disk[e] # None /\ new.raw = disk[e].raw
        /\ disk' = [disk EXCEPT ![e] = new]
    BY <1>1, <1>5, <1>6, <2>1
  <2>3. /\ Committed(e)' = Pages(disk[e].raw, new.ckpt.pages)
        /\ \A d \in Dirs \ {e} : Committed(d)' = Committed(d)
    BY <1>5, <2>2, HeadWritten
  <2>4. Committed(e)' = chain
    BY <1>1, <1>2, <1>5, <2>1, <2>3
  <2>5. QED
    BY <1>1, <1>2, <1>3, <2>1, <2>3, <2>4 DEF chain
<1>7. QED
  BY <1>1, <1>2, <1>3, <1>4, <1>6 DEF chain

\* Only a committed page restarts the stall clock of a running collection.
THEOREM StallClockFollowsCommits == Spec => OnlyCommitsResetStall
<1>1. ChainInv /\ [Next]_vars =>
        [\A p \in Procs :
            run[p].pc # "idle" /\ run'[p].pc # "idle"
              /\ run'[p].stalled < run[p].stalled
            => Len(Committed(run[p].dir)') = Len(Committed(run[p].dir)) + 1]_vars
  <2> SUFFICES ASSUME ChainInv, Next, NEW q \in Procs,
                      run[q].pc # "idle", run'[q].pc # "idle",
                      run'[q].stalled < run[q].stalled
               PROVE  Len(Committed(run[q].dir)') = Len(Committed(run[q].dir)) + 1
    BY DEF vars
  <2>1. PICK p \in Procs :
            Start(p) \/ Step(p) \/ Network(p) \/ Crash(p) \/ Tick(p)
    BY DEF Next
  <2>2. /\ run \in [Procs -> Run] /\ run[q] \in Run /\ run' \in [Procs -> Run]
        /\ run[q].stalled \in Nat
    <3>1. ChainInv'
      BY NextChain
    <3>2. run \in [Procs -> Run] /\ run' \in [Procs -> Run]
      BY <3>1 DEF ChainInv, Inv, TypeOK
    <3>3. run[q].stalled \in 0..StallTimeout
      BY <3>2 DEF Run
    <3>4. QED
      BY <3>2, <3>3
  <2>3. ~(run[q].stalled < run[q].stalled)
    BY <2>2
  <2>4. q = p
    <3>1. \E r : run' = [run EXCEPT ![p] = r]
      <4>1. CASE Start(p)
        BY <4>1 DEF Start
      <4>2. CASE Promote(p)
        <5>1. CASE FailUnchanged(p)
          <6>1. Progress(p)
            BY <4>2, <5>1, FailStep DEF Promote, ChainInv
          <6>2. QED
            BY <6>1 DEF Progress
        <5>2. CASE ~FailUnchanged(p)
          BY <4>2, <5>2 DEF Promote
        <5>3. QED
          BY <5>1, <5>2
      <4>3. CASE ~Start(p) /\ ~Promote(p)
        <5>1. Progress(p)
          BY <2>1, <4>3, StepsProgress DEF ChainInv
        <5>2. QED
          BY <5>1 DEF Progress
      <4>4. QED
        BY <4>1, <4>2, <4>3
    <3>2. QED
      BY <2>2, <2>3, <3>1
  <2>5. StoreHead(p) /\ ~Goto(p, "rollback")
    <3>1. ~Start(p)
      BY <2>4 DEF Start
    <3>2. ~Diagnose(p) /\ ~Crash(p)
      BY <2>2, <2>4, IdleRunType DEF Diagnose, Crash
    <3>3. ASSUME NEW stage, Goto(p, stage) PROVE FALSE
      <4>1. run'[p] = [run[p] EXCEPT !.pc = stage]
        BY <2>2, <3>3 DEF Goto
      <4>2. run'[p].stalled = run[p].stalled
        BY <2>2, <2>4, <4>1 DEF Run
      <4>3. QED
        BY <2>3, <2>4, <4>2
    <3>4. ~Promote(p)
      <4>1. run' = [run EXCEPT ![p] = IdleRun] => run'[p].pc = "idle"
        BY <2>2, IdleRunType
      <4>2. QED
        BY <2>4, <3>3, <4>1 DEF Promote, FailUnchanged, Fail, Goto
    <3>5. ~Tick(p)
      <4>1. SUFFICES ASSUME Tick(p) PROVE FALSE
        OBVIOUS
      <4>2. PICK stalled \in {run[p].stalled, run[p].stalled + 1} :
              \E elapsed : run' = [run EXCEPT ![p].stalled = stalled,
                                               ![p].elapsed = elapsed]
        BY <4>1 DEF Tick
      <4>3. \E elapsed : run'[p] = [run[p] EXCEPT !.stalled = stalled,
                                                   !.elapsed = elapsed]
        BY <2>2, <4>2
      <4>4. run'[p].stalled = stalled
        BY <2>2, <2>4, <4>3 DEF Run
      <4>5. QED
        BY <2>2, <2>4, <4>2, <4>4
    <3>6. StoreHead(p)
      BY <2>1, <2>3, <2>4, <3>1, <3>2, <3>4, <3>5, ClockStays
         DEF Step, Finalize, Collect
    <3>7. QED
      BY <3>3, <3>6
  <2>6. PICK e \in Dirs :
          /\ e = run[p].dir
          /\ Committed(e)' = Append(run[p].chain, run[p].page)
          /\ Committed(e) = run[p].chain
          /\ run[p].chain \in Seq(Bodies)
    BY <2>5, StoreHeadCommits
  <2>7. run'[p].dir = run[p].dir
    <3>1. Progress(p)
      BY <2>5, StoreHeadStep DEF ChainInv
    <3>2. QED
      BY <2>4, <3>1 DEF Progress
  <2>8. Committed(run[q].dir)' = Append(run[p].chain, run[p].page)
    <3>1. run'[q].dir = e
      BY <2>4, <2>6, <2>7
    <3>2. QED
      BY <2>6, <3>1 DEF Committed, HasHead
  <2>9. Len(Append(run[p].chain, run[p].page)) = Len(run[p].chain) + 1
    BY <2>6
  <2>10. QED
    BY <2>4, <2>6, <2>8, <2>9
<1>2. QED
  BY <1>1, ChainInvariance, PTL DEF Spec, OnlyCommitsResetStall

-----------------------------------------------------------------------------
(* The committed pages are the logs of PageLog.                            *)

\* Every page of a linked chain continues those before it.
LEMMA LinkedContinues ==
    ASSUME NEW chain \in Seq(Bodies), Linked(chain),
           NEW i \in 1..Len(chain), NEW prefix \in Seq(Bodies),
           Len(prefix) = i - 1, \A j \in 1..(i - 1) : prefix[j] = chain[j]
    PROVE  Log!Continues(prefix, chain[i])
<1>1. /\ Len(chain) \in Nat /\ DOMAIN prefix = 1..(i - 1)
      /\ DOMAIN chain = 1..Len(chain)
      /\ prefix # <<>> => i - 1 \in 1..(i - 1)
  <2>1. Len(chain) \in Nat /\ i \in Nat
    OBVIOUS
  <2>2. prefix # <<>> => Len(prefix) > 0
    OBVIOUS
  <2>3. QED
    BY <2>1, <2>2
<1>2. \A j \in 1..(i - 1) : j \in 1..(Len(chain) - 1) /\ j # i
  BY <1>1
<1>3. prefix # <<>> => prefix[Len(prefix)].next # None
  BY <1>1, <1>2 DEF Linked
<1>4. \A j \in DOMAIN prefix : prefix[j].next # chain[i].next
  BY <1>1, <1>2 DEF Linked
<1>5. QED
  BY <1>3, <1>4 DEF Log!Continues

\* A page that keeps the chain linked continues it.
LEMMA NextContinues ==
    ASSUME NEW chain \in Seq(Bodies), NEW page \in Bodies,
           Linked(Append(chain, page))
    PROVE  Log!Continues(chain, page)
<1> DEFINE new == Append(chain, page)
           n == Len(chain) + 1
<1>1. /\ new \in Seq(Bodies) /\ Len(new) = n /\ Len(chain) \in Nat
      /\ \A j \in 1..Len(chain) : new[j] = chain[j]
      /\ new[n] = page
  OBVIOUS
<1> HIDE DEF new
<1>2. n \in 1..Len(new) /\ Len(chain) = n - 1
  BY <1>1
<1>3. \A j \in 1..(n - 1) : chain[j] = new[j]
  BY <1>1, <1>2
<1>4. Log!Continues(chain, new[n])
  <2> HIDE DEF n
  <2>1. QED
    BY <1>1, <1>2, <1>3, LinkedContinues DEF new
<1>5. QED
  BY <1>1, <1>4

\* The first pages of a longer log.
LEMMA LogPrefix ==
    ASSUME NEW raw, NEW n \in Nat, NEW k \in 0..n
    PROVE  SubSeq(Pages(raw, n), 1, k) = Pages(raw, k) /\ Len(Pages(raw, n)) = n
<1>1. Pages(raw, n) \in Seq({raw[i] : i \in 1..n}) /\ Len(Pages(raw, n)) = n
  BY DEF Pages
<1>2. \A i \in 1..k : Pages(raw, n)[i] = raw[i]
  BY DEF Pages
<1>3. SubSeq(Pages(raw, n), 1, k) = [i \in 1..k |-> Pages(raw, n)[i]]
  <2> DEFINE s == Pages(raw, n)
  <2> HIDE DEF s
  <2>1. SubSeq(s, 1, k) = [i \in 1..(1 + k - 1) |-> s[i + 1 - 1]]
    BY DEF SubSeq
  <2>2. 1 + k - 1 = k /\ \A i \in 1..k : i + 1 - 1 = i
    OBVIOUS
  <2>3. QED
    BY <2>1, <2>2 DEF s
<1>4. QED
  BY <1>1, <1>2, <1>3 DEF Pages

\* Heads stay as they are.
SameHeads ==
    \A d \in Dirs :
        /\ disk[d] # None => disk'[d] # None /\ disk'[d].ckpt = disk[d].ckpt
        /\ disk[d] = None => disk'[d] = None \/ disk'[d].ckpt = None

\* A write to another file than the head.
LEMMA OtherFile ==
    ASSUME ChainInv, NEW e \in Dirs, disk[e] # None,
           NEW E \in Directory, E.ckpt = disk[e].ckpt,
           disk' \in {disk, [disk EXCEPT ![e] = E]}
    PROVE  SameHeads
<1>1. disk \in [Dirs -> Directory \cup {None}]
  BY DEF ChainInv, Inv, TypeOK
<1>2. E # None
  BY AbsentAssumption
<1>3. QED
  BY <1>1, <1>2 DEF SameHeads

LEMMA SameDisk == ASSUME disk' = disk PROVE SameHeads
BY DEF SameHeads

\* The steps that write a head.
HeadStep(p) ==
    InitializeHead(p) \/ AdoptHead(p) \/ StoreHead(p) \/ ReconstructHead(p)

LEMMA FilesKeepHeads ==
    ASSUME ChainInv, NEW p \in Procs,
           \/ InitializeHistory(p) \/ CopyPages(p) \/ AdoptHistory(p)
           \/ StorePage(p) \/ StoreHistory(p) \/ Rollback(p)
           \/ Canonicalize(p) \/ WriteManifest(p) \/ MarkSuccess(p),
           disk' # disk
    PROVE  SameHeads
<1> DEFINE D == Own(p)
<1>1. run[p].pc # "idle"
  BY DEF InitializeHistory, CopyPages, AdoptHistory, StorePage, StoreHistory,
         Rollback, Canonicalize, WriteManifest, MarkSuccess
<1>2. D \in Directory /\ run[p] \in Run
  BY <1>1, Running
<1>3. ChainInv'
  BY StepsKeep, <1>1
     DEF Step, Resume, Collect, Finalize, InitializeHistory, CopyPages,
         AdoptHistory, StorePage, StoreHistory, Rollback, Canonicalize,
         WriteManifest, MarkSuccess, Promote
<1>4. disk \in [Dirs -> Directory \cup {None}]
      /\ disk' \in [Dirs -> Directory \cup {None}]
      /\ run[p].dir \in Dirs /\ D = disk[run[p].dir]
  BY <1>1, <1>3, Running DEF ChainInv, Inv, TypeOK
<1>5. ASSUME NEW E, E.ckpt = D.ckpt, disk' = [disk EXCEPT ![run[p].dir] = E]
      PROVE  SameHeads
  <2>1. disk'[run[p].dir] = E
    BY <1>4, <1>5
  <2>2. Growth
    BY StepsKeep, <1>1
       DEF Step, Resume, Collect, Finalize, InitializeHistory, CopyPages,
           AdoptHistory, StorePage, StoreHistory, Rollback, Canonicalize,
           WriteManifest, MarkSuccess, Promote
  <2>3. disk[run[p].dir] # None
    BY <1>1, Running
  <2>4. \A d \in Dirs \ {run[p].dir} : disk'[d] = disk[d]
    BY <1>4, <1>5
  <2>5. QED
    BY <1>4, <1>5, <2>1, <2>2, <2>3, <2>4 DEF SameHeads, Growth
<1>6. PICK E : E.ckpt = D.ckpt /\ disk' = [disk EXCEPT ![run[p].dir] = E]
  <2>1. CASE \/ InitializeHistory(p) \/ AdoptHistory(p) \/ StoreHistory(p)
             \/ Rollback(p)
    <3>1. PICK history : disk' = [disk EXCEPT ![run[p].dir] =
                                   [D EXCEPT !.history = history]]
      BY <2>1 DEF InitializeHistory, AdoptHistory, StoreHistory, Rollback, Replace
    <3>2. [D EXCEPT !.history = history].ckpt = D.ckpt
      BY <1>2 DEF Directory
    <3>3. QED
      BY <3>1, <3>2
  <2>2. CASE CopyPages(p) \/ StorePage(p)
    <3>1. PICK n, page : disk' = [disk EXCEPT ![run[p].dir] =
                                   [D EXCEPT !.raw[n] = page]]
      BY <2>2 DEF CopyPages, StorePage, Replace, FailUnchanged
    <3>2. [D EXCEPT !.raw[n] = page].ckpt = D.ckpt
      BY <1>2 DEF Directory
    <3>3. QED
      BY <3>1, <3>2
  <2>3. CASE Canonicalize(p)
    <3>1. PICK recs : disk' = [disk EXCEPT ![run[p].dir] =
                                [D EXCEPT !.canon = recs, !.errors = "empty"]]
      BY <2>3 DEF Canonicalize, Replace, FailUnchanged
    <3>2. [D EXCEPT !.canon = recs, !.errors = "empty"].ckpt = D.ckpt
      BY <1>2 DEF Directory
    <3>3. QED
      BY <3>1, <3>2
  <2>4. CASE WriteManifest(p)
    <3>1. PICK m : disk' = [disk EXCEPT ![run[p].dir] = [D EXCEPT !.manifest = m]]
      BY <2>4 DEF WriteManifest, Replace
    <3>2. [D EXCEPT !.manifest = m].ckpt = D.ckpt
      BY <1>2 DEF Directory
    <3>3. QED
      BY <3>1, <3>2
  <2>5. CASE MarkSuccess(p)
    <3>1. disk' = [disk EXCEPT ![run[p].dir] = [D EXCEPT !.success = TRUE]]
      BY <2>5 DEF MarkSuccess, Replace
    <3>2. [D EXCEPT !.success = TRUE].ckpt = D.ckpt
      BY <1>2 DEF Directory
    <3>3. QED
      BY <3>1, <3>2
  <2>6. QED
    BY <2>1, <2>2, <2>3, <2>4, <2>5
<1>7. QED
  BY <1>5, <1>6

LEMMA HeadsStay ==
    ASSUME ChainInv, NEW p \in Procs,
           Start(p) \/ Step(p) \/ Network(p) \/ Crash(p) \/ Tick(p),
           ~HeadStep(p), ~Promote(p)
    PROVE  SameHeads
<1>1. disk \in [Dirs -> Directory \cup {None}]
  BY DEF ChainInv, Inv, TypeOK
<1>2. CASE disk' = disk
  BY <1>2, SameDisk
<1>3. CASE Start(p)
  <2>1. PICK d \in Dirs : disk[d] = None /\ disk' = [disk EXCEPT ![d] = EmptyDirectory]
    BY <1>3 DEF Start
  <2>2. EmptyDirectory.ckpt = None
    BY DEF EmptyDirectory
  <2>3. QED
    BY <1>1, <2>1, <2>2 DEF SameHeads
<1>4. CASE ReconstructHistory(p) /\ disk' # disk
  <2> DEFINE s == run[p].source
             S == Source(p)
  <2>1. PICK history : disk' = [disk EXCEPT ![s] = [S EXCEPT !.history = history]]
    BY <1>4 DEF ReconstructHistory, FailUnchanged, Replace
  <2>2. disk[s] # None /\ run[p].pc \in ResumeStages
    BY <1>4 DEF ReconstructHistory, FailUnchanged, ResumeStages
  <2>3. s \in Dirs /\ S = disk[s] /\ S \in Directory
    BY <2>2, SourceFacts
  <2>4. [S EXCEPT !.history = history].ckpt = S.ckpt
    BY <2>3 DEF Directory
  <2>5. Growth
    BY <1>4, ReconstructHistoryKeeps
  <2>6. /\ disk'[s] = [S EXCEPT !.history = history]
        /\ \A d \in Dirs \ {s} : disk'[d] = disk[d]
    BY <1>1, <2>1, <2>3
  <2>7. QED
    BY <2>2, <2>3, <2>4, <2>5, <2>6 DEF SameHeads, Growth
<1>5. CASE Diagnose(p) /\ disk' # disk
  <2> DEFINE D == Own(p)
             E == [D EXCEPT !.errors = "failed"]
  <2>1. run[p].pc # "idle" /\ disk' = [disk EXCEPT ![run[p].dir].errors = "failed"]
    BY <1>5 DEF Diagnose
  <2>2. /\ run[p].dir \in Dirs /\ disk[run[p].dir] # None
        /\ D = disk[run[p].dir] /\ D \in Directory
    BY <2>1, Running
  <2>3. disk' = [disk EXCEPT ![run[p].dir] = E]
    BY <2>1, <2>2
  <2>4. E \in Directory /\ E.ckpt = D.ckpt
    BY <2>2 DEF Directory
  <2> HIDE DEF E
  <2>5. QED
    BY <2>2, <2>3, <2>4, OtherFile
<1>6. CASE /\ \/ InitializeHistory(p) \/ CopyPages(p) \/ AdoptHistory(p)
              \/ StorePage(p) \/ StoreHistory(p) \/ Rollback(p)
              \/ Canonicalize(p) \/ WriteManifest(p) \/ MarkSuccess(p)
           /\ disk' # disk
  BY <1>6, FilesKeepHeads
<1>7. CASE Network(p) \/ Crash(p) \/ Tick(p)
  <2>1. disk' = disk
    BY <1>7 DEF Network, Respond, Redirect, TransientFailure, FatalFailure,
                FailUnchanged, Crash, Tick
  <2>2. QED
    BY <2>1, SameDisk
<1>8. CASE \/ ResumeSource(p) \/ CheckReconstruct(p) \/ ReconstructState(p)
           \/ DigestReconstructed(p) \/ DigestAdopted(p) \/ DigestStored(p)
           \/ ReadHead(p) \/ ReadPages(p) \/ MatchHead(p) \/ ReadHistory(p)
           \/ NextPage(p) \/ Request(p) \/ CancelRequest(p) \/ Retry(p)
           \/ Validate(p) \/ SelfCheck(p) \/ CheckHistory(p)
  <2>1. disk' = disk
    BY <1>8 DEF ResumeSource, CheckReconstruct, ReconstructState,
                DigestReconstructed, DigestAdopted, DigestStored, Digest,
                ReadHead, ReadPages, MatchHead, ReadHistory, NextPage, Request,
                CancelRequest, Retry, Validate, SelfCheck, CheckHistory,
                FailUnchanged
  <2>2. QED
    BY <2>1, SameDisk
<1>9. QED
  BY <1>2, <1>3, <1>4, <1>5, <1>6, <1>7, <1>8
     DEF Step, Resume, Collect, Finalize, HeadStep

\* With its head a directory keeps its log.
LEMMA SameLogs ==
    ASSUME ChainInv, SameHeads, Growth
    PROVE  \A d \in Dirs : Committed(d)' = Committed(d)
<1> SUFFICES ASSUME NEW d \in Dirs PROVE Committed(d)' = Committed(d)
  OBVIOUS
<1>1. CASE HasHead(d)
  <2>1. /\ disk[d] # None /\ disk[d].ckpt # None
        /\ disk'[d] # None /\ disk'[d].ckpt = disk[d].ckpt
    BY <1>1 DEF HasHead, SameHeads
  <2>2. Pages(disk'[d].raw, disk[d].ckpt.pages) = Pages(disk[d].raw, disk[d].ckpt.pages)
    BY <2>1 DEF Growth, Grows
  <2>3. QED
    BY <2>1, <2>2 DEF Committed, HasHead
<1>2. CASE ~HasHead(d)
  <2>1. ~HasHead(d)'
    BY <1>2 DEF HasHead, SameHeads
  <2>2. QED
    BY <1>2, <2>1 DEF Committed
<1>3. QED
  BY <1>1, <1>2

\* The step of PageLog that a step is.
Logs == [d \in Dirs |-> Committed(d)]
Published == IF output = None THEN None ELSE Pages(output.raw, output.manifest.pages)

LEMMA LogOf ==
    /\ DOMAIN Logs = Dirs /\ \A d \in Dirs : Logs[d] = Committed(d)
    /\ Logs' = [d \in Dirs |-> Committed(d)'] /\ \A d \in Dirs : Logs'[d] = Committed(d)'
BY DEF Logs

\* Only the log of e changes.
LEMMA OneLog ==
    ASSUME NEW e \in Dirs, NEW chain, Committed(e)' = chain,
           \A d \in Dirs \ {e} : Committed(d)' = Committed(d)
    PROVE  Logs' = [Logs EXCEPT ![e] = chain]
BY LogOf DEF Logs

\* A new head of the process's own directory, or of its source.
LEMMA WrittenHead ==
    ASSUME ChainInv, NEW p \in Procs, NEW e \in Dirs, disk[e] # None,
           NEW E \in Directory, E.ckpt # None, E.raw = disk[e].raw,
           NEW next, NEW other, Replace(p, e, E, next, other)
    PROVE  /\ output' = output
           /\ \/ Logs' = Logs
              \/ /\ Logs' = [Logs EXCEPT ![e] = Pages(disk[e].raw, E.ckpt.pages)]
                 /\ HasHead(e)'
<1>1. output' = output
  BY DEF Replace
<1>2. CASE disk' = disk
  <2>1. \A d \in Dirs : Committed(d)' = Committed(d)
    BY <1>2 DEF Committed, HasHead
  <2>2. QED
    BY <1>1, <2>1 DEF Logs
<1>3. CASE disk' = [disk EXCEPT ![e] = E]
  BY <1>1, <1>3, HeadWritten, OneLog
<1>4. QED
  BY <1>2, <1>3 DEF Replace

LEMMA LogExtended ==
    ASSUME NEW e \in Dirs, NEW page \in Bodies, Log!Continues(Logs[e], page),
           Logs' = [Logs EXCEPT ![e] = Append(Logs[e], page)],
           Published' = Published
    PROVE  Log!Next
<1>1. Log!Extend(e)
  BY DEF Log!Extend, Logs, Published
<1>2. QED
  BY <1>1 DEF Log!Next

LEMMA LogAdopted ==
    ASSUME NEW e \in Dirs, NEW source, NEW k \in 1..Len(source),
           Logs[e] = <<>>,
           \/ \E s \in Dirs : source = Logs[s]
           \/ Published # None /\ source = Published,
           Logs' = [Logs EXCEPT ![e] = SubSeq(source, 1, k)],
           Published' = Published
    PROVE  Log!Next
<1>1. Log!Adopt(e, source)
  BY DEF Log!Adopt, Logs, Published
<1>2. CASE \E s \in Dirs : source = Logs[s]
  BY <1>1, <1>2 DEF Log!Next, Logs
<1>3. CASE Published # None /\ source = Published
  BY <1>1, <1>3 DEF Log!Next, Published
<1>4. QED
  BY <1>2, <1>3

LEMMA LogRecovered ==
    ASSUME 0 \in Dirs, NEW chain \in Seq(Bodies), chain # <<>>, Linked(chain),
           Logs[0] = <<>>, Logs' = [Logs EXCEPT ![0] = chain],
           Published' = Published
    PROVE  Log!Next
<1>1. Logs'[0] = chain
  BY LogOf
<1>2. ASSUME NEW i \in 1..Len(chain)
      PROVE  Log!Continues(SubSeq(chain, 1, i - 1), chain[i])
  <2>1. /\ SubSeq(chain, 1, i - 1) \in Seq(Bodies)
        /\ Len(SubSeq(chain, 1, i - 1)) = i - 1
        /\ \A j \in 1..(i - 1) : SubSeq(chain, 1, i - 1)[j] = chain[j]
    OBVIOUS
  <2>2. QED
    BY <2>1, LinkedContinues
<1>3. Log!Recover(0)
  <2>1. /\ Logs[0] = <<>> /\ Logs'[0] # <<>>
        /\ \A i \in 1..Len(Logs'[0]) :
              Log!Continues(SubSeq(Logs'[0], 1, i - 1), Logs'[0][i])
        /\ Logs' = [Logs EXCEPT ![0] = Logs'[0]]
        /\ Published' = Published
    BY <1>1, <1>2
  <2>2. QED
    BY <2>1 DEF Log!Recover, Logs, Published
<1>4. QED
  BY <1>3 DEF Log!Next

LEMMA LogPublished ==
    ASSUME NEW e \in Dirs, Published = None, Logs[e] # <<>>,
           Logs[e][Len(Logs[e])].next = None, Published' = Logs[e],
           Logs' = [Logs EXCEPT ![e] = <<>>]
    PROVE  Log!Next
<1>1. Log!Publish(e)
  BY DEF Log!Publish, Logs, Published
<1>2. QED
  BY <1>1 DEF Log!Next

LEMMA Stutters ==
    ASSUME Logs' = Logs, Published' = Published
    PROVE  [Log!Next]_(Log!vars)
BY DEF Log!vars, Logs, Published

\* The first head names no pages.
LEMMA InitializeHeadRefines ==
    ASSUME ChainInv, NEW p \in Procs, InitializeHead(p)
    PROVE  [Log!Next]_(Log!vars)
<1> DEFINE new == [Own(p) EXCEPT !.ckpt = DurableHead(3, <<>>, <<>>, run[p].mode)]
<1>0. run[p].pc = "initialize_head" /\ run[p].pc # "idle"
  BY DEF InitializeHead
<1>1. PICK e \in Dirs : e = run[p].dir
  BY <1>0, Running
<1>2. /\ disk[e] # None /\ Own(p) = disk[e] /\ Own(p) \in Directory
      /\ run[p].mode \in Modes /\ disk[e].ckpt = None
  BY <1>0, <1>1, Running, AtInitializing
<1>3. PICK next : Replace(p, e, new, next, "diagnose")
  BY <1>1 DEF InitializeHead
<1>4. /\ new \in Directory /\ new.raw = disk[e].raw /\ new.ckpt # None
      /\ new.ckpt.pages = 0
  <2>1. 3 \in {2, 3}
    OBVIOUS
  <2>2. PICK chain \in Seq(Bodies), history \in Seq(Line) :
            chain = <<>> /\ history = <<>>
    BY NoPages
  <2>3. new = [Own(p) EXCEPT !.ckpt = DurableHead(3, chain, history, run[p].mode)]
    BY <2>2
  <2> HIDE DEF new
  <2>4. /\ new \in Directory /\ new.raw = Own(p).raw
        /\ new.ckpt.pages = Len(chain) /\ HeadOf(new, chain, run[p].mode)
    BY <1>2, <2>1, <2>3, NewHead
  <2>5. QED
    BY <1>2, <2>2, <2>4, NoPages DEF HeadOf
<1> HIDE DEF new
<1>5. /\ output' = output
      /\ Logs' = Logs \/ Logs' = [Logs EXCEPT ![e] = <<>>]
  BY <1>2, <1>3, <1>4, WrittenHead, NoPages
<1>6. Logs[e] = <<>>
  BY <1>2, LogOf DEF Committed, HasHead
<1>7. Logs' = Logs /\ Published' = Published
  BY <1>5, <1>6, LogOf DEF Logs, Published
<1>8. QED
  BY <1>7, Stutters

\* The pages copied are a prefix of a log, or of the published one.
LEMMA AdoptHeadRefines ==
    ASSUME ChainInv, NEW p \in Procs, AdoptHead(p)
    PROVE  [Log!Next]_(Log!vars)
<1> DEFINE chain == run[p].chain
           new == [Own(p) EXCEPT !.ckpt =
                     DurableHead(3, chain, run[p].digest, run[p].mode)]
           s == run[p].source
<1>0. run[p].pc = "adopt_head" /\ run[p].pc \in Copying /\ run[p].pc \in Matched
      /\ run[p].pc # "idle"
  BY DEF AdoptHead, Copying, Matched
<1>1. PICK e \in Dirs : e = run[p].dir
  BY <1>0, Running
<1>2. /\ disk[e] # None /\ Own(p) = disk[e] /\ Own(p) \in Directory
      /\ run[p] \in Run /\ run[p].mode \in Modes /\ run[p].digest \in Seq(Line)
      /\ chain \in Seq(Bodies) /\ Len(chain) \in Nat /\ Len(chain) <= MaxPages
      /\ At(run[p], Own(p)) /\ Sourced(run[p], disk, output)
  BY <1>0, <1>1, Running
<1>3. /\ HeadOf(Own(p), <<>>, run[p].mode)
      /\ Holds(Own(p).raw, chain, Len(chain))
  BY <1>0, <1>2, AtCopying
<1>4. PICK next : Replace(p, e, new, next, "diagnose")
  BY <1>1 DEF AdoptHead
<1>5. /\ new \in Directory /\ new.raw = disk[e].raw /\ new.ckpt # None
      /\ new.ckpt.pages = Len(chain)
  <2>1. 3 \in {2, 3}
    OBVIOUS
  <2> HIDE DEF new, chain
  <2>2. /\ new \in Directory /\ new.raw = Own(p).raw
        /\ new.ckpt.pages = Len(chain) /\ HeadOf(new, chain, run[p].mode)
    BY <1>2, <2>1, NewHead DEF new
  <2>3. QED
    BY <1>2, <2>2 DEF HeadOf
<1>6. Logs[e] = <<>>
  <2>1. Own(p).ckpt # None /\ Own(p).ckpt.pages = 0
    BY <1>3, NoPages DEF HeadOf
  <2>2. QED
    BY <1>2, <2>1, NoPages, LogOf DEF Committed, HasHead
<1>7. Pages(disk[e].raw, Len(chain)) = chain
  BY <1>2, <1>3, HoldsPages
<1> HIDE DEF new
<1>8. /\ output' = output /\ Published' = Published
      /\ Logs' = Logs \/ Logs' = [Logs EXCEPT ![e] = chain]
  <2>1. /\ output' = output
        /\ Logs' = Logs \/ Logs' = [Logs EXCEPT ![e] = chain]
    BY <1>2, <1>4, <1>5, <1>7, WrittenHead
  <2>2. QED
    BY <2>1 DEF Published
<1>9. CASE Logs' = Logs \/ chain = <<>>
  <2>1. Logs' = Logs
    BY <1>6, <1>8, <1>9, LogOf DEF Logs
  <2>2. QED
    BY <1>8, <2>1, Stutters
<1>10. CASE Logs' = [Logs EXCEPT ![e] = chain] /\ chain # <<>>
  <2> DEFINE k == Len(chain)
  <2>1. /\ s \in Dirs /\ HasPages(disk, output, s, k)
        /\ StartsWith(disk, output, s, chain)
    BY <1>0, <1>2 DEF Sourced, Run
  <2>2. k \in Nat /\ k > 0
    BY <1>2, <1>10
  <2>3. CASE disk[s] # None
    <3> DEFINE n == disk[s].ckpt.pages
    <3>1. disk[s].ckpt # None /\ k <= n /\ disk[s] \in Directory
      BY <2>1, <2>3 DEF HasPages, ChainInv, Inv, TypeOK
    <3>2. n \in Nat
      BY <3>1, GrowsItself
    <3>3. Logs[s] = Pages(disk[s].raw, n)
      BY <2>1, <2>3, <3>1, LogOf DEF Committed, HasHead
    <3>4. Pages(disk[s].raw, k) = chain
      BY <2>1, <2>3 DEF StartsWith
    <3>5. k \in 0..n /\ k \in 1..n
      BY <2>2, <3>1, <3>2
    <3> HIDE DEF n, k
    <3>6. SubSeq(Logs[s], 1, k) = chain /\ k \in 1..Len(Logs[s])
      BY <3>2, <3>3, <3>4, <3>5, LogPrefix
    <3>7. QED
      BY <1>6, <1>8, <1>10, <2>1, <3>6, LogAdopted
  <2>4. CASE disk[s] = None
    <3> DEFINE n == output.manifest.pages
    <3>1. output # None /\ k <= n
      BY <2>1, <2>4 DEF HasPages
    <3>2. /\ output \in Directory /\ Complete(output)
      BY <3>1 DEF ChainInv, Inv, TypeOK
    <3>3. n \in Nat
      BY <3>2 DEF Complete, Directory, Manifest
    <3>4. Published = Pages(output.raw, n)
      BY <3>1 DEF Published
    <3>5. Published # None
      <4>1. \A i \in 1..n : Pages(output.raw, n)[i] # None
        BY <3>2 DEF Complete
      <4>2. \A i \in 1..n : output.raw[i] \in Bodies
        <5>1. \A i \in 1..n : output.raw[i] # None
          BY <4>1 DEF Pages
        <5>2. RawPages(output.raw) = 1..n
          BY <3>2 DEF Complete
        <5>3. \A i \in 1..n : i \in PageNumbers
          BY <5>2 DEF RawPages
        <5>4. output.raw \in [PageNumbers -> Bodies \cup {None}]
          BY <3>2 DEF Directory
        <5>5. QED
          BY <5>1, <5>3, <5>4
      <4>3. Pages(output.raw, n) \in Seq(Bodies)
        <5>1. Pages(output.raw, n) \in [1..n -> Bodies]
          BY <4>2 DEF Pages
        <5>2. QED
          BY <3>3, <5>1
      <4>4. QED
        BY <3>4, <4>3, AbsentAssumption
    <3>6. Pages(output.raw, k) = chain
      BY <2>1, <2>4 DEF StartsWith
    <3>7. k \in 0..n /\ k \in 1..n
      BY <2>2, <3>1, <3>3
    <3> HIDE DEF n, k
    <3>8. SubSeq(Published, 1, k) = chain /\ k \in 1..Len(Published)
      BY <3>3, <3>4, <3>6, <3>7, LogPrefix
    <3>9. QED
      BY <1>6, <1>8, <1>10, <3>5, <3>8, LogAdopted
  <2>5. QED
    BY <2>3, <2>4
<1>11. QED
  BY <1>8, <1>9, <1>10

\* The fetched page extends the log.
LEMMA StoreHeadRefines ==
    ASSUME ChainInv, NEW p \in Procs, StoreHead(p)
    PROVE  [Log!Next]_(Log!vars)
<1> DEFINE chain == run[p].chain
<1>1. PICK e \in Dirs :
        /\ e = run[p].dir /\ run[p].page \in Bodies
        /\ Committed(e) = chain /\ chain \in Seq(Bodies)
        /\ Linked(Append(chain, run[p].page))
        /\ \/ disk' = disk
           \/ /\ Committed(e)' = Append(chain, run[p].page)
              /\ \A d \in Dirs \ {e} : Committed(d)' = Committed(d)
  BY StoreHeadCommits
<1>2. Published' = Published
  BY DEF StoreHead, Published
<1>3. CASE disk' = disk
  <2>1. \A d \in Dirs : Committed(d)' = Committed(d)
    BY <1>3 DEF Committed, HasHead
  <2>2. Logs' = Logs
    BY <2>1 DEF Logs
  <2>3. QED
    BY <1>2, <2>2, Stutters
<1>4. CASE /\ Committed(e)' = Append(chain, run[p].page)
           /\ \A d \in Dirs \ {e} : Committed(d)' = Committed(d)
  <2>1. Logs[e] = chain
    BY <1>1, LogOf
  <2>2. Logs' = [Logs EXCEPT ![e] = Append(Logs[e], run[p].page)]
    BY <1>4, <2>1, OneLog
  <2>3. Log!Continues(Logs[e], run[p].page)
    BY <1>1, <2>1, NextContinues
  <2>4. QED
    BY <1>1, <1>2, <2>2, <2>3, LogExtended
<1>5. QED
  BY <1>1, <1>3, <1>4

\* The pages of the legacy partial become its log.
LEMMA ReconstructHeadRefines ==
    ASSUME ChainInv, NEW p \in Procs, ReconstructHead(p)
    PROVE  [Log!Next]_(Log!vars)
<1> DEFINE S == disk[0]
           chain == run[p].chain
           new == [S EXCEPT !.ckpt = DurableHead(2, chain, run[p].digest, Full)]
<1>0. /\ run[p].pc = "reconstruct_head" /\ run[p].pc # "idle"
      /\ run[p].pc \in ResumeStages \ Copying /\ run[p].pc \in Rebuilding
      /\ 0 \in Dirs
  BY ConstantsAssumption
     DEF ReconstructHead, ResumeStages, Copying, Rebuilding, Dirs
<1>1. /\ chain \in Seq(Bodies) /\ Len(chain) \in Nat /\ chain # <<>>
      /\ run[p].digest \in Seq(Line)
      /\ At(run[p], Own(p)) /\ Sourced(run[p], disk, output)
  BY <1>0, Running DEF Sourced
<1>2. CASE FailUnchanged(p)
  <2>1. disk' = disk /\ Published' = Published
    BY <1>2 DEF FailUnchanged, Published
  <2>2. Logs' = Logs
    BY <2>1 DEF Logs, Committed, HasHead
  <2>3. QED
    BY <2>1, <2>2, Stutters
<1>3. CASE ~FailUnchanged(p)
  <2>1. /\ disk[run[p].source] # None /\ Source(p).ckpt = None
        /\ Replace(p, run[p].source,
                   [Source(p) EXCEPT
                      !.ckpt = DurableHead(2, chain, run[p].digest, Full)],
                   "read_head", "diagnose")
    BY <1>3 DEF ReconstructHead
  <2>2. run[p].source = 0
    BY <1>0, <2>1, LegacySource
  <2>3. /\ S # None /\ S.ckpt = None /\ S \in Directory
        /\ Replace(p, 0, new, "read_head", "diagnose")
    BY <1>0, <2>1, <2>2, SourceFacts DEF Source
  <2>4. Pages(S.raw, Len(chain)) = chain /\ Linked(chain)
    <3>1. Linked(chain)
      BY <1>0, <1>1, AtReading
    <3>2. QED
      BY <1>0, <1>1, <2>2, <2>3, <3>1 DEF Sourced, StartsWith
  <2>5. /\ new \in Directory /\ new.raw = S.raw /\ new.ckpt # None
         /\ new.ckpt.pages = Len(chain)
    <3>1. PICK mode \in Modes, version \in {2, 3} : mode = Full /\ version = 2
      BY ConstantsAssumption
    <3>2. new = [S EXCEPT !.ckpt = DurableHead(version, chain, run[p].digest, mode)]
      BY <3>1
    <3> HIDE DEF new, S, chain
    <3>3. /\ new \in Directory /\ new.raw = S.raw
          /\ new.ckpt.pages = Len(chain) /\ HeadOf(new, chain, mode)
      BY <1>1, <2>3, <3>2, NewHead
    <3>4. QED
      BY <3>3 DEF HeadOf
  <2> HIDE DEF new
  <2>6. /\ output' = output /\ Published' = Published
        /\ Logs' = Logs \/ Logs' = [Logs EXCEPT ![0] = chain]
    <3>1. /\ output' = output
          /\ Logs' = Logs \/ Logs' = [Logs EXCEPT ![0] = chain]
      BY <1>0, <2>3, <2>4, <2>5, WrittenHead
    <3>2. QED
      BY <3>1 DEF Published
  <2>7. Logs[0] = <<>>
    BY <1>0, <2>3, LogOf DEF Committed, HasHead
  <2>8. CASE Logs' = Logs \/ chain = <<>>
    <3>1. Logs' = Logs
      BY <2>6, <2>7, <2>8, LogOf DEF Logs
    <3>2. QED
      BY <2>6, <3>1, Stutters
  <2>9. CASE Logs' = [Logs EXCEPT ![0] = chain] /\ chain # <<>>
    BY <1>0, <1>1, <2>4, <2>6, <2>7, <2>9, LogRecovered
  <2>10. QED
    BY <2>6, <2>8, <2>9
<1>4. QED
  BY <1>2, <1>3

\* A complete log is published, once.
LEMMA PromoteRefines ==
    ASSUME ChainInv, NEW p \in Procs, Promote(p)
    PROVE  [Log!Next]_(Log!vars)
<1> DEFINE D == Own(p)
<1>0. run[p].pc = "promote" /\ run[p].pc # "idle"
  BY DEF Promote
<1>1. PICK e \in Dirs : e = run[p].dir
  BY <1>0, Running
<1>2. /\ D = disk[e] /\ D # None /\ disk \in [Dirs -> Directory \cup {None}]
      /\ D \in Directory
  BY <1>0, <1>1, Running DEF ChainInv, Inv, TypeOK
<1>3. CASE FailUnchanged(p)
  <2>1. disk' = disk /\ Published' = Published
    BY <1>3 DEF FailUnchanged, Published
  <2>2. Logs' = Logs
    BY <2>1 DEF Logs, Committed, HasHead
  <2>3. QED
    BY <2>1, <2>2, Stutters
<1>4. CASE ~FailUnchanged(p)
  <2> DEFINE n == D.ckpt.pages
             chain == Pages(D.raw, n)
  <2>1. /\ output = None /\ output' = D
        /\ disk' = [disk EXCEPT ![e] = None]
    BY <1>1, <1>4 DEF Promote
  <2>2. Complete(D) /\ D.ckpt # None /\ D.manifest.pages = n
    BY <1>0, PromotedIsComplete
  <2>3. Logs[e] = chain
    BY <1>2, <2>2, LogOf DEF Committed, HasHead
  <2>4. n \in Nat /\ n > 0 /\ chain[n].next = None
    BY <1>2, <2>2, GrowsItself DEF Complete
  <2>5. Len(chain) = n /\ chain # <<>>
    <3>1. Len(chain) = n /\ 1 \in DOMAIN chain
      BY <2>4 DEF Pages
    <3>2. QED
      BY <3>1
  <2>6. Published = None /\ Published' = chain
    BY <1>2, <2>1, <2>2 DEF Published
  <2>7. Logs' = [Logs EXCEPT ![e] = <<>>]
    <3>1. disk'[e] = None /\ \A d \in Dirs \ {e} : disk'[d] = disk[d]
      BY <1>2, <2>1
    <3>2. /\ Committed(e)' = <<>>
          /\ \A d \in Dirs \ {e} : Committed(d)' = Committed(d)
      BY <3>1 DEF Committed, HasHead
    <3>3. QED
      BY <3>2, OneLog
  <2> HIDE DEF chain, n
  <2>8. QED
    BY <2>3, <2>4, <2>5, <2>6, <2>7, LogPublished
<1>5. QED
  BY <1>3, <1>4

LEMMA StepRefines == ChainInv /\ [Next]_vars => [Log!Next]_(Log!vars)
<1> SUFFICES ASSUME ChainInv, [Next]_vars PROVE [Log!Next]_(Log!vars)
  OBVIOUS
<1>1. CASE UNCHANGED vars
  <2>1. disk' = disk /\ output' = output
    BY <1>1 DEF vars
  <2>2. Logs' = Logs /\ Published' = Published
    BY <2>1 DEF Logs, Committed, HasHead, Published
  <2>3. QED
    BY <2>2, Stutters
<1>2. CASE Next
  <2>1. PICK p \in Procs :
            Start(p) \/ Step(p) \/ Network(p) \/ Crash(p) \/ Tick(p)
    BY <1>2 DEF Next
  <2>2. CASE HeadStep(p) \/ Promote(p)
    BY <2>2, InitializeHeadRefines, AdoptHeadRefines, StoreHeadRefines,
       ReconstructHeadRefines, PromoteRefines DEF HeadStep
  <2>3. CASE ~HeadStep(p) /\ ~Promote(p)
    <3>1. \A d \in Dirs : Committed(d)' = Committed(d)
      BY <2>1, <2>3, HeadsStay, StepsKeep, SameLogs
    <3>2. output' = output
      BY <2>1, <2>3, StartStep, StepsProgress DEF ChainInv, Progress
    <3>3. Logs' = Logs /\ Published' = Published
      BY <3>1, <3>2 DEF Logs, Published
    <3>4. QED
      BY <3>3, Stutters
  <2>4. QED
    BY <2>2, <2>3
<1>3. QED
  BY <1>1, <1>2

LEMMA InitRefines == Init => Log!Init
<1> SUFFICES ASSUME Init PROVE Log!Init
  OBVIOUS
<1>1. output = None /\ \A d \in Dirs : ~HasHead(d)
  BY DEF Init, HasHead, EmptyDirectory
<1>2. \A d \in Dirs : Committed(d) = <<>>
  BY <1>1 DEF Committed
<1>3. QED
  BY <1>1, <1>2 DEF Log!Init

\* The committed pages of every directory and the published bundle are
\* append-only logs: every step extends one by a page, adopts a prefix of
\* another or of the published one, recovers the legacy pages, publishes a
\* complete one, or is invisible; crashes, rollbacks and copies always are.
THEOREM LogRefinement == Spec => ImplementsPageLog
<1>1. Init => Log!Init
  BY InitRefines
<1>2. ChainInv /\ [Next]_vars => [Log!Next]_(Log!vars)
  BY StepRefines
<1>3. QED
  BY <1>1, <1>2, ChainInvariance, PTL
     DEF Spec, ImplementsPageLog, Log!Spec
=============================================================================
