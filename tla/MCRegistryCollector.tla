------------------------ MODULE MCRegistryCollector ------------------------
(***************************************************************************)
(* Small instances of RegistryCollector for TLC.                           *)
(***************************************************************************)
EXTENDS RegistryCollector, TLC

CONSTANTS p1, p2, c1, c2, full, since

rx == [id |-> "i", content |-> "x"]
ry == [id |-> "i", content |-> "y"]
MCRecords == {rx, ry}

Page(next, echo, recs) == [next |-> next, echo |-> echo, recs |-> recs]

\* A first page, a last page, a last page that contradicts its record, and a
\* page that names the first cursor again.
First == Page(c1, None, {rx})
Last == Page(None, None, {})
Conflicting == Page(None, None, {ry})
Repeating == Page(c1, None, {})

CrashBodies == {First, Last, Conflicting, Repeating}
RaceBodies == {First, Last}

\* A Registry that may also continue forever.
TimeBodies == {First, Page(c2, None, {}), Last}

RawOf(chain) ==
    [n \in PageNumbers |-> IF n <= Len(chain) THEN chain[n] ELSE None]

\* No legacy partial pages, a continued history, a complete one, one with a
\* missing page and one with contradicting records.
CrashLegacy == {RawOf(<<>>), RawOf(<<First>>), RawOf(<<First, Last>>),
                RawOf(<<None, Last>>), RawOf(<<First, Conflicting>>)}
RaceLegacy == {RawOf(<<First>>)}
NoLegacy == {RawOf(<<>>)}

ProcessSymmetry == Permutations(Procs)
=============================================================================
