-------------------------- MODULE MCStaticScheduler --------------------------
(***************************************************************************)
(* Instances of StaticScheduler for TLC.                                   *)
(***************************************************************************)
EXTENDS StaticScheduler, TLC

CONSTANTS d1, d2, d3, a1, a2, s1, s2

\* Two packages with one artifact, beside one that only has a wheel.
Mixed == {d1, d2, d3}
MixedKind == [d \in Mixed |-> IF d = d3 THEN "wheelOnly" ELSE "analysable"]
MixedArtifact == [d \in Mixed |-> IF d = d3 THEN a2 ELSE a1]

\* Two packages with an artifact each.
Pair == {d1, d2}
PairKind == [d \in Pair |-> "analysable"]
PairArtifact == [d \in Pair |-> IF d = d1 THEN a1 ELSE a2]

OneScheduler == {s1}
TwoSchedulers == {s1, s2}
SchedulerSymmetry == Permutations(Schedulers)

=============================================================================
