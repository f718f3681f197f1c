----------------------------- MODULE MCStorageV2 -----------------------------
(***************************************************************************)
(* Instances of StorageV2 for TLC.                                         *)
(***************************************************************************)
EXTENDS StorageV2, TLC

CONSTANTS f1, p1, p2

OneFinding == {f1}
TwoPackages == {p1, p2}

=============================================================================
