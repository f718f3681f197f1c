------------------------------- MODULE Catalog -------------------------------
(***************************************************************************)
(* The SQLite catalog as the importer and the snapshot queries see it      *)
(* (src/src/explorer.cpp).  A catalog is the sequence of its snapshot      *)
(* rows; a row's position is its local id.  snapshot_sha256 is the digest  *)
(* of the canonical records and of nothing else (registry.cpp:2824), and   *)
(* the canonical text of a record holds no collection time                 *)
(* (stable_observed_at), so two bundles have one digest exactly when they  *)
(* have the same records: a digest is modelled by its set of records.      *)
(***************************************************************************)
EXTENDS Naturals, Sequences

CONSTANT Servers        \* identities (name and exact version) of the Registry

\* One canonical variant of an identity; every metadata change makes a new one.
Record == Servers \X Nat

Digest == SUBSET Record

\* A completed bundle: its records, the baseline it names by digest and time of
\* completion (none for a full collection), its filter, and when it was started
\* and completed.
Bundle == [records : SUBSET Record, base : SUBSET (Digest \X Nat),
           since : Nat, started : Nat, completed : Nat]

\* What the catalog file holds: snapshot rows, and the runtime observations
\* other programs add to it.
Content(Observations) == [snaps : Seq(Bundle), obs : SUBSET Observations]

Digests(snaps) == {snaps[i].records : i \in DOMAIN snaps}

\* The variants linked to some snapshot: the importer inserts a variant or
\* reuses it, and links it; it deletes none.
Indexed(snaps) == UNION Digests(snaps)

\* ORDER BY completed_at DESC, id DESC LIMIT 1
Latest(snaps) ==
  snaps[CHOOSE i \in DOMAIN snaps : \A j \in DOMAIN snaps :
          \/ snaps[j].completed < snaps[i].completed
          \/ snaps[j].completed = snaps[i].completed /\ j <= i]

\* One import transaction: a digest the catalog holds is "already indexed".
Index(snaps, bundle) ==
  IF bundle.records \in Digests(snaps) THEN snaps ELSE Append(snaps, bundle)

=============================================================================
