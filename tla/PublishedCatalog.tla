--------------------------- MODULE PublishedCatalog ---------------------------
(***************************************************************************)
(* What the maintenance workflow promises to the readers of the published  *)
(* catalog: they only ever see whole catalogs, each the previous one with  *)
(* one more snapshot, or one that was published before.                    *)
(***************************************************************************)
EXTENDS Catalog

VARIABLES catalog, past

vars == <<catalog, past>>

Init ==
  /\ Len(catalog) = 1 /\ catalog[1] \in Bundle
  /\ past = {catalog}

\* A refresh or an import publishes one more snapshot, of new contents.
Extend ==
  /\ Len(catalog') = Len(catalog) + 1
  /\ SubSeq(catalog', 1, Len(catalog)) = catalog
  /\ catalog'[Len(catalog')] \in Bundle
  /\ catalog'[Len(catalog')].records \notin Digests(catalog)
  /\ past' = past \cup {catalog'}

\* A restore goes back to a catalog that was published before.
GoBack ==
  /\ catalog' \in past
  /\ past' = past

Next == Extend \/ GoBack

Spec == Init /\ [][Next]_vars

=============================================================================
