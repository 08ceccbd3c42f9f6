--------------------------- MODULE MCCatalogStore ---------------------------
(***************************************************************************)
(* Small instances of CatalogStore.                                        *)
(***************************************************************************)
EXTENDS CatalogStore, TLC

CONSTANTS s1, s2, s3, x, y

TwoSessions == {s1, s2}
ThreeSessions == {s1, s2, s3}
TwoContents == {x, y}

\* Sessions are alike, and so are contents.
Symmetry == Permutations(ThreeSessions) \cup Permutations(TwoContents)
=============================================================================
