--------------------------- MODULE MCLocalAdverts ---------------------------
(* Values for the constants of LocalAdverts. *)
EXTENDS LocalAdverts, TLC

CONSTANTS c1, c2, c3, m1, m2, f1, f2

MCClient == {c1, c2, c3}
MCMesh == {m1, m2}
MCFilter == {f1, f2}
MCMeshFilter == {f2}
MCSymmetry == Permutations(Client) \cup Permutations(Mesh)
=============================================================================
