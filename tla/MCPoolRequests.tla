--------------------------- MODULE MCPoolRequests ---------------------------
(***************************************************************************)
(* PoolRequests for TLC: two nodes and two pool settings, which nothing    *)
(* tells apart.                                                            *)
(***************************************************************************)
EXTENDS PoolRequests, TLC

Symmetry == Permutations(Nodes) \cup Permutations(Algs)
=============================================================================
