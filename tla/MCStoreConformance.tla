------------------------- MODULE MCStoreConformance -------------------------
(* StoreConformance on a small instance: any mix of the calls of Calls. *)
EXTENDS StoreConformance, TLC

Symmetry == Permutations(Calls)
=============================================================================
