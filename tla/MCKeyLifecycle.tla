--------------------------- MODULE MCKeyLifecycle ---------------------------
(* KeyLifecycle on a small instance. *)
EXTENDS KeyLifecycle, TLC

Symmetry == Permutations(Keys) \cup Permutations(Operators)
=============================================================================
