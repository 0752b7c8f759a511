--------------------------- MODULE MCResourcePool ---------------------------
(* Small instances of ResourcePool for TLC. *)
EXTENDS ResourcePool, TLC

Symmetry == Permutations(Callers) \union Permutations(Res)
=============================================================================
