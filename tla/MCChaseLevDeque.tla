--------------------------- MODULE MCChaseLevDeque ---------------------------
(* ChaseLevDeque for TLC: the thieves, and the leases, are interchangeable. *)
EXTENDS ChaseLevDeque, TLC

Symmetry == Permutations(Thieves) \union Permutations(Leases)

=============================================================================
