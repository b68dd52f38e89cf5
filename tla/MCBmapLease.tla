------------------------------ MODULE MCBmapLease ------------------------------
(* Instances of BmapLease for TLC. *)
EXTENDS BmapLease

Symmetry == Permutations(Client)

================================================================================
