----------------------------- MODULE MCBmapCache ------------------------------
(* Instances of BmapCache for TLC. *)
EXTENDS BmapCache, TLC

Symmetry == Permutations(Thread) \cup Permutations(Obj)
===============================================================================
