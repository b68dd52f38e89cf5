------------------------------ MODULE MCFidCache ------------------------------
(* The instance of FidCache that MCFidCache.cfg gives its constants. *)
EXTENDS FidCache
===============================================================================
