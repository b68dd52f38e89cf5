----------------------------- MODULE MCBatchRpc -----------------------------
(* A small instance of BatchRpc. *)
EXTENDS BatchRpc

\* Refused allocations, failed sends and lost acknowledgements; or connections
\* that drop and peers that die.
Plans == {[may |-> {"new", "send", "ack"}, left |-> 2],
          [may |-> {"drop", "die", "ack"}, left |-> 1]}
=============================================================================
