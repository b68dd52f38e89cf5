------------------------------ MODULE MCPtrunc ------------------------------
(* A small instance of Ptrunc, on two I/O servers. *)
EXTENDS Ptrunc

CONSTANTS i1, i2

\* Requests fail, or are carried out without a reply, and are tried again.
Failing ==
  [bmaps |-> 2, bsize |-> 2, holders |-> {i1, i2}, polled |-> TRUE,
   may |-> {"fail"}, truncs |-> 1, leases |-> 0, faults |-> 4]

\* Truncations one after the other, with clients that take leases and write.
Leased ==
  [Failing EXCEPT !.bmaps = 1, !.bsize = 4, !.may = {}, !.truncs = 3, !.leases = 3]

\* Two truncations with failures of every kind, and nobody who asks.
Unpolled ==
  [Failing EXCEPT !.polled = FALSE, !.may = {"fail", "log"}, !.truncs = 2, !.faults = 3]

\* A restart of the MDS.
Restart ==
  [Failing EXCEPT !.may = {"fail", "crash"}, !.truncs = 2, !.faults = 2]

AllPlans == {Failing, Leased, Unpolled, Restart}
=============================================================================
