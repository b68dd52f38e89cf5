---------------------------- MODULE MCReplication ----------------------------
(* Small instances of Replication, on two I/O servers. *)
EXTENDS Replication

CONSTANTS t1, t2

\* A client asks for replicas to be made and removed; two scheduler threads.
Requests ==
  [valid |-> {1}, nopunch |-> {1, 2}, policy |-> "onetime", threads |-> {t1, t2},
   kinds |-> {"add", "del", "query"}, faults |-> {"noconn", "drop", "iod", "fail"},
   rqs |-> 2, leases |-> 0, writes |-> 0, nfaults |-> 1]

\* Write leases and writes, with the replicas they invalidate reclaimed.
Leases ==
  [valid |-> {1, 2}, nopunch |-> {}, policy |-> "onetime", threads |-> {t1},
   kinds |-> {"lease"}, faults |-> {"drop", "evict"},
   rqs |-> 0, leases |-> 3, writes |-> 1, nfaults |-> 1]

\* A write lease, with the other replica made again.
Persist ==
  [Leases EXCEPT !.nopunch = {1, 2}, !.policy = "persist", !.kinds = {"lease", "query"},
                 !.faults = {"drop", "noconn", "fail"}, !.leases = 1, !.writes = 2, !.nfaults = 2]

\* The metadata server stops and starts again.
Restart ==
  [Requests EXCEPT !.threads = {t1}, !.kinds = {"add", "del"}, !.faults = {"crash", "evict"}]

SafetyPlans == {Requests, Leases, Persist, Restart}

\* For liveness: replicas are made, and removed, by two threads or with drops.
Missing ==
  [Requests EXCEPT !.kinds = {"add"}, !.faults = {"noconn"}, !.nfaults = 2]
Dropped ==
  [Requests EXCEPT !.threads = {t1}, !.kinds = {"add", "query"}, !.faults = {"drop", "iod"},
                   !.rqs = 1, !.nfaults = 2]
Removed ==
  [Requests EXCEPT !.nopunch = {}, !.threads = {t1}, !.faults = {"drop"}]

LivePlans == {Missing, Dropped, Removed}
=============================================================================
