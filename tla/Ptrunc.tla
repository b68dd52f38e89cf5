-------------------------------- MODULE Ptrunc --------------------------------
(***************************************************************************)
(* Partial truncation (slashd: slm_rmc_handle_setattr(),                   *)
(* slm_ptrunc_prepare(), slm_ptrunc_apply(), slm_upsch_tryptrunc();        *)
(* sliod: sli_rim_handle_bmap_ptrunc()) of one file.                       *)
(*                                                                         *)
(* A client shrinks the file: the MDS sets FCMH_MDS_IN_PTRUNC, asks the    *)
(* I/O servers with a replica of the bmap that is cut to truncate their     *)
(* files, marks replicas of later bmaps invalid, and refuses leases at or   *)
(* beyond the cut until as many attempts are over as it counted replicas.  *)
(* The file has units; a bmap has BmapSize of them, and data[i] says what   *)
(* I/O server i stores in each.                                            *)
(***************************************************************************)
EXTENDS Integers, FiniteSets, FiniteSetsExt

CONSTANTS
    IOS,        \* the I/O servers
    Truncators, \* service threads of the MDS that handle truncations
    None,       \* no I/O server
    Plans       \* the circumstances a behaviour may have (below)

ASSUME Layout == None \notin IOS
                 /\ \A p \in Plans : p.bsize \in Nat \ {0} /\ p.bmaps \in Nat \ {0}
                                    /\ p.holders \subseteq IOS

VARIABLES
    size,    \* sst_size
    inpt,    \* FCMH_MDS_IN_PTRUNC
    nios,    \* fmi_ptrunc_nios
    repls,   \* bmi_repls of each bmap
    queue,   \* bmaps on slm_upsch_queue
    rpcs,    \* SRMT_BMAP_PTRUNC requests
    tr,      \* the truncators
    lease,   \* the write lease of each bmap
    data,    \* what the I/O servers store
    cur,     \* what the file should hold
    truncs, leases, faults,
    plan     \* the circumstances of this behaviour, a record with
             \*   bmaps    number of bmaps of the file
             \*   bsize    SLASH_BMAP_SIZE, in units
             \*   holders  the I/O servers with a replica at first
             \*   polled   whether users ask for the state of the replicas
             \*   may      the faults, of {"fail", "log", "crash"}
             \*   truncs, leases, faults
             \*            bounds on truncations, leases and faults

mds == <<size, inpt, nios, repls, queue, rpcs, tr>>
vars == <<mds, lease, data, cur, truncs, leases, faults, plan>>

BmapSize == plan.bsize
Bmap == 0..plan.bmaps - 1
AllBmaps == 0..Max({p.bmaps : p \in Plans}) - 1
Unit == 0..plan.bmaps * BmapSize - 1
UnitsOf(b) == {u \in Unit : u \div BmapSize = b}
Idle == [pc |-> "idle"]
NoLease == [on |-> None, fresh |-> FALSE]

Fault(f) ==
    /\ f \in plan.may /\ faults < plan.faults
    /\ faults' = faults + 1

-----------------------------------------------------------------------------
(* Truncation at the MDS *)


\* slm_rmc_handle_setattr() to a smaller size s; the lock is given up for
\* mds_fcmh_setattr() of the other attributes
Setattr(t, s) ==
    /\ tr[t] = Idle /\ truncs < plan.truncs
    /\ ~inpt
    /\ s \in 1..size - 1
    /\ tr' = [tr EXCEPT ![t] = [pc |-> "attr", to |-> s]]
    /\ truncs' = truncs + 1
    /\ UNCHANGED <<size, inpt, nios, repls, queue, rpcs, lease, data, cur, leases, faults, plan>>

\* slm_ptrunc_prepare(), up to skip:
Prepare(t) ==
    /\ tr[t].pc = "attr"
    /\ inpt' = TRUE
    /\ tr' = [tr EXCEPT ![t].pc = "marked"]
    /\ UNCHANGED <<size, nios, repls, queue, rpcs, lease, data, cur, truncs, leases, faults, plan>>

\* The new size takes effect in memory and, with mdsio_setattr(), on disk
SetSize(t) ==
    /\ tr[t].pc = "marked"
    /\ size' = tr[t].to
    /\ tr' = [tr EXCEPT ![t] = [pc |-> "apply", to |-> tr[t].to, old |-> size]]
    /\ cur' = [u \in Unit |-> IF u >= tr[t].to THEN "none" ELSE cur[u]]
    /\ lease' = [b \in Bmap |-> [lease[b] EXCEPT !.fresh = FALSE]]
    /\ UNCHANGED <<inpt, nios, repls, queue, rpcs, data, truncs, leases, faults, plan>>

\* ... or mdsio_setattr() fails
SetSizeFail(t) ==
    /\ tr[t].pc = "marked"
    /\ Fault("log")
    /\ inpt' = FALSE
    /\ tr' = [tr EXCEPT ![t] = Idle]
    /\ UNCHANGED <<size, nios, repls, queue, rpcs, lease, data, cur, truncs, leases, plan>>

Cut == size \div BmapSize
Partial == size % BmapSize # 0

ValidOn(b) == {i \in IOS : repls[b][i] = "valid"}

\* ptrunc_tally_ios() and the translation of slm_ptrunc_apply() for the bmap that is cut
MarkCut(b) == [repls EXCEPT ![b] = [i \in IOS |-> IF @[i] = "valid" THEN "tq" ELSE @[i]]]

\* slm_ptrunc_apply(), up to out1:
ApplyCut(t) ==
    /\ tr[t].pc = "apply"
    /\ LET n == IF Partial THEN Cardinality(ValidOn(Cut)) ELSE 0
       IN  /\ nios' = n
           /\ repls' = IF Partial THEN MarkCut(Cut) ELSE repls
           /\ queue' = IF n > 0 THEN queue \cup {Cut} ELSE queue
           /\ tr' = [tr EXCEPT ![t].pc = IF n > 0 THEN "tail" ELSE "tail0"]
    /\ UNCHANGED <<size, inpt, rpcs, lease, data, cur, truncs, leases, faults, plan>>

\* ... or mds_bmap_write_logrepls() fails: slm_ptrunc_prepare() takes back what is
\* in memory
ApplyFail(t) ==
    /\ tr[t].pc = "apply"
    /\ Partial /\ ValidOn(Cut) # {}
    /\ Fault("log")
    /\ nios' = Cardinality(ValidOn(Cut))
    /\ repls' = MarkCut(Cut)
    /\ inpt' = FALSE
    /\ size' = tr[t].old
    /\ tr' = [tr EXCEPT ![t] = Idle]
    /\ UNCHANGED <<queue, rpcs, lease, data, cur, truncs, leases, plan>>

MarkTail ==
    [b \in Bmap |-> IF b * BmapSize >= size
                    THEN [i \in IOS |-> IF repls[b][i] = "valid" THEN "invalid" ELSE repls[b][i]]
                    ELSE repls[b]]

\* slm_ptrunc_apply(), from out1:.  The I/O servers may be done before this is
ApplyTail(t) ==
    /\ tr[t].pc \in {"tail", "tail0"}
    /\ repls' = MarkTail
    /\ inpt' = (inpt /\ tr[t].pc = "tail")
    /\ tr' = [tr EXCEPT ![t] = Idle]
    /\ UNCHANGED <<size, nios, queue, rpcs, lease, data, cur, truncs, leases, faults, plan>>

-----------------------------------------------------------------------------
(* The update scheduler *)


\* slm_upsch_finish_ptrunc() of k attempts, ok of them good: all count, and the last
\* one counted clears FCMH_MDS_IN_PTRUNC
Finish(k, ok) ==
    /\ nios' = nios - k
    /\ inpt' = (inpt /\ ~(nios > 0 /\ nios <= k))

\* Mutant: the whole bmap is to be cut.
OffsetNone(b) == b * BmapSize

\* Where slm_upsch_tryptrunc() tells an I/O server to cut: the size is that of now
Offset(b) == b * BmapSize + (size % BmapSize)

\* upd_proc_bmap() and slm_upsch_tryptrunc(): the requests to Bad cannot be sent
Sched(b, Bad) ==
    LET Todo == {i \in IOS : repls[b][i] = "tq"}
    IN  /\ b \in queue
        /\ Bad \subseteq Todo
        /\ IF Bad = {} THEN UNCHANGED faults ELSE Fault("fail")
        /\ queue' = queue \ {b}
        /\ repls' = [repls EXCEPT ![b] = [i \in IOS |-> IF i \in Todo \ Bad THEN "ts" ELSE @[i]]]
        /\ rpcs' = rpcs \cup {[b |-> b, i |-> i, off |-> Offset(b), st |-> "sent"] :
                                  i \in Todo \ Bad}
        /\ Finish(Cardinality(Bad), 0)
        /\ UNCHANGED <<size, tr, lease, data, cur, truncs, leases, plan>>

\* sli_rim_handle_bmap_ptrunc()
IosPtrunc(r) ==
    /\ r.st = "sent"
    /\ data' = [data EXCEPT ![r.i] = [u \in Unit |-> IF u >= r.off THEN "none" ELSE @[u]]]
    /\ rpcs' = (rpcs \ {r}) \cup {[r EXCEPT !.st = "ok"]}
    /\ UNCHANGED <<size, inpt, nios, repls, queue, tr, lease, cur, truncs, leases, faults, plan>>

\* The request fails, or it is carried out and its reply is lost
RpcFail(r) ==
    /\ r.st \in {"sent", "ok"}
    /\ Fault("fail")
    /\ rpcs' = (rpcs \ {r}) \cup {[r EXCEPT !.st = "err"]}
    /\ UNCHANGED <<size, inpt, nios, repls, queue, tr, lease, data, cur, truncs, leases, plan>>

\* Mutant: a replica is valid again whatever the I/O server says.
ResolvedAny(r) == "valid"

\* The translation of slm_upsch_finish_ptrunc()
Resolved(r) == IF r.st = "ok" THEN "valid" ELSE "tq"

\* slm_upsch_tryptrunc_cb()
PtruncCb(r) ==
    /\ r.st \in {"ok", "err"}
    /\ rpcs' = rpcs \ {r}
    /\ Finish(1, IF r.st = "ok" THEN 1 ELSE 0)
    /\ repls' = [repls EXCEPT ![r.b][r.i] = IF @ = "ts" THEN Resolved(r) ELSE @]
    /\ UNCHANGED <<size, queue, tr, lease, data, cur, truncs, leases, faults, plan>>

\* slm_rmc_handle_getreplst() finds work that is stuck
Query(b) ==
    /\ plan.polled /\ b \notin queue
    /\ \E i \in IOS : repls[b][i] = "tq"
    /\ queue' = queue \cup {b}
    /\ UNCHANGED <<size, inpt, nios, repls, rpcs, tr, lease, data, cur, truncs, leases, faults, plan>>

-----------------------------------------------------------------------------
(* Clients *)

Leasable(b) == lease[b] = NoLease /\ ~(inpt /\ b >= Cut)

\* mds_bmap_load_cli(), slm_resm_select() and mds_repl_inv_except()
Lease(b, i) ==
    /\ leases < plan.leases
    /\ Leasable(b)
    /\ ValidOn(b) # {} => i \in ValidOn(b)
    /\ repls' = [repls EXCEPT ![b] =
                   [x \in IOS |-> IF x = i THEN IF @[x] \in {"invalid", "gq"} THEN "valid" ELSE @[x]
                                  ELSE IF @[x] = "valid" THEN "gq" ELSE @[x]]]
    /\ lease' = [lease EXCEPT ![b] = [on |-> i, fresh |-> TRUE]]
    /\ leases' = leases + 1
    /\ UNCHANGED <<size, inpt, nios, queue, rpcs, tr, data, cur, truncs, faults, plan>>

\* A client writes unit u, and its setattr() makes the file longer where it must.  What
\* a lease that is older than a truncation writes is not known to be kept.
Write(u) ==
    LET b == u \div BmapSize
        l == lease[b]
    IN  /\ l.on # None
        /\ size' = IF u >= size /\ ~inpt THEN u + 1 ELSE size
        /\ data' = [data EXCEPT ![l.on][u] = "new"]
        /\ cur' = [cur EXCEPT ![u] = IF l.fresh THEN "new" ELSE "any"]
        /\ data' # data \/ cur' # cur
        /\ UNCHANGED <<inpt, nios, repls, queue, rpcs, tr, lease, truncs, leases, faults, plan>>

Release(b) ==
    /\ lease[b] # NoLease
    /\ lease' = [lease EXCEPT ![b] = NoLease]
    /\ UNCHANGED <<mds, data, cur, truncs, leases, faults, plan>>

\* The MDS restarts: mds_replay_bmap() queues truncations that were not done
Crash ==
    /\ Fault("crash")
    /\ inpt' = FALSE /\ nios' = 0 /\ rpcs' = {}
    /\ tr' = [t \in Truncators |-> Idle]
    /\ repls' = [b \in Bmap |-> [i \in IOS |-> IF repls[b][i] = "ts" THEN "tq" ELSE repls[b][i]]]
    /\ queue' = {b \in Bmap : \E i \in IOS : repls'[b][i] = "tq"}
    /\ UNCHANGED <<size, lease, data, cur, truncs, leases, plan>>

-----------------------------------------------------------------------------
Init ==
    /\ plan \in Plans
    /\ size = plan.bmaps * BmapSize
    /\ inpt = FALSE /\ nios = 0
    /\ repls = [b \in Bmap |-> [i \in IOS |-> IF i \in plan.holders THEN "valid" ELSE "invalid"]]
    /\ queue = {} /\ rpcs = {}
    /\ tr = [t \in Truncators |-> Idle]
    /\ lease = [b \in Bmap |-> NoLease]
    /\ data = [i \in IOS |-> [u \in Unit |-> IF i \in plan.holders THEN "old" ELSE "none"]]
    /\ cur = [u \in Unit |-> "old"]
    /\ truncs = 0 /\ leases = 0 /\ faults = 0

Next ==
    \/ \E t \in Truncators, s \in Unit : Setattr(t, s)
    \/ \E t \in Truncators : \/ Prepare(t) \/ SetSize(t) \/ SetSizeFail(t)
                             \/ ApplyCut(t) \/ ApplyFail(t) \/ ApplyTail(t)
    \/ \E b \in Bmap, Bad \in SUBSET IOS : Sched(b, Bad)
    \/ \E r \in rpcs : IosPtrunc(r)
    \/ \E r \in rpcs : RpcFail(r)
    \/ \E r \in rpcs : PtruncCb(r)
    \/ \E b \in Bmap : Query(b)
    \/ \E b \in Bmap, i \in IOS : Lease(b, i)
    \/ \E u \in Unit : Write(u)
    \/ \E b \in Bmap : Release(b)
    \/ Crash

Spec == Init /\ [][Next]_vars

\* The threads of the MDS run on, requests complete, and someone asks for the state
\* of the replicas now and then (where the plan says so)
Fairness ==
    /\ \A t \in Truncators : WF_vars(Prepare(t)) /\ WF_vars(SetSize(t))
                             /\ WF_vars(ApplyCut(t)) /\ WF_vars(ApplyTail(t))
    /\ \A b \in AllBmaps : WF_vars(Sched(b, {}))
    /\ \A b \in AllBmaps, i \in IOS :
          WF_vars(\E r \in rpcs : r.b = b /\ r.i = i /\ (IosPtrunc(r) \/ PtruncCb(r)))
    /\ \A b \in AllBmaps : WF_vars(b \in Bmap /\ Query(b))

FairSpec == Spec /\ Fairness

-----------------------------------------------------------------------------
Settled == ~inpt /\ \A t \in Truncators : tr[t] = Idle

\* The state is well formed, and a request cuts within the bmap it is for.
TypeOK ==
    /\ size \in 1..plan.bmaps * BmapSize
    /\ inpt \in BOOLEAN
    /\ \A b \in Bmap, i \in IOS : repls[b][i] \in {"valid", "invalid", "tq", "ts", "gq"}
    /\ queue \subseteq Bmap
    /\ \A r \in rpcs : r.off \div BmapSize = r.b
    /\ \A i \in IOS, u \in Unit : data[i][u] \in {"old", "new", "none"}
    /\ \A u \in Unit : cur[u] \in {"old", "new", "none", "any"}

\* Every valid replica of a bmap agrees with the file in the units that should be as in set W
Agrees(W) ==
    \A b \in Bmap : \A i \in ValidOn(b), u \in UnitsOf(b) :
        cur[u] \in W => data[i][u] = cur[u]

\* What a truncation took away is gone: once it is over, no replica that a client may
\* read holds data in a hole that the truncation of slm_ptrunc_apply() left.  A restart
\* of the MDS, or a failed log write, may come between the new size and the truncation.
HolesKept == plan.may \subseteq {"fail"} /\ Settled => Agrees({"none"})

\* What lies before the point of truncation stays, and so does what is written under a
\* lease that was given out after a truncation: neither sli_rim_handle_bmap_ptrunc() nor
\* a change of replicas takes it away.
DataKept == Agrees({"old", "new"})


=============================================================================
