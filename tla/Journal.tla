------------------------------- MODULE Journal -------------------------------
(***************************************************************************)
(* The write-ahead journal of the metadata server (pfl/journal.c) as it    *)
(* runs between two restarts: slot reservation, the entry buffers, xid     *)
(* and slot assignment, the log write, the distill thread that also frees  *)
(* committed entries, and the cursor thread that opens every ZFS           *)
(* transaction group (slashd/mdslog.c, slashd/mdsio_zfs.c).  One step is   *)
(* one critical section, or one blocking call, of one thread.              *)
(*                                                                         *)
(* A thread runs the operations of slashd that log:                        *)
(*   "ns"      a namespace operation, logged from inside its ZFS           *)
(*             transaction (mdslog_namespace)                              *)
(*   "unlink"  the same, with an entry that must be distilled              *)
(*   "rename"  reserves two slots; logs NS_OP_RENAME and, when a file was  *)
(*             clobbered, NS_OP_RECLAIM, which is distilled                *)
(*   "assign"  a bmap assignment, logged outside any ZFS transaction       *)
(*   "seq"     the lease sequence number, logged outside ZFS under the     *)
(*             spinlock slm_bmap_leases.btt_lock, buffer taken first       *)
(***************************************************************************)
EXTENDS Naturals, Sequences, FiniteSets

CONSTANTS Thread,       \* threads of slashd that journal
          Total,        \* pj_total, the slots of the journal
          NBuf,         \* PJ_MAX_BUF, the preallocated entry buffers
          Work,         \* bound: how many operations of each kind are run
          MaxTxg,       \* bound: the groups closed though they hold no transaction
          NoThread      \* "no holder" of a lock

AllKinds == {"ns", "unlink", "rename", "assign", "seq"}

ASSUME TotalAssumption == Total \in Nat \ {0, 1}
ASSUME NBufAssumption == NBuf \in Nat \ {0, 1}
ASSUME ThreadAssumption == IsFiniteSet(Thread) /\ NoThread \notin Thread
ASSUME WorkAssumption == Work \subseteq [AllKinds -> Nat]
ASSUME BoundAssumption == MaxTxg \in Nat

VARIABLES
  pj_resrv,         \* slots reserved by operations in progress
  pj_inuse,         \* slots that hold an entry which may still be needed
  pj_nextwrite,     \* the next slot to write
  pj_pendingxids,   \* handles of the entries in use, in slot order
  disk,             \* slot -> xid of the entry in it, 0 when only formatted
  pj_lastxid,       \* the last transaction ID issued
  pj_current_txg,   \* the open txg, as the cursor thread last reported it
  pj_distillxids,   \* handles to be distilled, in xid order
  pj_bufs,          \* number of free entry buffers
  want,             \* pj_flags: a subset of {"buf", "slot"}
  reserve_lock,     \* holder of the spinlock pjournal_reserve
  writelock,        \* holder of the static spinlock of pjournal_logwrite
  pc, op,           \* per thread: where it is and what it runs
  resv,             \* per thread: slots it has reserved
  left,             \* per thread: log entries it may still write
  txg,              \* per thread: the txg of its open ZFS transaction, or 0
  xid,              \* per thread: the transaction ID it is logging
  xtxg,             \* per thread: its pjx_txg, or the txg it waits for
  slot,             \* per thread: the slot it is writing
  hxid,             \* per thread: the pjx_xid now in the memory of its handle
  todo,             \* how many operations of each kind are still to come
  dist,             \* the distill thread: where it is and its locals
  open_txg,         \* ZFS: tx_open_txg
  tx_open,          \* ZFS: tx_txg_count > 0, transactions may be assigned
  synced,           \* ZFS: the last synced txg
  cursor            \* the cursor thread's transaction: [at, txg]

svars == << pj_resrv, pj_inuse, pj_nextwrite, pj_pendingxids, disk >>
bvars == << pj_bufs, want >>
locks == << reserve_lock, writelock >>
locals == << op, resv, left, txg, xid, xtxg, slot, hxid >>
zvars == << open_txg, tx_open, synced, cursor >>
vars == << svars, pj_lastxid, pj_current_txg, pj_distillxids, bvars, locks,
           pc, locals, todo, dist, zvars >>

Slot == 0 .. Total - 1
PCs == {"idle", "reserve_lock", "reserve", "wait_slot", "wait_synced", "tx",
        "hold", "get_buf", "wait_buf", "xnew", "logwrite", "io", "written",
        "commit", "unreserve", "put_buf"}

\* A handle on pj_pendingxids.  "must", "eff" and "dtxg" are history: whether
\* the entry must be distilled, the txg of the operation's own ZFS transaction
\* and that of the distilled record (0: none).
Handle == [xid : Nat, slot : Slot, txg : Nat, distill : BOOLEAN,
           must : BOOLEAN, eff : Nat, dtxg : Nat]

\* The slots an operation reserves, whether it logs from inside a ZFS
\* transaction, and whether the entry it writes with n left is distilled.
Count(k) == IF k = "rename" THEN 2 ELSE 1
InTx(k) == k \in {"ns", "unlink", "rename"}
Distill(k, n) == k = "unlink" \/ (k = "rename" /\ n = 1)

Init ==
  /\ pj_resrv = 0 /\ pj_inuse = 0 /\ pj_nextwrite = 0
  /\ pj_pendingxids = <<>> /\ disk = [s \in Slot |-> 0]
  /\ pj_lastxid = 0 /\ pj_current_txg = 0 /\ pj_distillxids = <<>>
  /\ pj_bufs = NBuf /\ want = {}
  /\ reserve_lock = NoThread /\ writelock = NoThread
  /\ pc = [t \in Thread |-> "idle"] /\ op = [t \in Thread |-> "none"]
  /\ resv = [t \in Thread |-> 0] /\ left = [t \in Thread |-> 0]
  /\ txg = [t \in Thread |-> 0]
  /\ xid = [t \in Thread |-> 0] /\ xtxg = [t \in Thread |-> 0]
  /\ slot = [t \in Thread |-> 0] /\ hxid = [t \in Thread |-> 0]
  /\ todo \in Work
  /\ dist = [at |-> "scan", xid |-> 0, data |-> 0, last |-> 0, txg |-> 0,
             last_reclaimed |-> TRUE, reclaimed |-> FALSE]
  /\ open_txg = 1 /\ tx_open = FALSE /\ synced = 0
  /\ cursor = [at |-> "idle", txg |-> 0]

------------------------------------------------------------------------------
\* pfl/waitq.c: both kinds of waiters sleep on the one pj_waitq.
Waiters == {t \in Thread : pc[t] \in {"wait_slot", "wait_buf"}}
Woken(S) == [t \in Thread |-> IF t \notin S THEN pc[t]
                              ELSE IF pc[t] = "wait_slot" THEN "reserve"
                              ELSE "get_buf"]

\* psc_waitq_wakeone: pthread_cond_signal picks any one sleeper.
WakeOne == IF Waiters = {} THEN {{}} ELSE {{t} : t \in Waiters}

\* Mutant: an entry that is to be distilled goes as well.
ReclaimableNoDistill(h) == h.txg <= synced

\* The head of pj_pendingxids may go: committed, and not to be distilled.
Reclaimable(h) == h.txg <= synced /\ ~h.distill

\* Where a thread that has just got its reservation or its buffer goes.
AfterReserve(k) == IF InTx(k) THEN "tx" ELSE IF k = "seq" THEN "xnew"
                   ELSE "get_buf"
AfterBuf(t) == IF op[t] = "seq" THEN "reserve_lock" ELSE "xnew"

\* An RPC handler or the lease code starts an operation that will log.
\* btt_lock serialises the "seq" ones.
Start(t, k) ==
  /\ pc[t] = "idle" /\ todo[k] > 0
  /\ k = "seq" => \A u \in Thread : op[u] # "seq"
  /\ todo' = [todo EXCEPT ![k] = @ - 1]
  /\ op' = [op EXCEPT ![t] = k]
  /\ pc' = [pc EXCEPT ![t] = IF k = "seq" THEN "get_buf" ELSE "reserve_lock"]
  /\ UNCHANGED << svars, pj_lastxid, pj_current_txg, pj_distillxids, bvars,
       locks, resv, left, txg, xid, xtxg, slot, hxid, dist, zvars >>

\* The operation returns, and its locals with it.
Return(t) ==
  /\ op' = [op EXCEPT ![t] = "none"]
  /\ xid' = [xid EXCEPT ![t] = 0] /\ xtxg' = [xtxg EXCEPT ![t] = 0]
  /\ slot' = [slot EXCEPT ![t] = 0] /\ hxid' = [hxid EXCEPT ![t] = 0]

------------------------------------------------------------------------------
\* pjournal_reserve_slot, one action per branch of its loop.
ReserveLock(t) ==
  /\ pc[t] = "reserve_lock" /\ reserve_lock = NoThread
  /\ reserve_lock' = t
  /\ pc' = [pc EXCEPT ![t] = "reserve"]
  /\ UNCHANGED << svars, pj_lastxid, pj_current_txg, pj_distillxids, bvars,
       writelock, locals, todo, dist, zvars >>

\* Mutant: slots reserved but not yet written are not counted.
HasRoomNoResrv == pj_inuse < Total

HasRoom == pj_resrv + pj_inuse < Total

\* A slot is free: take it; the last one wanted also leaves the loop.
ReserveTake(t) ==
  /\ pc[t] = "reserve" /\ HasRoom
  /\ pj_resrv' = pj_resrv + 1
  /\ resv' = [resv EXCEPT ![t] = @ + 1]
  /\ left' = [left EXCEPT ![t] = @ + 1]
  /\ IF resv[t] + 1 = Count(op[t])
     THEN /\ pc' = [pc EXCEPT ![t] = AfterReserve(op[t])]
          /\ reserve_lock' = NoThread
     ELSE UNCHANGED << pc, reserve_lock >>
  /\ UNCHANGED << pj_inuse, pj_nextwrite, pj_pendingxids, disk, pj_lastxid,
       pj_current_txg, pj_distillxids, bvars, writelock,
       op, txg, xid, xtxg, slot, hxid, todo, dist, zvars >>

\* Full: sleep for an unreservation ...
ReserveOver(t) ==
  /\ pc[t] = "reserve" /\ ~HasRoom /\ pj_pendingxids = <<>>
  /\ want' = want \union {"slot"}
  /\ pc' = [pc EXCEPT ![t] = "wait_slot"]
  /\ UNCHANGED << svars, pj_lastxid, pj_current_txg, pj_distillxids, pj_bufs,
       locks, locals, todo, dist, zvars >>

\* ... or wait for the head's txg to be synced ...
ReserveWait(t) ==
  /\ pc[t] = "reserve" /\ ~HasRoom /\ pj_pendingxids # <<>>
  /\ Head(pj_pendingxids).txg > synced
  /\ pc' = [pc EXCEPT ![t] = "wait_synced"]
  /\ xtxg' = [xtxg EXCEPT ![t] = Head(pj_pendingxids).txg]
  /\ UNCHANGED << svars, pj_lastxid, pj_current_txg, pj_distillxids, bvars,
       locks, op, resv, left, txg, xid, slot, hxid, todo, dist, zvars >>

\* (zfsslash2_wait_synced returns)
ReserveSynced(t) ==
  /\ pc[t] = "wait_synced" /\ xtxg[t] <= synced
  /\ pc' = [pc EXCEPT ![t] = "reserve"]
  /\ xtxg' = [xtxg EXCEPT ![t] = 0]
  /\ UNCHANGED << svars, pj_lastxid, pj_current_txg, pj_distillxids, bvars,
       locks, op, resv, left, txg, xid, slot, hxid, todo, dist, zvars >>

\* ... or free the head.  While the head is committed but not yet distilled
\* the loop only sleeps and looks again.
ReserveFree(t) ==
  /\ pc[t] = "reserve" /\ ~HasRoom /\ pj_pendingxids # <<>>
  /\ Reclaimable(Head(pj_pendingxids))
  /\ pj_pendingxids' = Tail(pj_pendingxids)
  /\ pj_inuse' = pj_inuse - 1
  /\ UNCHANGED << pj_resrv, pj_nextwrite, disk, pj_lastxid, pj_current_txg,
       pj_distillxids, bvars, locks, pc, locals, todo, dist, zvars >>

\* pjournal_unreserve_slot
Unreserve(t) ==
  /\ pc[t] = "unreserve"
  /\ pj_resrv' = pj_resrv - resv[t]
  /\ resv' = [resv EXCEPT ![t] = 0]
  /\ left' = [left EXCEPT ![t] = 0]
  /\ want' = want \ {"slot"}
  /\ \E S \in IF "slot" \in want THEN WakeOne ELSE {{}} :
       pc' = [Woken(S) EXCEPT ![t] = IF op[t] = "seq" THEN "put_buf"
                                     ELSE "idle"]
  /\ IF op[t] = "seq" THEN UNCHANGED << op, xid, xtxg, slot, hxid >>
     ELSE Return(t)
  /\ UNCHANGED << pj_inuse, pj_nextwrite, pj_pendingxids, disk, pj_lastxid,
       pj_current_txg, pj_distillxids, pj_bufs, locks, txg, todo, dist,
       zvars >>

------------------------------------------------------------------------------
\* dmu_tx_try_assign: an ordinary transaction waits until the cursor's has been
\* let into the open group, and then, no lock held meanwhile, joins the group
\* that is open by now.
TxCheck(t) ==
  /\ pc[t] = "tx" /\ tx_open
  /\ pc' = [pc EXCEPT ![t] = "hold"]
  /\ UNCHANGED << svars, pj_lastxid, pj_current_txg, pj_distillxids, bvars,
       locks, locals, todo, dist, zvars >>
TxHold(t) ==
  /\ pc[t] = "hold"
  /\ txg' = [txg EXCEPT ![t] = open_txg]
  /\ pc' = [pc EXCEPT ![t] = "get_buf"]
  /\ UNCHANGED << svars, pj_lastxid, pj_current_txg, pj_distillxids, bvars,
       locks, op, resv, left, xid, xtxg, slot, hxid, todo, dist, zvars >>

\* The ZFS operation fails before it logs anything; it has woken the cursor
\* thread all the same (slm_zfs_cursor_start).
OpFails(t) ==
  /\ pc[t] = "tx"
  /\ pc' = [pc EXCEPT ![t] = "unreserve"]
  /\ cursor' = IF cursor.at = "idle" THEN [cursor EXCEPT !.at = "woken"]
               ELSE cursor
  /\ UNCHANGED << svars, pj_lastxid, pj_current_txg, pj_distillxids, bvars,
       locks, locals, todo, dist, open_txg, tx_open, synced >>

\* pjournal_get_buf
GetBuf(t) ==
  /\ pc[t] = "get_buf"
  /\ IF pj_bufs > 0
     THEN /\ pj_bufs' = pj_bufs - 1
          /\ pc' = [pc EXCEPT ![t] = AfterBuf(t)]
          /\ UNCHANGED want
     ELSE /\ want' = want \union {"buf"}
          /\ pc' = [pc EXCEPT ![t] = "wait_buf"]
          /\ UNCHANGED pj_bufs
  /\ UNCHANGED << svars, pj_lastxid, pj_current_txg, pj_distillxids, locks,
       locals, todo, dist, zvars >>


\* pjournal_put_buf: the buffer, the flag, and the sleepers it lets go.
PutBuf == pj_bufs' = pj_bufs + 1 /\ want' = want \ {"buf"}
PutBufWakes == IF "buf" \in want THEN Waiters ELSE {}

PutSeqBuf(t) ==
  /\ pc[t] = "put_buf"
  /\ PutBuf
  /\ pc' = [Woken(PutBufWakes) EXCEPT ![t] = "idle"]
  /\ Return(t)
  /\ UNCHANGED << svars, pj_lastxid, pj_current_txg, pj_distillxids, locks,
       resv, left, txg, todo, dist, zvars >>

------------------------------------------------------------------------------
\* A handle is in use while it is on pj_pendingxids, and between
\* pjournal_xnew and pjournal_next_slot.
HandleInUse(x) ==
  \/ \E i \in DOMAIN pj_pendingxids : pj_pendingxids[i].xid = x
  \/ \E t \in Thread : pc[t] = "logwrite" /\ xid[t] = x

\* Handles that went back to their pool while a thread still writes the entry:
\* psc_pool_get may hand their memory to the next transaction.
FreedEarly == {hxid[t] : t \in {u \in Thread :
                 pc[u] \in {"io", "written"} /\ ~HandleInUse(hxid[u])}}

\* pjournal_xnew and pjournal_assign_xid: the xid, and the place on the
\* distill list, are fixed before the entry is written.
Xnew(t) ==
  /\ pc[t] = "xnew"
  /\ pj_lastxid' = pj_lastxid + 1
  /\ xid' = [xid EXCEPT ![t] = pj_lastxid + 1]
  /\ \E old \in FreedEarly \union {0} :
       hxid' = [u \in Thread |-> IF u = t \/ (old > 0 /\ hxid[u] = old)
                                THEN pj_lastxid + 1 ELSE hxid[u]]
  /\ xtxg' = [xtxg EXCEPT ![t] = IF txg[t] = 0 THEN pj_current_txg
                                 ELSE txg[t]]
  /\ pj_distillxids' = IF Distill(op[t], left[t])
                       THEN Append(pj_distillxids,
                              [xid |-> pj_lastxid + 1, written |-> FALSE,
                               data |-> 0])
                       ELSE pj_distillxids
  /\ pc' = [pc EXCEPT ![t] = "logwrite"]
  /\ UNCHANGED << svars, pj_current_txg, bvars, locks, op, resv, left, txg,
       slot, todo, dist, zvars >>

\* PJX_DISTILL is set in handle x.
Flagged(x) == \/ \E i \in DOMAIN pj_distillxids : pj_distillxids[i].xid = x
              \/ dist.at \in {"handler", "hold", "done"} /\ dist.xid = x

\* Mutant: the last slot is never used.
NextWriteShort == IF pj_nextwrite + 1 = Total - 1 THEN 0 ELSE pj_nextwrite + 1

\* pjournal_next_slot, under writelock.
NextWrite == IF pj_nextwrite + 1 = Total THEN 0 ELSE pj_nextwrite + 1

NextSlot(t) ==
  /\ pc[t] = "logwrite" /\ writelock = NoThread
  /\ writelock' = t
  /\ pj_nextwrite' = NextWrite
  /\ pj_inuse' = pj_inuse + 1
  /\ left' = [left EXCEPT ![t] = @ - 1]
  /\ slot' = [slot EXCEPT ![t] = pj_nextwrite]
  /\ pj_pendingxids' = Append(pj_pendingxids,
       [xid |-> xid[t], slot |-> pj_nextwrite, txg |-> xtxg[t],
        distill |-> Flagged(xid[t]), must |-> Distill(op[t], left[t]),
        eff |-> txg[t], dtxg |-> 0])
  /\ pc' = [pc EXCEPT ![t] = "io"]
  /\ UNCHANGED << pj_resrv, disk, pj_lastxid, pj_current_txg, pj_distillxids,
       bvars, reserve_lock, op, resv, txg, xid, xtxg, hxid, todo, dist,
       zvars >>

\* Mutant: the slot is not remembered, but read again when the entry is written.
LogWrittenNext(t) ==
  /\ pc[t] = "io"
  /\ disk' = [disk EXCEPT ![pj_nextwrite] = xid[t]]
  /\ writelock' = NoThread
  /\ pc' = [pc EXCEPT ![t] = "written"]
  /\ UNCHANGED << pj_resrv, pj_inuse, pj_nextwrite, pj_pendingxids,
       pj_lastxid, pj_current_txg, pj_distillxids, bvars, reserve_lock,
       locals, todo, dist, zvars >>

\* pjournal_logwrite_internal: the entry is on disk when the call returns (a
\* write that keeps failing is fatal, psc_fatalx).
LogWritten(t) ==
  /\ pc[t] = "io"
  /\ disk' = [disk EXCEPT ![slot[t]] = xid[t]]
  /\ writelock' = NoThread
  /\ pc' = [pc EXCEPT ![t] = "written"]
  /\ UNCHANGED << pj_resrv, pj_inuse, pj_nextwrite, pj_pendingxids,
       pj_lastxid, pj_current_txg, pj_distillxids, bvars, reserve_lock,
       locals, todo, dist, zvars >>

\* PJX_WRITTEN and pjx_data, the entry that will be distilled, of handle x.
MarkWritten(x, d) ==
  [i \in DOMAIN pj_distillxids |->
     IF pj_distillxids[i].xid = x
     THEN [pj_distillxids[i] EXCEPT !.written = TRUE, !.data = d]
     ELSE pj_distillxids[i]]

\* The end of pjournal_logwrite and of its caller.  If the handle is to be
\* distilled the entry is handed to the distill thread; the caller gives the
\* buffer of an entry that is not distilled back ("seq" only after it has
\* unreserved).  A rename that clobbered a file goes round once more.
Written(t) ==
  /\ pc[t] = "written"
  /\ pj_distillxids' = MarkWritten(hxid[t], xid[t])
  /\ \E again \in IF op[t] = "rename" /\ left[t] = 1 THEN BOOLEAN ELSE {FALSE} :
       LET next == IF again THEN "get_buf"
                   ELSE IF InTx(op[t]) THEN "commit" ELSE "unreserve"
       IN IF Distill(op[t], left[t] + 1) \/ op[t] = "seq"
          THEN /\ pc' = [pc EXCEPT ![t] = next]
               /\ UNCHANGED bvars
          ELSE /\ PutBuf
               /\ pc' = [Woken(PutBufWakes) EXCEPT ![t] = next]
  /\ UNCHANGED << svars, pj_lastxid, pj_current_txg, locks, locals, todo,
       dist, zvars >>

\* dmu_tx_commit
Commit(t) ==
  /\ pc[t] = "commit"
  /\ txg' = [txg EXCEPT ![t] = 0]
  /\ pc' = [pc EXCEPT ![t] = "unreserve"]
  /\ UNCHANGED << svars, pj_lastxid, pj_current_txg, pj_distillxids, bvars,
       locks, op, resv, left, xid, xtxg, slot, hxid, todo, dist, zvars >>

------------------------------------------------------------------------------
\* pjournal_thr_main.  Take the first handle of the distill list, if written.
DistillTake ==
  /\ dist.at = "scan"
  /\ pj_distillxids # <<>> /\ Head(pj_distillxids).written
  /\ pj_distillxids' = Tail(pj_distillxids)
  /\ dist' = [dist EXCEPT !.at = "handler", !.xid = Head(pj_distillxids).xid,
                          !.data = Head(pj_distillxids).data]
  /\ UNCHANGED << svars, pj_lastxid, pj_current_txg, bvars, locks, pc, locals,
       todo, zvars >>

\* pj_distill_handler (mds_distill_handler) writes to a log file in ZFS, in a
\* transaction of its own.
DistillCheck ==
  /\ dist.at = "handler" /\ tx_open
  /\ dist' = [dist EXCEPT !.at = "hold"]
  /\ UNCHANGED << svars, pj_lastxid, pj_current_txg, pj_distillxids, bvars,
       locks, pc, locals, todo, zvars >>
DistillHandler ==
  /\ dist.at = "hold"
  /\ dist' = [dist EXCEPT !.at = "done", !.txg = open_txg]
  /\ UNCHANGED << svars, pj_lastxid, pj_current_txg, pj_distillxids, bvars,
       locks, pc, locals, todo, zvars >>

\* The handle may go once the txg after the current one has been synced.
DistillTxg == pj_current_txg + 1

DistillDone ==
  /\ dist.at = "done"
  /\ pj_pendingxids' =
       [i \in DOMAIN pj_pendingxids |->
          IF pj_pendingxids[i].xid # dist.xid THEN pj_pendingxids[i]
          ELSE [pj_pendingxids[i] EXCEPT
                  !.txg = IF DistillTxg > @ THEN DistillTxg ELSE @,
                  !.distill = FALSE,
                  !.dtxg = IF dist.data = dist.xid THEN dist.txg ELSE 0]]
  /\ dist' = [dist EXCEPT !.at = "scan", !.xid = 0, !.data = 0, !.txg = 0,
                          !.last = dist.xid, !.last_reclaimed = TRUE]
  /\ PutBuf
  /\ pc' = Woken(PutBufWakes)
  /\ UNCHANGED << pj_resrv, pj_inuse, pj_nextwrite, disk, pj_lastxid,
       pj_current_txg, pj_distillxids, locks, locals, todo, zvars >>


\* The txg the thread then waits for, if the last two rounds freed nothing.
SyncTxg(rec, blocked) == IF dist.last_reclaimed \/ rec THEN 0 ELSE blocked

\* Nothing (more) to distill: free the committed handles at the head.
DistillReclaim ==
  /\ dist.at = "scan"
  /\ pj_distillxids # <<>> => ~Head(pj_distillxids).written
  /\ \E n \in 0 .. Len(pj_pendingxids) :
       /\ \A i \in 1 .. n : Reclaimable(pj_pendingxids[i])
       /\ n < Len(pj_pendingxids) => ~Reclaimable(pj_pendingxids[n + 1])
       /\ pj_pendingxids' = SubSeq(pj_pendingxids, n + 1, Len(pj_pendingxids))
       /\ pj_inuse' = pj_inuse - n
       /\ LET blocked == IF n < Len(pj_pendingxids)
                            /\ pj_pendingxids[n + 1].txg > synced
                         THEN pj_pendingxids[n + 1].txg ELSE 0
              rec == dist.reclaimed \/ n > 0
          IN dist' = [dist EXCEPT !.at = "sync", !.reclaimed = rec,
                        !.txg = SyncTxg(rec, blocked)]
  /\ UNCHANGED << pj_resrv, pj_nextwrite, disk, pj_lastxid, pj_current_txg,
       pj_distillxids, bvars, locks, pc, locals, todo, zvars >>

\* zfsslash2_wait_synced returns, and the thread goes to sleep for 30 seconds
\* or until an entry to distill has been written.
DistillSleep ==
  /\ dist.at = "sync" /\ dist.txg <= synced
  /\ dist' = IF pj_distillxids = <<>>
             THEN [dist EXCEPT !.at = "scan", !.txg = 0, !.reclaimed = FALSE,
                               !.last_reclaimed = dist.reclaimed]
             ELSE [dist EXCEPT !.at = "scan", !.txg = 0]
  /\ UNCHANGED << svars, pj_lastxid, pj_current_txg, pj_distillxids, bvars,
       locks, pc, locals, todo, zvars >>

------------------------------------------------------------------------------
\* slm_cursor_update_needed > 0: some operation that modifies the file system
\* is in progress.
CursorNeeded ==
  \/ dist.at \in {"handler", "hold"}
  \/ \E t \in Thread : InTx(op[t]) /\ (pc[t] \in {"tx", "hold"} \/ txg[t] # 0)

\* slmjcursorthr_main: the cursor's transaction lets the others in and joins the
\* open group itself ...
CursorAssign ==
  /\ cursor.at = "woken" \/ (cursor.at = "idle" /\ CursorNeeded)
  /\ cursor' = [cursor EXCEPT !.at = "opening"]
  /\ tx_open' = TRUE
  /\ UNCHANGED << svars, pj_lastxid, pj_current_txg, pj_distillxids, bvars,
       locks, pc, locals, todo, dist, open_txg, synced >>
CursorHold ==
  /\ cursor.at = "opening"
  /\ cursor' = [at |-> "assigned", txg |-> open_txg]
  /\ UNCHANGED << svars, pj_lastxid, pj_current_txg, pj_distillxids, bvars,
       locks, pc, locals, todo, dist, open_txg, tx_open, synced >>

\* ... mds_update_cursor is called the first time ...
CursorStart ==
  /\ cursor.at = "assigned"
  /\ cursor' = [cursor EXCEPT !.at = "open"]
  /\ pj_current_txg' = cursor.txg
  /\ UNCHANGED << svars, pj_lastxid, pj_distillxids, bvars, locks, pc, locals,
       todo, dist, open_txg, tx_open, synced >>

\* ... and, once the group has been closed, the second time, and commits.
CursorEnd ==
  /\ cursor.at = "open" /\ ~tx_open
  /\ cursor' = [at |-> "idle", txg |-> 0]
  /\ UNCHANGED << svars, pj_lastxid, pj_current_txg, pj_distillxids, bvars,
       locks, pc, locals, todo, dist, open_txg, tx_open, synced >>

\* Groups that hold a transaction, and groups some thread waits for.
UsedTxgs == {txg[t] : t \in Thread} \union {dist.txg}
            \union {pj_pendingxids[i].eff : i \in DOMAIN pj_pendingxids}
            \union {pj_pendingxids[i].dtxg : i \in DOMAIN pj_pendingxids}
AwaitedTxgs == {xtxg[t] : t \in {u \in Thread : pc[u] = "wait_synced"}}
               \union (IF dist.at = "sync" THEN {dist.txg} ELSE {})

\* txg_quiesce closes the open group, on a timer or because it is awaited;
\* one group may be quiesced and one may be syncing meanwhile.
TxgQuiesce ==
  /\ \/ open_txg <= MaxTxg
     \/ open_txg \in UsedTxgs
     \/ \E w \in AwaitedTxgs : w >= open_txg
  /\ open_txg <= synced + 2
  /\ open_txg' = open_txg + 1
  /\ tx_open' = FALSE
  /\ UNCHANGED << svars, pj_lastxid, pj_current_txg, pj_distillxids, bvars,
       locks, pc, locals, todo, dist, synced, cursor >>

\* A closed group is synced, in order, when its transactions have committed.
TxgSync ==
  /\ synced + 1 < open_txg
  /\ cursor.txg # synced + 1
  /\ \A t \in Thread : txg[t] # synced + 1
  /\ synced' = synced + 1
  /\ UNCHANGED << svars, pj_lastxid, pj_current_txg, pj_distillxids, bvars,
       locks, pc, locals, todo, dist, open_txg, tx_open, cursor >>

------------------------------------------------------------------------------
ThreadStep(t) ==
  \/ ReserveLock(t) \/ ReserveTake(t) \/ ReserveOver(t) \/ ReserveWait(t)
  \/ ReserveSynced(t) \/ ReserveFree(t) \/ Unreserve(t) \/ TxCheck(t)
  \/ TxHold(t) \/ GetBuf(t) \/ PutSeqBuf(t) \/ Xnew(t) \/ NextSlot(t) \/ LogWritten(t)
  \/ Written(t) \/ Commit(t)
DistillStep == DistillTake \/ DistillCheck \/ DistillHandler \/ DistillDone
               \/ DistillReclaim \/ DistillSleep
CursorStep == CursorAssign \/ CursorHold \/ CursorStart \/ CursorEnd

Next ==
  \/ \E t \in Thread, k \in AllKinds : Start(t, k)
  \/ \E t \in Thread : ThreadStep(t) \/ OpFails(t)
  \/ DistillStep \/ CursorStep \/ TxgQuiesce \/ TxgSync

Spec == Init /\ [][Next]_vars

\* Threads run, the distill and cursor threads run, and ZFS closes and syncs
\* groups.
Fairness ==
  /\ \A t \in Thread : WF_vars(ThreadStep(t))
  /\ WF_vars(DistillStep) /\ WF_vars(CursorStep)
  /\ WF_vars(TxgQuiesce) /\ WF_vars(TxgSync)

FairSpec == Spec /\ Fairness

------------------------------------------------------------------------------
\* Every variable has its type; the counters stay in their ranges.
SlotTypes ==
  /\ pj_resrv \in Nat /\ pj_inuse \in Nat /\ pj_nextwrite \in Slot
  /\ pj_pendingxids \in Seq(Handle) /\ disk \in [Slot -> Nat]
  /\ reserve_lock \in Thread \union {NoThread}
  /\ writelock \in Thread \union {NoThread}
ListTypes ==
  /\ pj_lastxid \in Nat /\ pj_current_txg \in Nat
  /\ pj_distillxids \in Seq([xid : Nat, written : BOOLEAN, data : Nat])
  /\ pj_bufs \in Nat /\ want \subseteq {"buf", "slot"}
ThreadTypes ==
  /\ pc \in [Thread -> PCs] /\ op \in [Thread -> AllKinds \union {"none"}]
  /\ resv \in [Thread -> 0 .. 2] /\ left \in [Thread -> 0 .. 2]
  /\ txg \in [Thread -> Nat] /\ xid \in [Thread -> Nat]
  /\ xtxg \in [Thread -> Nat] /\ slot \in [Thread -> Slot]
  /\ hxid \in [Thread -> Nat] /\ todo \in [AllKinds -> Nat]
OtherTypes ==
  /\ dist \in [at : {"scan", "handler", "hold", "done", "sync"}, xid : Nat,
               data : Nat, last : Nat, txg : Nat, last_reclaimed : BOOLEAN,
               reclaimed : BOOLEAN]
  /\ open_txg \in Nat /\ tx_open \in BOOLEAN /\ synced \in Nat
  /\ cursor \in [at : {"idle", "woken", "opening", "assigned", "open"}, txg : Nat]
TypeOK == SlotTypes /\ ListTypes /\ ThreadTypes /\ OtherTypes

\* The assertions of pjournal_next_slot: a thread about to write finds a
\* reservation, and the next slot is not that of the oldest entry in use.
NextSlotFree ==
  \A t \in Thread : pc[t] = "logwrite" =>
    /\ pj_resrv > 0
    /\ pj_pendingxids # <<>> => Head(pj_pendingxids).slot # pj_nextwrite

\* An entry that is still in use is in its slot on disk (the one being
\* written excepted): no later log write has overwritten it.
LiveEntriesOnDisk ==
  \A i \in DOMAIN pj_pendingxids :
    \/ disk[pj_pendingxids[i].slot] = pj_pendingxids[i].xid
    \/ i = Len(pj_pendingxids) /\ writelock # NoThread

Tokens(f) == {p \in Thread \X (1 .. 2) : p[2] <= f[p[1]]}

\* The journal never counts, nor promises, more slots than it has: the slots
\* in use and the entries still to be written by the threads that hold a
\* reservation fit in it, and pj_resrv counts what the threads hold.
SlotsSuffice ==
  /\ pj_inuse = Len(pj_pendingxids)
  /\ pj_inuse + Cardinality(Tokens(left)) <= Total
  /\ pj_resrv = Cardinality(Tokens(resv))

Settled(h) == h.eff <= synced /\ (h.must => h.dtxg > 0)

\* A slot is given up only when nothing in it is needed any more: the
\* operation's own transaction has been synced and, if the entry must be
\* distilled, its own record has been written to the log file in ZFS.
SettledBeforeReuse ==
  [][\A i \in DOMAIN pj_pendingxids :
       \/ Settled(pj_pendingxids[i])
       \/ \E j \in DOMAIN pj_pendingxids' :
            pj_pendingxids'[j].xid = pj_pendingxids[i].xid]_vars

\* "xh can be freed after its associated txg has been committed by the ZFS":
\* the txg that holds the distilled record of an entry has been synced when
\* the entry's slot is given up.
DistilledBeforeReuse ==
  [][\A i \in DOMAIN pj_pendingxids :
       \/ pj_pendingxids[i].dtxg <= synced
       \/ \E j \in DOMAIN pj_pendingxids' :
            pj_pendingxids'[j].xid = pj_pendingxids[i].xid]_vars

HoldsBuf(t) ==
  \/ pc[t] \in {"xnew", "logwrite", "io", "written"}
  \/ op[t] = "seq" /\ pc[t] \in {"reserve_lock", "reserve", "wait_slot",
                                 "wait_synced", "unreserve", "put_buf"}


==============================================================================
