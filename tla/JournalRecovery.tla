--------------------------- MODULE JournalRecovery ---------------------------
(***************************************************************************)
(* What the journal is for: operations that have been answered survive a   *)
(* crash of the metadata server.  The module follows the journal of        *)
(* pfl/journal.c over crashes and restarts.  It keeps what recovery reads: *)
(* the slots on disk, the cursor file and the reclaim log (both inside     *)
(* ZFS) and the transaction group in which each change was made; Journal   *)
(* has the finer accounting of slots, buffers and waiters.                 *)
(*                                                                         *)
(* An operation is one of                                                  *)
(*   "ns"      changes ZFS and logs inside one transaction                 *)
(*   "unlink"  the same, and its entry must be distilled                   *)
(*   "assign"  writes the bmap assignment table in ZFS, then logs outside  *)
(*             any transaction (mds_bmap_ios_assign)                       *)
(*   "free"    logs outside any transaction, then frees the table's item   *)
(*             (mds_bmap_bml_release)                                      *)
(***************************************************************************)
EXTENDS Naturals, Sequences, FiniteSets

CONSTANTS Op,           \* the operations; each is run at most once
          Kinds,        \* what they may be
          Total,        \* pj_total
          MaxCrash,     \* bound: crashes
          MaxTxg,       \* bound: groups that close though nothing needs it
          Torn,         \* may a crash leave half of an entry in its slot?
          NoOp

AllKinds == {"ns", "unlink", "assign", "free"}

ASSUME OpAssumption == IsFiniteSet(Op) /\ NoOp \notin Op
ASSUME KindsAssumption == Kinds \subseteq AllKinds
ASSUME SizesAssumption == Total \in Nat \ {0} /\ MaxCrash \in Nat /\ MaxTxg \in Nat
ASSUME TornAssumption == Torn \in BOOLEAN

VARIABLES
  disk,             \* slot -> entry
  done,             \* op -> the txg in which its change was made, 0: none
  recl,             \* the records of the reclaim logs
  curfile,          \* the contents of the cursor file, by txg
  synced, open_txg, tx_open, cursor,   \* ZFS and the cursor thread, as in Journal
  mds_cursor,       \* the cursor in memory
  pj_lastxid, pj_nextwrite, pj_current_txg, pj_pendingxids, pj_distillxids,
  pj_distill_xid, pj_commit_txg, pj_replay_xid,
  dist,             \* the distill thread: [at, h]
  rep,              \* the replay: [at, todo, e, txg]
  pc, kind, txg, xid, etxg, slot,   \* per operation
  crashes

dvars == << disk, done, recl, curfile >>
zvars == << synced, open_txg, tx_open, cursor, mds_cursor >>
jvars == << pj_lastxid, pj_nextwrite, pj_current_txg, pj_pendingxids,
            pj_distillxids, pj_distill_xid, pj_commit_txg, pj_replay_xid, dist >>
ovars == << pc, kind, txg, xid, etxg, slot >>
vars == << dvars, zvars, jvars, rep, ovars, crashes >>

Slot == 0 .. Total - 1
MaxOf(S) == CHOOSE m \in S : \A n \in S : n <= m

\* What a slot holds: an entry, the mark of slmkjrnl, or a torn write.
Format == [type |-> "format", xid |-> 0, txg |-> 0, op |-> NoOp, distill |-> FALSE]
Bad == [Format EXCEPT !.type = "bad"]
Entry(x, g, o, d) == [type |-> "normal", xid |-> x, txg |-> g, op |-> o, distill |-> d]

Idle == [at |-> "scan", xid |-> 0, op |-> NoOp]
Off == [at |-> "off", todo |-> {}, e |-> Format, txg |-> 0]

Init ==
  /\ disk = [s \in Slot |-> Format]
  /\ done = [o \in Op |-> 0] /\ recl = {}
  /\ mds_cursor = [commit_txg |-> 0, replay_xid |-> 0]
  /\ curfile = {[txg |-> 0, cur |-> [commit_txg |-> 0, replay_xid |-> 0]]}
  /\ synced = 0 /\ open_txg = 1 /\ tx_open = FALSE
  /\ cursor = [at |-> "idle", txg |-> 0]
  /\ pj_lastxid = 0 /\ pj_nextwrite = 0 /\ pj_current_txg = 0
  /\ pj_pendingxids = <<>> /\ pj_distillxids = <<>>
  /\ pj_distill_xid = 0 /\ pj_commit_txg = 0 /\ pj_replay_xid = 0
  /\ dist = Idle /\ rep = Off
  /\ pc = [o \in Op |-> "idle"] /\ kind = [o \in Op |-> "none"]
  /\ txg = [o \in Op |-> 0] /\ xid = [o \in Op |-> 0]
  /\ etxg = [o \in Op |-> 0] /\ slot = [o \in Op |-> 0]
  /\ crashes = 0

REPLAYINPROG == rep.at # "off"
Running == {o \in Op : pc[o] \notin {"idle", "acked", "dead"}}
InTx(o) == kind[o] \in {"ns", "unlink"}

------------------------------------------------------------------------------
\* An operation starts when the server is up and a slot can be reserved
\* (pjournal_reserve_slot).
Start(o, k) ==
  /\ pc[o] = "idle" /\ ~REPLAYINPROG
  /\ Cardinality(Running) + Len(pj_pendingxids) < Total
  /\ kind' = [kind EXCEPT ![o] = k]
  /\ pc' = [pc EXCEPT ![o] = IF k = "free" THEN "xnew" ELSE "check"]
  /\ UNCHANGED << dvars, zvars, jvars, rep, txg, xid, etxg, slot, crashes >>

\* dmu_tx_try_assign: the transaction waits for the cursor's, then joins the
\* group open by now and makes its change.
TxCheck(o) ==
  /\ pc[o] = "check" /\ tx_open
  /\ pc' = [pc EXCEPT ![o] = "hold"]
  /\ UNCHANGED << dvars, zvars, jvars, rep, kind, txg, xid, etxg, slot, crashes >>
TxHold(o) ==
  /\ pc[o] = "hold"
  /\ done' = [done EXCEPT ![o] = open_txg]
  /\ txg' = [txg EXCEPT ![o] = IF InTx(o) THEN open_txg ELSE 0]
  /\ pc' = [pc EXCEPT ![o] = IF kind[o] = "free" THEN "acked" ELSE "xnew"]
  /\ UNCHANGED << disk, recl, curfile, zvars, jvars, rep, kind, xid, etxg, slot,
       crashes >>

\* Mutant: every entry gets the txg of the journal.
EntryTxgCurrent(o) == pj_current_txg

\* pjournal_xnew
EntryTxg(o) == IF txg[o] = 0 THEN pj_current_txg ELSE txg[o]
Xnew(o) ==
  /\ pc[o] = "xnew"
  /\ pj_lastxid' = pj_lastxid + 1
  /\ xid' = [xid EXCEPT ![o] = pj_lastxid + 1]
  /\ etxg' = [etxg EXCEPT ![o] = EntryTxg(o)]
  /\ pj_distillxids' = IF kind[o] = "unlink" THEN Append(pj_distillxids, o)
                       ELSE pj_distillxids
  /\ pc' = [pc EXCEPT ![o] = "logwrite"]
  /\ UNCHANGED << dvars, zvars, pj_nextwrite, pj_current_txg, pj_pendingxids,
       pj_distill_xid, pj_commit_txg, pj_replay_xid, dist, rep, kind, txg, slot,
       crashes >>

\* pjournal_logwrite: the slot, under the write lock ...
NextSlot(o) ==
  /\ pc[o] = "logwrite" /\ \A p \in Op : pc[p] # "io"
  /\ slot' = [slot EXCEPT ![o] = pj_nextwrite]
  /\ pj_nextwrite' = (pj_nextwrite + 1) % Total
  /\ pj_pendingxids' = Append(pj_pendingxids,
       [op |-> o, xid |-> xid[o], txg |-> etxg[o], distill |-> kind[o] = "unlink"])
  /\ pc' = [pc EXCEPT ![o] = "io"]
  /\ UNCHANGED << dvars, zvars, pj_lastxid, pj_current_txg, pj_distillxids,
       pj_distill_xid, pj_commit_txg, pj_replay_xid, dist, rep, kind, txg, xid,
       etxg, crashes >>

\* ... and the write.  What follows in the caller: the transaction of an entry
\* logged inside one commits; the item of a lease is freed.
Logged(o) == Entry(xid[o], etxg[o], o, kind[o] = "unlink")
LogWritten(o) ==
  /\ pc[o] = "io"
  /\ disk' = [disk EXCEPT ![slot[o]] = Logged(o)]
  /\ pc' = [pc EXCEPT ![o] = CASE InTx(o) -> "commit"
                               [] kind[o] = "assign" -> "acked"
                               [] kind[o] = "free" -> "check"]
  /\ UNCHANGED << done, recl, curfile, zvars, jvars, rep, kind, txg, xid, etxg,
       slot, crashes >>

\* dmu_tx_commit; the operation is answered.
Commit(o) ==
  /\ pc[o] = "commit"
  /\ txg' = [txg EXCEPT ![o] = 0]
  /\ pc' = [pc EXCEPT ![o] = "acked"]
  /\ UNCHANGED << dvars, zvars, jvars, rep, kind, xid, etxg, slot, crashes >>

------------------------------------------------------------------------------
\* Mutant: any entry that is written is distilled, whatever comes before it.
DistillTakeAny ==
  /\ dist.at = "scan" /\ tx_open
  /\ \E i \in DOMAIN pj_distillxids :
       LET o == pj_distillxids[i]
       IN /\ pc[o] \in {"commit", "acked"}
          /\ dist' = [at |-> "hold", xid |-> xid[o], op |-> o]
          /\ pj_distillxids' = SubSeq(pj_distillxids, 1, i - 1)
               \o SubSeq(pj_distillxids, i + 1, Len(pj_distillxids))
  /\ UNCHANGED << dvars, zvars, pj_lastxid, pj_nextwrite, pj_current_txg,
       pj_pendingxids, pj_distill_xid, pj_commit_txg, pj_replay_xid, rep, ovars,
       crashes >>

\* pjournal_thr_main: the first entry to be distilled, once it is written.
DistillReady == /\ dist.at = "scan" /\ pj_distillxids # <<>>
                /\ pc[Head(pj_distillxids)] \in {"commit", "acked"}
DistillTake ==
  /\ DistillReady /\ tx_open
  /\ LET o == Head(pj_distillxids)
     IN dist' = [at |-> "hold", xid |-> xid[o], op |-> o]
  /\ pj_distillxids' = Tail(pj_distillxids)
  /\ UNCHANGED << dvars, zvars, pj_lastxid, pj_nextwrite, pj_current_txg,
       pj_pendingxids, pj_distill_xid, pj_commit_txg, pj_replay_xid, rep, ovars,
       crashes >>

\* mds_write_logentry
WriteLogentry(o, x) == recl' = recl \union {[op |-> o, xid |-> x, txg |-> open_txg]}

DistillHandler ==
  /\ dist.at = "hold"
  /\ WriteLogentry(dist.op, dist.xid)
  /\ dist' = [dist EXCEPT !.at = "done"]
  /\ UNCHANGED << disk, done, curfile, zvars, pj_lastxid, pj_nextwrite,
       pj_current_txg, pj_pendingxids, pj_distillxids, pj_distill_xid,
       pj_commit_txg, pj_replay_xid, rep, ovars, crashes >>
DistillDone ==
  /\ dist.at = "done"
  /\ pj_pendingxids' =
       [i \in DOMAIN pj_pendingxids |->
          IF pj_pendingxids[i].xid # dist.xid THEN pj_pendingxids[i]
          ELSE [pj_pendingxids[i] EXCEPT
                  !.txg = MaxOf({@, pj_current_txg + 1}), !.distill = FALSE]]
  /\ dist' = Idle
  /\ UNCHANGED << dvars, zvars, pj_lastxid, pj_nextwrite, pj_current_txg,
       pj_distillxids, pj_distill_xid, pj_commit_txg, pj_replay_xid, rep, ovars,
       crashes >>

\* The oldest entry is given up (pjournal_thr_main, pjournal_reserve_slot).
Reclaimable(h) == h.txg <= synced /\ ~h.distill
Reclaim ==
  /\ pj_pendingxids # <<>> /\ Reclaimable(Head(pj_pendingxids))
  /\ pj_pendingxids' = Tail(pj_pendingxids)
  /\ UNCHANGED << dvars, zvars, pj_lastxid, pj_nextwrite, pj_current_txg,
       pj_distillxids, pj_distill_xid, pj_commit_txg, pj_replay_xid, dist, rep,
       ovars, crashes >>

------------------------------------------------------------------------------
\* The cursor thread, as in Journal, with what it writes.
CursorNeeded ==
  \/ \E o \in Op : pc[o] \in {"check", "hold"} \/ txg[o] # 0
  \/ DistillReady \/ dist.at = "hold"
  \/ rep.at \in {"dcheck", "dhold", "rcheck", "rhold"}
CursorAssign ==
  /\ cursor.at = "idle" /\ CursorNeeded
  /\ cursor' = [cursor EXCEPT !.at = "opening"]
  /\ tx_open' = TRUE
  /\ UNCHANGED << dvars, synced, open_txg, mds_cursor, jvars, rep, ovars, crashes >>
CursorHold ==
  /\ cursor.at = "opening"
  /\ cursor' = [at |-> "assigned", txg |-> open_txg]
  /\ UNCHANGED << dvars, synced, open_txg, tx_open, mds_cursor, jvars, rep, ovars,
       crashes >>
CursorStart ==
  /\ cursor.at = "assigned"
  /\ cursor' = [cursor EXCEPT !.at = "open"]
  /\ pj_current_txg' = cursor.txg
  /\ UNCHANGED << dvars, synced, open_txg, tx_open, mds_cursor, pj_lastxid,
       pj_nextwrite, pj_pendingxids, pj_distillxids, pj_distill_xid,
       pj_commit_txg, pj_replay_xid, dist, rep, ovars, crashes >>

\* mds_update_cursor, called when the group has been closed.  During a replay
\* it sleeps first, long enough for the replay to record the xid it is at.
CursorEnd ==
  /\ cursor.at = "open" /\ ~tx_open /\ rep.at # "advance"
  /\ mds_cursor' = IF REPLAYINPROG
                   THEN [mds_cursor EXCEPT !.replay_xid = pj_replay_xid]
                   ELSE [mds_cursor EXCEPT !.commit_txg = cursor.txg]
  /\ curfile' = curfile \union {[txg |-> cursor.txg, cur |-> mds_cursor']}
  /\ cursor' = [at |-> "idle", txg |-> 0]
  /\ UNCHANGED << disk, done, recl, synced, open_txg, tx_open, jvars, rep, ovars,
       crashes >>

UsedTxgs == {done[o] : o \in Op} \union {r.txg : r \in recl}
            \union {pj_pendingxids[i].txg : i \in DOMAIN pj_pendingxids}
TxgQuiesce ==
  /\ open_txg <= MaxTxg \/ open_txg \in UsedTxgs
     \/ (rep.at = "wait" /\ open_txg <= rep.txg)
  /\ open_txg <= synced + 2
  /\ open_txg' = open_txg + 1
  /\ tx_open' = FALSE
  /\ UNCHANGED << dvars, synced, cursor, mds_cursor, jvars, rep, ovars, crashes >>

\* Older contents of the cursor file are overwritten.
TxgSync ==
  /\ synced + 1 < open_txg /\ cursor.txg # synced + 1
  /\ \A o \in Op : txg[o] # synced + 1
  /\ synced' = synced + 1
  /\ curfile' = IF \E c \in curfile : c.txg = synced + 1
                THEN {c \in curfile : c.txg > synced} ELSE curfile
  /\ UNCHANGED << disk, done, recl, open_txg, tx_open, cursor, mds_cursor, jvars,
       rep, ovars, crashes >>

------------------------------------------------------------------------------
\* What a restart finds: ZFS as of the last synced group.
SyncedCursor == (CHOOSE c \in curfile : /\ c.txg <= synced
                   /\ \A d \in curfile : d.txg <= synced => d.txg <= c.txg).cur
SyncedRecl == {r \in recl : r.txg <= synced}
\* the xid of the last record of the last reclaim log
LastDistillXid == MaxOf({r.xid : r \in SyncedRecl} \union {0})

\* pjournal_scan_slots, on the slots in dk: scanning stops at the first slot
\* never written; torn entries are passed over.
Scanned(dk) == {dk[s] : s \in {t \in Slot :
                  dk[t].type = "normal" /\ \A u \in 0 .. t : dk[u].type # "format"}}

LastXid(dk) == MaxOf({e.xid : e \in Scanned(dk)} \union {LastDistillXid})

Kept(dk) == {e \in Scanned(dk) :
  /\ e.xid > SyncedCursor.replay_xid
  /\ ~(~e.distill /\ e.txg <= SyncedCursor.commit_txg)
  /\ ~(e.distill /\ e.txg <= SyncedCursor.commit_txg /\ e.xid <= LastDistillXid)}

\* A crash, and the restart up to the replay of the first entry (mds_journal_init,
\* mds_open_cursor, pjournal_open, pjournal_scan_slots).
Crash ==
  /\ crashes < MaxCrash
  /\ crashes' = crashes + 1
  /\ \E dk \in {disk} \union
         UNION {{[disk EXCEPT ![slot[o]] = Logged(o)]}
                \union (IF Torn THEN {[disk EXCEPT ![slot[o]] = Bad]} ELSE {})
                : o \in {p \in Op : pc[p] = "io"}} :
       /\ disk' = dk
       /\ pj_lastxid' = LastXid(dk)
       /\ rep' = [at |-> "next", todo |-> Kept(dk), e |-> Format, txg |-> 0]
  /\ done' = [o \in Op |-> IF done[o] <= synced THEN done[o] ELSE 0]
  /\ recl' = SyncedRecl
  /\ curfile' = {[txg |-> synced, cur |-> SyncedCursor]}
  /\ mds_cursor' = SyncedCursor
  /\ pj_distill_xid' = LastDistillXid
  /\ pj_commit_txg' = SyncedCursor.commit_txg
  /\ pj_replay_xid' = SyncedCursor.replay_xid
  /\ open_txg' = synced + 1 /\ tx_open' = FALSE
  /\ cursor' = [at |-> "idle", txg |-> 0]
  /\ pj_nextwrite' = 0 /\ pj_current_txg' = 0
  /\ pj_pendingxids' = <<>> /\ pj_distillxids' = <<>> /\ dist' = Idle
  /\ pc' = [o \in Op |-> IF o \in Running THEN "dead" ELSE pc[o]]
  /\ kind' = [o \in Op |-> IF o \in Running THEN "none" ELSE kind[o]]
  /\ txg' = [o \in Op |-> 0] /\ etxg' = [o \in Op |-> 0]
  /\ slot' = [o \in Op |-> 0] /\ xid' = [o \in Op |-> 0]
  /\ UNCHANGED synced

------------------------------------------------------------------------------
\* pjournal_replay, one entry at a time in xid order: its record is distilled
\* again if it may be missing, and the operation is replayed if its txg was not
\* synced, each in a transaction of its own.
ReplayNext ==
  /\ rep.at = "next" /\ rep.todo # {}
  /\ LET e == CHOOSE f \in rep.todo : \A g \in rep.todo : f.xid <= g.xid
     IN rep' = [rep EXCEPT !.e = e, !.todo = @ \ {e},
                  !.at = IF e.distill /\ e.xid > pj_distill_xid THEN "dcheck"
                         ELSE IF e.txg > pj_commit_txg THEN "rcheck"
                         ELSE "advance"]
  /\ UNCHANGED << dvars, zvars, jvars, ovars, crashes >>
ReplayCheck ==
  /\ rep.at \in {"dcheck", "rcheck"} /\ tx_open
  /\ rep' = [rep EXCEPT !.at = IF @ = "dcheck" THEN "dhold" ELSE "rhold"]
  /\ UNCHANGED << dvars, zvars, jvars, ovars, crashes >>
ReplayDistill ==
  /\ rep.at = "dhold"
  /\ WriteLogentry(rep.e.op, rep.e.xid)
  /\ rep' = [rep EXCEPT !.at = IF rep.e.txg > pj_commit_txg THEN "rcheck"
                               ELSE "advance"]
  /\ UNCHANGED << disk, done, curfile, zvars, jvars, ovars, crashes >>
\* mds_replay_handler; a change that is there already stays (the error is only
\* counted).
ReplayHandler ==
  /\ rep.at = "rhold"
  /\ done' = [done EXCEPT ![rep.e.op] = IF @ = 0 THEN open_txg ELSE @]
  /\ rep' = [rep EXCEPT !.at = "advance"]
  /\ UNCHANGED << disk, recl, curfile, zvars, jvars, ovars, crashes >>
ReplayAdvance ==
  /\ rep.at = "advance"
  /\ pj_replay_xid' = rep.e.xid
  /\ rep' = [rep EXCEPT !.at = "next"]
  /\ UNCHANGED << dvars, zvars, pj_lastxid, pj_nextwrite, pj_current_txg,
       pj_pendingxids, pj_distillxids, pj_distill_xid, pj_commit_txg, dist, ovars,
       crashes >>

\* zfsslash2_wait_synced(0) waits for TXG_DEFER_SIZE groups more than the open
\* one; then the journal starts over at slot 0.
TXG_DEFER_SIZE == 2
ReplayWait ==
  /\ rep.at = "next" /\ rep.todo = {}
  /\ rep' = [rep EXCEPT !.at = "wait", !.e = Format,
                        !.txg = open_txg + TXG_DEFER_SIZE]
  /\ UNCHANGED << dvars, zvars, jvars, ovars, crashes >>
ReplayDone ==
  /\ rep.at = "wait" /\ rep.txg <= synced
  /\ rep' = Off
  /\ pj_nextwrite' = 0
  /\ UNCHANGED << dvars, zvars, pj_lastxid, pj_current_txg, pj_pendingxids,
       pj_distillxids, pj_distill_xid, pj_commit_txg, pj_replay_xid, dist, ovars,
       crashes >>

------------------------------------------------------------------------------
OpStep(o) == TxCheck(o) \/ TxHold(o) \/ Xnew(o) \/ NextSlot(o) \/ LogWritten(o)
             \/ Commit(o)
DistillStep == DistillTake \/ DistillHandler \/ DistillDone
CursorStep == CursorAssign \/ CursorHold \/ CursorStart \/ CursorEnd
ReplayStep == ReplayNext \/ ReplayCheck \/ ReplayDistill \/ ReplayHandler
              \/ ReplayAdvance \/ ReplayWait \/ ReplayDone
Next ==
  \/ \E o \in Op, k \in Kinds : Start(o, k)
  \/ \E o \in Op : OpStep(o)
  \/ DistillStep \/ Reclaim \/ CursorStep \/ TxgQuiesce \/ TxgSync
  \/ Crash \/ ReplayStep

Spec == Init /\ [][Next]_vars

------------------------------------------------------------------------------
\* A crash at this moment would not lose operation o: its change is synced, or
\* its entry would be replayed.
Durable(o) ==
  \/ done[o] \in 1 .. synced
  \/ \E e \in Kept(disk) : e.op = o /\ e.txg > SyncedCursor.commit_txg

\* Nor its reclaim record.
RecordDurable(o) ==
  \/ \E r \in SyncedRecl : r.op = o
  \/ \E e \in Kept(disk) : e.op = o /\ e.xid > LastDistillXid

Acked == {o \in Op : pc[o] = "acked"}

\* Write-ahead logging: outside recovery, an operation that is logged in its ZFS
\* transaction and has been answered survives a crash at any moment.
AckedDurable ==
  ~REPLAYINPROG => \A o \in Acked : kind[o] \in {"ns", "unlink"} => Durable(o)

\* ... and so does the record that tells I/O servers to reclaim its file.
ReclaimDurable ==
  ~REPLAYINPROG => \A o \in Acked : kind[o] = "unlink" => RecordDurable(o)

\* "Make the current replay in effect.  Otherwise, a crash may lose previous
\* work.": a crash during recovery loses nothing either.
RecoveryDurable == \A o \in Acked : Durable(o)

\* "this field tells us exactly if we should apply a log entry.  And we can
\* expect success if we do": what is replayed is not in ZFS yet.
ReplayOnlyLost == rep.at = "rhold" => done[rep.e.op] = 0

\* "the txg obtained this way may be one larger than the actual txg": the txg
\* of an entry logged outside ZFS is not smaller than that of its change.
OutsideTxgCovers ==
  \A o \in Acked : kind[o] \in {"assign", "free"} => etxg[o] >= done[o]

\* "Start a new transaction with a unique ID": a new xid is above all that have
\* been replayed.  It is not when a log write is torn after a recovery.
XidsUnique == [][\A o \in Op : pc[o] = "xnew" /\ pc'[o] = "logwrite"
                   => xid'[o] > pj_replay_xid]_vars
==============================================================================
