---------------------------- MODULE RecoveryProofs ----------------------------
(***************************************************************************)
(* The rest of the argument of RecoveryInv: a new entry takes a slot and   *)
(* is written, a crash starts a replay, and the replay redoes what the     *)
(* crash took away.                                                        *)
(***************************************************************************)
EXTENDS RecoveryInv

\* pjournal_next_slot: the window grows by the slot that the entry gets.
LEMMA StepNextSlot == ASSUME IInv, NEW o \in Op, NextSlot(o) PROVE IInv'
<1> USE DEF IInv
<1> DEFINE n == Len(pj_pendingxids)
           h == [op |-> o, xid |-> xid[o], txg |-> etxg[o],
                 distill |-> kind[o] = "unlink"]
           s == pj_pendingxids
           t == pj_pendingxids'
<1>0. /\ pc[o] = "logwrite" /\ \A p \in Op : pc[p] # "io"
      /\ pj_nextwrite' = (pj_nextwrite + 1) % Total /\ t = Append(s, h)
      /\ UNCHANGED << disk, done, recl, curfile, synced, open_txg, cursor, mds_cursor,
           pj_lastxid, pj_current_txg, pj_distillxids, pj_commit_txg, pj_replay_xid,
           dist, rep, kind, txg, xid, etxg >>
  BY Zenon DEF NextSlot, dvars, zvars
<1>1. /\ pc' \in [Op -> Positions] /\ slot' \in [Op -> Slot]
      /\ pc'[o] = "io" /\ slot'[o] = pj_nextwrite
      /\ \A p \in Op : p # o => pc'[p] = pc[p] /\ slot'[p] = slot[p]
  BY Zenon DEF NextSlot, Types, OpTypes, JournalTypes, Positions
<1>2. h \in Handle /\ h.op = o /\ h.txg = etxg[o]
  BY Zenon DEF Types, OpTypes, Handle
<1>3. pj_nextwrite \in Slot /\ pj_nextwrite' = Wrap(pj_nextwrite + 1)
      /\ pj_nextwrite' \in Slot
  BY Zenon, <1>0, NextIsWrap DEF Types, JournalTypes
<1> HIDE DEF h
<1>4. /\ s \in Seq(Handle) /\ n \in Nat /\ t \in Seq(Handle) /\ Len(t) = n + 1
      /\ (\A i \in 1 .. n : t[i] = s[i]) /\ t[n + 1] = h
  BY <1>0, <1>2, SeqAppend DEF Types, JournalTypes
<1>5. ~REPLAYINPROG BY Zenon, <1>0, OutsideReplay
<1>6. DiskTypes' /\ ZfsTypes' BY Zenon, <1>0 DEF Types, DiskTypes, ZfsTypes
<1>7. JournalTypes' BY Zenon, <1>0, <1>3, <1>4 DEF Types, JournalTypes
<1>8. OpTypes' BY Zenon, <1>0, <1>1 DEF Types, OpTypes
<1>9. RepTypes' /\ Replay' /\ ~REPLAYINPROG' BY Zenon, <1>0, <1>5, ReplayFrame DEF Types
<1>10. Groups' /\ CursorFile' BY Zenon, <1>0, <1>9 DEF Groups, CursorFile
<1>11. (\A p \in Op : Place(p))' BY Zenon, <1>0, <1>1, <1>9 DEF Place, InTx
<1>12. ~IsPending(o) BY Zenon, <1>0, NotPending DEF LogInv, HasLogged
<1>13. Room' /\ n < Total
  <2>1. IsFiniteSet(ToLog) BY Zenon, OpAssumption, FS_Subset DEF ToLog
  <2>2. o \in ToLog /\ ToLog' = ToLog \ {o} BY Zenon, <1>0, <1>1 DEF ToLog
  <2>3. /\ Cardinality(ToLog) \in Nat /\ Cardinality(ToLog') \in Nat
        /\ Cardinality(ToLog') = Cardinality(ToLog) - 1
    BY Zenon, <2>1, <2>2, FS_RemoveElement, FS_CardinalityType
  <2> HIDE DEF ToLog
  <2> QED BY <1>4, <2>3, SizesAssumption DEF LogInv, Room
<1>14. Window'
  <2>1. ASSUME NEW i \in 1 .. n + 1
        PROVE  pj_nextwrite' = Wrap(slot'[t[i].op] + (n + 1 - i + 1))
    <3>1. CASE i = n + 1
      <4>1. n + 1 - i + 1 = 1 BY <1>4, <3>1
      <4> QED BY Zenon, <1>1, <1>2, <1>3, <1>4, <3>1, <4>1
    <3>2. CASE i \in 1 .. n
      <4>1. s[i].op \in Op /\ s[i].op # o
        BY Zenon, <1>12, <3>2, PendingOp DEF Types, IsPending
      <4>2. slot[s[i].op] \in Slot BY Zenon, <4>1 DEF Types, OpTypes
      <4>3. pj_nextwrite = Wrap(slot[s[i].op] + (n - i + 1))
        BY Zenon, <3>2 DEF LogInv, Window
      <4>4. /\ n - i + 1 \in Nat /\ n - i + 1 < Total
            /\ n + 1 - i + 1 = (n - i + 1) + 1
        BY SMTT(30), <1>4, <1>13, <3>2, SizesAssumption
      <4>5. Wrap(pj_nextwrite + 1) = Wrap(slot[s[i].op] + ((n - i + 1) + 1))
        BY Zenon, <4>2, <4>3, <4>4, WrapNext
      <4> QED BY Zenon, <1>1, <1>3, <1>4, <3>2, <4>1, <4>4, <4>5
    <3> QED BY <1>4, <2>1, <3>1, <3>2
  <2> QED BY SMTT(30), <1>4, <2>1 DEF Window, Wrap
<1>15. Writer'
  <2>1. \A u \in Slot : u < pj_nextwrite => disk[u].type # "format"
    BY Zenon, <1>0 DEF LogInv, Fresh
  <2>2. \A p \in Op : pc'[p] = "io" => p = o BY Zenon, <1>0, <1>1
  <2>3. t[Len(t)].op = o BY Zenon, <1>2, <1>4
  <2> QED BY Zenon, <1>0, <1>1, <1>3, <2>1, <2>2, <2>3 DEF Writer, Wrap
<1>16. FormatLast(disk)' /\ Fresh'
  <2>1. FormatLast(disk)' BY Zenon, <1>0 DEF LogInv, FormatLast
  <2>2. \A u \in Slot : u < pj_nextwrite' => u < pj_nextwrite \/ u = pj_nextwrite
    BY <1>3, SizesAssumption DEF Wrap, Slot
  <2>3. Fresh' BY Zenon, <1>0, <1>1, <2>2 DEF LogInv, Fresh
  <2> QED BY Zenon, <2>1, <2>3
<1>17. OnDisk'
  <2> SUFFICES ASSUME NEW i \in 1 .. n + 1, NEW p \in Op, p = t[i].op
               PROVE  /\ HasLogged(p)'
                      /\ pc'[p] # "io" => disk[slot'[p]] = Logged(p)'
                      /\ etxg[p] <= t[i].txg
    <3>1. ASSUME NEW i \in 1 .. n + 1 PROVE t[i].op \in Op
      <4>1. i \in 1 .. Len(t) BY Zenon, <1>4
      <4>2. t[i] \in Handle BY Zenon, <1>4, <4>1, SeqElement
      <4> QED BY Zenon, <4>2 DEF Handle
    <3> QED BY Zenon, <1>0, <1>4, <3>1 DEF OnDisk
  <2>1. CASE i = n + 1
    BY <1>1, <1>2, <1>4, <2>1 DEF HasLogged, Types, OpTypes
  <2>2. CASE i \in 1 .. n
    <3>1. t[i] = s[i] /\ p # o BY Zenon, <1>4, <1>12, <2>2 DEF IsPending
    <3>2. /\ HasLogged(p) /\ (pc[p] # "io" => disk[slot[p]] = Logged(p))
          /\ etxg[p] <= s[i].txg
      BY Zenon, <2>2, <3>1 DEF LogInv, OnDisk
    <3>3. HasLogged(p)' /\ Logged(p)' = Logged(p)
      BY Zenon, <1>0, <1>1, <3>1, <3>2 DEF HasLogged, Logged, Entry
    <3> QED BY Zenon, <1>1, <3>1, <3>2, <3>3
  <2> QED BY <1>4, <2>1, <2>2
<1>18. InUse'
  <2>1. \A p \in Op : IsPending(p) => IsPending(p)'
    BY <1>4 DEF IsPending
  <2>2. IsPending(o)'
    <3>1. n + 1 \in 1 .. Len(t) /\ t[n + 1].op = o BY <1>2, <1>4
    <3> QED BY Zenon, <3>1 DEF IsPending
  <2> QED BY Zenon, <1>0, <1>1, <2>1, <2>2 DEF LogInv, InUse, InTx
<1>19. Xids' BY Zenon, <1>0 DEF Xids, DiskXids
<1>20. Replayed' BY Zenon, <1>0, <1>9 DEF Replayed, Seen
<1>21. Settled' BY Zenon, <1>0, <1>1, <1>5, <1>9 DEF Settled, Answered, InTx
<1>22. LogInv' BY Zenon, <1>13, <1>14, <1>15, <1>16, <1>17, <1>18 DEF LogInv
<1> QED BY Zenon, <1>6, <1>7, <1>8, <1>9, <1>10, <1>11, <1>19, <1>20, <1>21, <1>22 DEF Types

\* pjournal_logwrite is done: the entry overwrites none that is in use.
LEMMA StepLogWritten == ASSUME IInv, NEW o \in Op, LogWritten(o) PROVE IInv'
<1> USE DEF IInv
<1>0. /\ pc[o] = "io" /\ disk' = [disk EXCEPT ![slot[o]] = Logged(o)]
      /\ UNCHANGED << done, recl, curfile, synced, open_txg, cursor, mds_cursor,
           pj_lastxid, pj_nextwrite, pj_current_txg, pj_pendingxids, pj_distillxids,
           pj_commit_txg, pj_replay_xid, dist, rep, kind, txg, xid, etxg, slot >>
  BY Zenon DEF LogWritten, zvars, jvars
<1>1. /\ pc' \in [Op -> Positions]
      /\ pc'[o] \in {"commit", "acked", "check"}
      /\ InTx(o) => pc'[o] = "commit"
      /\ pc'[o] = "commit" => InTx(o)
      /\ pc'[o] = "check" => kind[o] = "free"
      /\ \A p \in Op : p # o => pc'[p] = pc[p]
  <2>1. kind[o] \in AllKinds BY Zenon, <1>0 DEF Place, Types, OpTypes
  <2> QED BY Zenon, <2>1 DEF LogWritten, Types, OpTypes, Positions, InTx, AllKinds
<1>2. /\ disk' \in [Slot -> EntryRec] /\ FormatLast(disk') /\ DiskXids(disk')
      /\ disk'[slot[o]] = Logged(o)
      /\ \A s \in Slot : s # slot[o] => disk'[s] = disk[s]
      /\ \A x \in Nat : Seen(disk, x) /\ x < xid[o] => Seen(disk', x)
  BY Zenon, <1>0, WrittenDisk
<1>3. ~REPLAYINPROG BY Zenon, <1>0, OutsideReplay
<1>4. DiskTypes' /\ ZfsTypes' BY Zenon, <1>0, <1>2 DEF Types, DiskTypes, ZfsTypes
<1>5. JournalTypes' BY Zenon, <1>0 DEF Types, JournalTypes
<1>6. OpTypes' BY Zenon, <1>0, <1>1 DEF Types, OpTypes
<1>7. RepTypes' /\ Replay' /\ ~REPLAYINPROG' BY Zenon, <1>0, <1>3, ReplayFrame DEF Types
<1>8. Groups' /\ CursorFile' BY Zenon, <1>0, <1>7 DEF Groups, CursorFile
<1>9. (\A p \in Op : Place(p))' BY Zenon, <1>0, <1>1, <1>7 DEF Place, InTx
<1>10. \A p \in Op : pc'[p] # "io" BY Zenon, <1>0, <1>1 DEF LogInv, Writer
<1>11. Window' BY Zenon, <1>0 DEF LogInv, Window, Wrap
<1>12. Room'
  <2>1. ToLog' \subseteq ToLog BY Zenon, <1>0, <1>1 DEF ToLog
  <2> QED BY Zenon, <1>0, <2>1, RoomKept DEF Types, LogInv
<1>13. Writer' BY Zenon, <1>10 DEF Writer
<1>14. FormatLast(disk)' /\ Fresh'
  <2>1. Fresh'
    <3> SUFFICES ASSUME NEW s \in Slot, s < pj_nextwrite, disk'[s].type = "format"
                 PROVE  FALSE
      BY Zenon, <1>0 DEF Fresh
    <3>1. s # slot[o] BY <1>2 DEF Logged, Entry
    <3>2. \A p \in Op : pc[p] = "io" => p = o BY Zenon, <1>0 DEF LogInv, Writer
    <3> QED BY Zenon, <1>2, <3>1, <3>2 DEF LogInv, Fresh
  <2> QED BY Zenon, <1>2, <2>1 DEF FormatLast
<1>15. OnDisk'
  <2> SUFFICES ASSUME NEW i \in 1 .. Len(pj_pendingxids), NEW p \in Op,
                      p = pj_pendingxids[i].op
               PROVE  /\ HasLogged(p)' /\ disk'[slot[p]] = Logged(p)'
                      /\ etxg[p] <= pj_pendingxids[i].txg
    BY Zenon, <1>0, PendingOp DEF OnDisk, Types
  <2>1. /\ HasLogged(p) /\ (pc[p] # "io" => disk[slot[p]] = Logged(p))
        /\ etxg[p] <= pj_pendingxids[i].txg
    BY Zenon DEF LogInv, OnDisk
  <2>2. HasLogged(p)' BY Zenon, <1>0, <1>1, <2>1 DEF HasLogged
  <2>3. Logged(p)' = Logged(p) BY Zenon, <1>0 DEF Logged, Entry
  <2>4. CASE p = o BY Zenon, <1>2, <2>1, <2>2, <2>3, <2>4
  <2>5. CASE p # o
    <3>1. slot[p] # slot[o] /\ slot[p] \in Slot
      BY Zenon, <1>0, <2>5, Apart DEF Types, LogInv, OpTypes
    <3>2. pc[p] # "io" BY Zenon, <1>0, <2>5 DEF LogInv, Writer
    <3> QED BY Zenon, <1>2, <2>1, <2>2, <2>3, <3>1, <3>2
  <2> QED BY Zenon, <2>4, <2>5
<1>16. InUse' BY Zenon, <1>0, <1>1 DEF LogInv, InUse, IsPending, InTx
<1>17. LogInv' BY Zenon, <1>11, <1>12, <1>13, <1>14, <1>15, <1>16 DEF LogInv
<1>18. Xids' BY Zenon, <1>0, <1>2 DEF Xids, DiskXids
<1>19. Replayed'
  <2>1. xid[o] # 0 BY Zenon, <1>0 DEF Place
  <2>2. mds_cursor.replay_xid \in Nat /\ \A c \in curfile : c.cur.replay_xid \in Nat
    BY Zenon DEF Types, DiskTypes, ZfsTypes, Cur
  <2>3. /\ Seen(disk', mds_cursor.replay_xid)
        /\ \A c \in curfile : Seen(disk', c.cur.replay_xid)
    BY Zenon, <1>2, <2>1, <2>2 DEF Replayed
  <2> QED BY Zenon, <1>0, <1>7, <2>3 DEF Replayed, Seen
<1>20. Settled'
  <2>1. xid[o] # 0 BY <1>0 DEF Place
  <2> QED BY Zenon, <1>0, <1>1, <1>3, <1>7, <2>1 DEF Settled, Answered, InTx
<1> QED BY Zenon, <1>4, <1>5, <1>6, <1>7, <1>8, <1>9, <1>17, <1>18, <1>19, <1>20 DEF Types


------------------------------------------------------------------------------
\* A crash outside a replay: the replay that follows has the entries it needs.
LEMMA StepCrash == ASSUME IInv, ~Torn, ~REPLAYINPROG, Crash PROVE IInv'
<1> USE DEF IInv
<1>1. PICK dk : /\ CrashDisk(dk) /\ disk' = dk /\ pj_lastxid' = LastXid(dk)
                /\ rep' = [at |-> "next", todo |-> Kept(dk), e |-> Format, txg |-> 0]
  BY Zenon DEF Crash, CrashDisk
<1>2. /\ done' = [o \in Op |-> IF done[o] <= synced THEN done[o] ELSE 0]
      /\ recl' = SyncedRecl /\ mds_cursor' = SyncedCursor
      /\ curfile' = {[txg |-> synced, cur |-> SyncedCursor]}
      /\ pj_commit_txg' = SyncedCursor.commit_txg
      /\ pj_replay_xid' = SyncedCursor.replay_xid
      /\ open_txg' = synced + 1 /\ cursor' = [at |-> "idle", txg |-> 0]
      /\ pj_nextwrite' = 0 /\ pj_current_txg' = 0 /\ synced' = synced
      /\ pj_pendingxids' = <<>> /\ pj_distillxids' = <<>> /\ dist' = Idle
  BY Zenon DEF Crash
<1>3. /\ pc' = [o \in Op |-> IF o \in Running THEN "dead" ELSE pc[o]]
      /\ kind' = [o \in Op |-> IF o \in Running THEN "none" ELSE kind[o]]
      /\ txg' = [o \in Op |-> 0] /\ etxg' = [o \in Op |-> 0]
      /\ slot' = [o \in Op |-> 0] /\ xid' = [o \in Op |-> 0]
  BY Zenon DEF Crash
<1>4. /\ dk \in [Slot -> EntryRec] /\ FormatLast(dk) /\ DiskXids(dk)
      /\ \A c \in curfile : Seen(dk, c.cur.replay_xid)
  BY Zenon, <1>1, CrashDiskHas
<1>5. /\ LastXid(dk) \in Nat /\ LastDistillXid <= LastXid(dk)
      /\ \A s \in Slot : dk[s].xid <= LastXid(dk)
  BY Zenon, <1>4, LastXidIs DEF Types
<1>6. PICK c \in curfile : c.txg <= synced /\ SyncedCursor = c.cur
  BY Zenon, SyncedCursorIs DEF Types
<1>7. /\ c.cur \in Cur /\ c.cur.commit_txg \in Nat /\ c.cur.replay_xid \in Nat
      /\ c.cur.commit_txg <= synced /\ Seen(dk, c.cur.replay_xid) /\ synced \in Nat
  BY <1>4, <1>6 DEF Types, DiskTypes, ZfsTypes, CursorFile, Cur
<1>8. /\ \A o \in Op : pc'[o] \in {"idle", "acked", "dead"} /\ xid'[o] = 0
      /\ \A o \in Op : pc'[o] = "acked" => pc[o] = "acked" /\ kind'[o] = kind[o]
  BY Zenon, <1>3 DEF Running, Types, OpTypes
<1>9. \A e \in Kept(dk) : e \in EntryRec /\ e.type = "normal" /\ \E s \in Slot : dk[s] = e
  BY Zenon, <1>4, ScannedAll DEF Kept
<1>10. REPLAYINPROG' /\ rep'.todo = Kept(dk) /\ rep'.at = "next"
  BY Zenon, <1>1 DEF REPLAYINPROG
<1> HIDE DEF Kept
<1>11. DiskTypes'
  <2>1. \A r \in recl' : r.xid \in Nat
    BY Zenon, <1>2 DEF Types, DiskTypes, SyncedRecl
  <2> QED BY SMTT(30), <1>1, <1>2, <1>4, <1>6, <1>7, <2>1 DEF Types, DiskTypes
<1>12. ZfsTypes' BY SMTT(30), <1>2, <1>6, <1>7 DEF ZfsTypes
<1>13. JournalTypes'
  BY SMTT(30), <1>1, <1>2, <1>5, <1>6, <1>7, SizesAssumption DEF JournalTypes, Idle, Slot
<1>14. OpTypes'
  <2>1. 0 \in Slot BY SizesAssumption DEF Slot
  <2>2. pc' \in [Op -> Positions] /\ kind' \in [Op -> AllKinds \cup {"none"}]
    BY Zenon, <1>3 DEF Types, OpTypes, Positions
  <2> QED BY Zenon, <1>3, <2>1, <2>2 DEF OpTypes
<1>15. RepTypes'
  <2>1. Format \in EntryRec BY Zenon DEF Format, EntryRec
  <2> QED BY Zenon, <1>1, <1>9, <2>1 DEF RepTypes
<1>16. Groups'
  BY SMTT(30), <1>2, <1>3, <1>7 DEF Groups, Types, DiskTypes
<1>17. CursorFile' BY <1>2, <1>6, <1>7 DEF CursorFile
<1>18. (\A o \in Op : Place(o))'
  <2>1. \A o \in Op : pc'[o] = "acked" => kind'[o] # "none"
    BY Zenon, <1>8 DEF Place
  <2> QED BY Zenon, <1>8, <2>1 DEF Place
<1>19. LogInv'
  <2>1. Window' /\ OnDisk' BY <1>2 DEF Window, OnDisk
  <2>2. Room'
    <3>1. ToLog' = {} BY Zenon, <1>8 DEF ToLog
    <3>2. Cardinality(ToLog') = 0 BY Zenon, <3>1, FS_EmptySet
    <3> QED BY <1>2, <3>2, SizesAssumption DEF Room
  <2>3. Writer' /\ InUse' BY Zenon, <1>8 DEF Writer, InUse
  <2>4. FormatLast(disk)' BY Zenon, <1>1, <1>4 DEF FormatLast
  <2>5. Fresh' BY SMTT(30), <1>2, SizesAssumption DEF Fresh, Slot
  <2> QED BY Zenon, <2>1, <2>2, <2>3, <2>4, <2>5 DEF LogInv
<1>20. Xids'
  <2>1. DiskXids(disk)' BY Zenon, <1>1, <1>4, <1>5 DEF DiskXids
  <2>2. \A r \in recl' : r.xid <= pj_lastxid'
    <3>1. LastDistillXid \in Nat /\ \A r \in SyncedRecl : r.xid <= LastDistillXid
      BY Zenon, LastDistillXidIs DEF Types
    <3>2. \A r \in SyncedRecl : r.xid \in Nat BY Zenon DEF SyncedRecl, Types, DiskTypes
    <3> QED BY <1>1, <1>2, <1>5, <3>1, <3>2
  <2>3. dist'.xid = 0 BY Zenon, <1>2 DEF Idle
  <2> QED BY SMTT(30), <1>1, <1>5, <1>8, <2>1, <2>2, <2>3 DEF Xids
<1>21. Replayed'
  BY SMTT(30), <1>1, <1>2, <1>6, <1>7, <1>8 DEF Replayed, Seen
<1>22. Replay'
  <2>1. \A e \in rep'.todo : OfDisk(e)' BY Zenon, <1>1, <1>9, <1>10 DEF OfDisk
  <2>2. ASSUME NEW o \in Op, Answered(o)'
        PROVE  done'[o] # 0 \/ \E e \in rep'.todo : Redoes(e, o)'
    <3>1. Answered(o) BY Zenon, <1>8, <2>2 DEF Answered, InTx
    <3>2. \/ done[o] \in 1 .. synced
          \/ \E e \in Kept(dk) : e.op = o /\ e.txg > SyncedCursor.commit_txg
      BY Zenon, <1>1, <3>1, CrashDurable
    <3>3. CASE done[o] \in 1 .. synced BY <1>2, <1>7, <3>3
    <3>4. CASE \E e \in Kept(dk) : e.op = o /\ e.txg > SyncedCursor.commit_txg
      BY Zenon, <1>2, <1>10, <3>4 DEF Redoes
    <3> QED BY Zenon, <3>2, <3>3, <3>4
  <2>3. pj_pendingxids' = <<>> BY Zenon, <1>2
  <2> QED BY Zenon, <1>10, <2>1, <2>2, <2>3 DEF Replay, Busy
<1>23. Settled' BY Zenon, <1>10 DEF Settled
<1> QED BY SMTT(30), <1>11, <1>12, <1>13, <1>14, <1>15, <1>16, <1>17, <1>18, <1>19, <1>20, <1>21,
           <1>22, <1>23 DEF Types

------------------------------------------------------------------------------
\* The replay.  It leaves the log and the operations alone.
LEMMA ReplayOnly ==
  ASSUME IInv, REPLAYINPROG, REPLAYINPROG', RepTypes', Replay',
         done' \in [Op -> Nat], \A o \in Op : done'[o] <= open_txg,
         pj_replay_xid' \in Nat, Seen(disk, pj_replay_xid'),
         \A r \in recl' : r.xid \in Nat /\ r.xid <= pj_lastxid,
         UNCHANGED << disk, curfile, zvars, pj_lastxid, pj_nextwrite, pj_current_txg,
           pj_pendingxids, pj_distillxids, pj_commit_txg, dist, ovars >>
  PROVE  IInv'
<1> USE DEF IInv, zvars, ovars
<1>1. DiskTypes' /\ ZfsTypes' BY Zenon DEF Types, DiskTypes, ZfsTypes
<1>2. JournalTypes' /\ OpTypes' BY Zenon DEF Types, JournalTypes, OpTypes
<1>3. Groups' BY Zenon DEF Groups
<1>4. CursorFile' BY Zenon DEF CursorFile
<1>5. (\A o \in Op : Place(o))' BY Zenon DEF Place, InTx
<1>6. LogInv'
  <2>1. synced <= synced' BY DEF Types, ZfsTypes
  <2> QED BY Zenon, <1>1, <2>1, LogFrame DEF Types
<1>7. Xids' BY Zenon DEF Xids, DiskXids
<1>8. Replayed' BY Zenon DEF Replayed, Seen
<1>9. Settled' BY Zenon DEF Settled
<1> QED BY Zenon, <1>1, <1>2, <1>3, <1>4, <1>5, <1>6, <1>7, <1>8, <1>9 DEF Types

\* Steps of the replay that only move it on.
LEMMA ReplayMove ==
  ASSUME IInv, REPLAYINPROG, REPLAYINPROG', RepTypes', Replay',
         UNCHANGED << dvars, zvars, jvars, ovars >>
  PROVE  IInv'
<1> USE DEF IInv, dvars, jvars
<1>1. done \in [Op -> Nat] /\ pj_replay_xid \in Nat
  BY Zenon DEF Types, DiskTypes, JournalTypes
<1>2. /\ \A o \in Op : done[o] <= open_txg
      /\ Seen(disk, pj_replay_xid)
      /\ \A r \in recl : r.xid \in Nat /\ r.xid <= pj_lastxid
  BY Zenon DEF Groups, Replayed, Xids, Types, DiskTypes
<1> QED BY Zenon, <1>1, <1>2, ReplayOnly

LEMMA StepReplayNext == ASSUME IInv, ReplayNext PROVE IInv'
<1> USE DEF IInv
<1> DEFINE First(f) == \A g \in rep.todo : f.xid <= g.xid
           S == {f.xid : f \in rep.todo}
<1>1. /\ rep.todo \subseteq EntryRec /\ rep.todo # {} /\ rep.at = "next"
      /\ pj_commit_txg \in Nat
  BY Zenon DEF ReplayNext, Types, RepTypes, JournalTypes
<1>2. S \in SUBSET Nat /\ S # {} BY Zenon, <1>1 DEF EntryRec
<1>3. PICK x \in S : \A y \in S : x <= y BY Zenon, <1>2, Least
<1>4. \E f \in rep.todo : First(f) BY Zenon, <1>3
<1>5. PICK e : e = CHOOSE f \in rep.todo : First(f) BY Zenon
<1>6. rep' = [rep EXCEPT !.e = e, !.todo = @ \ {e},
                !.at = IF e.distill /\ e.xid > pj_distill_xid THEN "dcheck"
                       ELSE IF e.txg > pj_commit_txg THEN "rcheck"
                       ELSE "advance"]
  BY Zenon, <1>5 DEF ReplayNext
<1> HIDE DEF First
<1>7. e \in rep.todo BY Zenon, <1>4, <1>5
<1>8. /\ rep' \in [at : Busy \cup {"off", "next", "wait"}, todo : SUBSET EntryRec,
                   e : EntryRec, txg : Nat]
      /\ rep'.e = e /\ rep'.todo = rep.todo \ {e}
      /\ rep'.at \in Busy
      /\ rep'.at = "advance" => ~(e.txg > pj_commit_txg)
  BY Zenon, <1>1, <1>6, <1>7 DEF Types, RepTypes, Busy
<1>9. REPLAYINPROG /\ REPLAYINPROG' /\ RepTypes'
  BY Zenon, <1>1, <1>8 DEF REPLAYINPROG, RepTypes, Busy
<1>10. /\ UNCHANGED << dvars, zvars, jvars, ovars >> BY Zenon DEF ReplayNext
<1>11. Replay'
  <2> USE <1>10 DEF dvars, jvars, ovars
  <2>1. (\A f \in rep'.todo : OfDisk(f)') /\ OfDisk(rep.e)'
    <3>1. \A f \in rep.todo : OfDisk(f) BY Zenon, <1>9 DEF Replay
    <3> QED BY Zenon, <1>7, <1>8, <3>1 DEF OfDisk
  <2>2. ASSUME NEW o \in Op, Answered(o)'
        PROVE  \/ done[o] # 0
               \/ \E f \in rep'.todo : Redoes(f, o)'
               \/ rep'.at \in Busy \ {"advance"} /\ Redoes(rep.e, o)'
    <3>1. Answered(o) BY Zenon, <2>2 DEF Answered, InTx
    <3>2. done[o] # 0 \/ \E f \in rep.todo : Redoes(f, o)
      BY Zenon, <1>1, <1>9, <3>1 DEF Replay, Busy
    <3>3. ASSUME NEW f \in rep.todo, Redoes(f, o), f # e
          PROVE  f \in rep'.todo /\ Redoes(f, o)'
      BY Zenon, <1>8, <3>3 DEF Redoes
    <3>4. ASSUME Redoes(e, o)
          PROVE  rep'.at \in Busy \ {"advance"} /\ Redoes(rep.e, o)'
      <4>1. e.txg > pj_commit_txg /\ e.op = o BY Zenon, <3>4 DEF Redoes
      <4>2. rep'.at # "advance" BY Zenon, <1>8, <4>1
      <4> QED BY Zenon, <1>8, <4>1, <4>2 DEF Redoes
    <3> QED BY Zenon, <3>2, <3>3, <3>4
  <2>3. rep'.at # "wait" BY Zenon, <1>8 DEF Busy
  <2>4. pj_pendingxids' = <<>> BY Zenon, <1>9 DEF Replay
  <2> HIDE DEF Redoes, Answered, OfDisk
  <2> QED BY Zenon, <2>1, <2>2, <2>3, <2>4 DEF Replay
<1> QED BY Zenon, <1>9, <1>10, <1>11, ReplayMove

LEMMA StepReplayCheck == ASSUME IInv, ReplayCheck PROVE IInv'
<1> USE DEF IInv, ReplayCheck
<1>1. /\ rep'.at \in {"dhold", "rhold"} /\ rep'.todo = rep.todo /\ rep'.e = rep.e
      /\ RepTypes' /\ rep.at \in Busy \ {"advance"}
  BY Zenon DEF Types, RepTypes, Busy
<1>2. REPLAYINPROG /\ REPLAYINPROG' BY Zenon, <1>1 DEF REPLAYINPROG, Busy
<1>3. Replay'
  BY <1>1, <1>2 DEF Replay, OfDisk, Redoes, Answered, InTx, Busy, dvars, jvars, ovars
<1> QED BY Zenon, <1>1, <1>2, <1>3, ReplayMove

LEMMA StepReplayWait == ASSUME IInv, ReplayWait PROVE IInv'
<1> USE DEF IInv, ReplayWait
<1>1. /\ rep'.at = "wait" /\ rep'.todo = {} /\ rep'.txg = open_txg + 2
      /\ RepTypes' /\ rep.at = "next" /\ rep.todo = {}
  <2>1. Format \in EntryRec BY Zenon DEF Format, EntryRec
  <2>2. open_txg + TXG_DEFER_SIZE \in Nat /\ TXG_DEFER_SIZE = 2
    BY DEF Types, ZfsTypes, TXG_DEFER_SIZE
  <2> QED BY Zenon, <2>1, <2>2 DEF Types, RepTypes
<1>2. REPLAYINPROG /\ REPLAYINPROG' BY Zenon, <1>1 DEF REPLAYINPROG
<1>3. \A o \in Op : done[o] <= open_txg + 2
  BY DEF Groups, Types, DiskTypes, ZfsTypes
<1>4. Replay'
  BY Zenon, <1>1, <1>2, <1>3 DEF Replay, Answered, InTx, Busy, dvars, jvars, ovars
<1> QED BY Zenon, <1>1, <1>2, <1>4, ReplayMove

LEMMA StepReplayDistill == ASSUME IInv, ReplayDistill PROVE IInv'
<1> USE DEF IInv
<1>0. /\ rep.at = "dhold"
      /\ recl' = recl \union {[op |-> rep.e.op, xid |-> rep.e.xid, txg |-> open_txg]}
      /\ rep' = [rep EXCEPT !.at = IF rep.e.txg > pj_commit_txg THEN "rcheck"
                                   ELSE "advance"]
      /\ UNCHANGED << disk, done, curfile, zvars, jvars, ovars >>
  BY Zenon DEF ReplayDistill, WriteLogentry
<1>1. /\ rep'.todo = rep.todo /\ rep'.e = rep.e /\ RepTypes'
      /\ rep'.at \in {"rcheck", "advance"}
      /\ rep'.at = "advance" => ~(rep.e.txg > pj_commit_txg)
  BY Zenon, <1>0 DEF Types, RepTypes, Busy
<1>2. REPLAYINPROG /\ REPLAYINPROG' BY Zenon, <1>0, <1>1 DEF REPLAYINPROG
<1>3. OfDisk(rep.e) BY Zenon, <1>0 DEF Replay, Busy
<1>4. \A r \in recl' : r.xid \in Nat /\ r.xid <= pj_lastxid
  <2>1. rep.e.xid \in Nat /\ rep.e.xid <= pj_lastxid
    BY Zenon, <1>3 DEF OfDisk, Xids, DiskXids, Types, RepTypes, EntryRec
  <2> QED BY <1>0, <2>1 DEF Xids, Types, DiskTypes
<1>5. Replay'
  BY SMTT(30), <1>0, <1>1, <1>2, <1>3 DEF Replay, OfDisk, Redoes, Answered, InTx, Busy, jvars,
     ovars
<1>6. /\ done \in [Op -> Nat] /\ pj_replay_xid \in Nat /\ Seen(disk, pj_replay_xid)
      /\ \A o \in Op : done[o] <= open_txg
  BY Zenon, <1>2 DEF Types, DiskTypes, JournalTypes, Replayed, Groups
<1> QED BY Zenon, <1>0, <1>1, <1>2, <1>4, <1>5, <1>6, ReplayOnly DEF jvars

\* mds_replay_handler makes the change of the entry's operation.
LEMMA StepReplayHandler == ASSUME IInv, ReplayHandler PROVE IInv'
<1> USE DEF IInv
<1>0. /\ rep.at = "rhold" /\ rep' = [rep EXCEPT !.at = "advance"]
      /\ done' = [done EXCEPT ![rep.e.op] = IF @ = 0 THEN open_txg ELSE @]
      /\ UNCHANGED << disk, recl, curfile, zvars, jvars, ovars >>
  BY Zenon DEF ReplayHandler
<1>1. /\ rep'.todo = rep.todo /\ rep'.e = rep.e /\ RepTypes' /\ rep'.at = "advance"
  BY Zenon, <1>0 DEF Types, RepTypes, Busy
<1>2. REPLAYINPROG /\ REPLAYINPROG' BY Zenon, <1>0, <1>1 DEF REPLAYINPROG
<1>3. /\ done' \in [Op -> Nat] /\ \A o \in Op : done'[o] <= open_txg
      /\ \A o \in Op : done[o] # 0 \/ o = rep.e.op => done'[o] # 0
  <2>1. open_txg \in Nat /\ open_txg # 0 /\ done \in [Op -> Nat]
        /\ \A o \in Op : done[o] <= open_txg
    BY DEF Types, DiskTypes, ZfsTypes, Groups
  <2>2. done' \in [Op -> Nat] BY Zenon, <1>0, <2>1
  <2>3. ASSUME NEW o \in Op
        PROVE  /\ done'[o] = IF o = rep.e.op /\ done[o] = 0 THEN open_txg ELSE done[o]
    BY Zenon, <1>0, <2>1
  <2> QED BY SMTT(30), <2>1, <2>2, <2>3
<1>4. Replay'
  <2>1. ASSUME NEW o \in Op, Answered(o)'
        PROVE  done'[o] # 0 \/ \E e \in rep'.todo : Redoes(e, o)'
    <3>1. Answered(o) BY Zenon, <1>0, <2>1 DEF Answered, InTx, ovars
    <3>2. done[o] # 0 \/ (\E e \in rep.todo : Redoes(e, o)) \/ Redoes(rep.e, o)
      BY Zenon, <1>2, <3>1 DEF Replay
    <3> QED BY Zenon, <1>0, <1>1, <1>3, <3>2 DEF Redoes, jvars
  <2>2. (\A e \in rep'.todo : OfDisk(e)') /\ OfDisk(rep.e)'
    <3>1. (\A e \in rep.todo : OfDisk(e)) /\ OfDisk(rep.e)
      BY Zenon, <1>0, <1>2 DEF Replay, Busy
    <3> QED BY Zenon, <1>0, <1>1, <3>1 DEF OfDisk
  <2>3. pj_pendingxids' = <<>> BY Zenon, <1>0, <1>2 DEF Replay, jvars
  <2>4. rep'.at # "wait" BY Zenon, <1>1
  <2> HIDE DEF Redoes, Answered, OfDisk
  <2> QED BY Zenon, <2>1, <2>2, <2>3, <2>4 DEF Replay
<1>5. /\ pj_replay_xid \in Nat /\ Seen(disk, pj_replay_xid)
      /\ \A r \in recl : r.xid \in Nat /\ r.xid <= pj_lastxid
  BY Zenon, <1>2 DEF Types, DiskTypes, JournalTypes, Replayed, Xids
<1> QED BY SMTT(30), <1>0, <1>1, <1>2, <1>3, <1>4, <1>5, ReplayOnly DEF jvars

LEMMA StepReplayAdvance == ASSUME IInv, ReplayAdvance PROVE IInv'
<1> USE DEF IInv
<1>0. /\ rep.at = "advance" /\ rep' = [rep EXCEPT !.at = "next"]
      /\ pj_replay_xid' = rep.e.xid
      /\ UNCHANGED << dvars, zvars, pj_lastxid, pj_nextwrite, pj_current_txg,
           pj_pendingxids, pj_distillxids, pj_distill_xid, pj_commit_txg, dist, ovars >>
  BY Zenon DEF ReplayAdvance
<1>1. /\ rep'.todo = rep.todo /\ RepTypes' /\ rep'.at = "next"
  BY Zenon, <1>0 DEF Types, RepTypes, Busy
<1>2. REPLAYINPROG /\ REPLAYINPROG' BY Zenon, <1>0, <1>1 DEF REPLAYINPROG
<1>3. pj_replay_xid' \in Nat /\ Seen(disk, pj_replay_xid')
  <2>1. rep.e.xid \in Nat BY Zenon DEF Types, RepTypes, EntryRec
  <2>2. OfDisk(rep.e) BY Zenon, <1>0 DEF Replay, Busy
  <2> QED BY SMTT(30), <1>0, <2>1, <2>2 DEF OfDisk, Seen
<1>4. Replay'
  BY Zenon, <1>0, <1>1, <1>2 DEF Replay, OfDisk, Redoes, Answered, InTx, Busy, dvars, ovars
<1>5. /\ done \in [Op -> Nat] /\ \A o \in Op : done[o] <= open_txg
      /\ \A r \in recl : r.xid \in Nat /\ r.xid <= pj_lastxid
  BY Zenon DEF Types, DiskTypes, Groups, Xids
<1> QED BY Zenon, <1>0, <1>1, <1>2, <1>3, <1>4, <1>5, ReplayOnly DEF dvars

\* The replay is over once all that it did is synced.
LEMMA StepReplayDone == ASSUME IInv, ReplayDone PROVE IInv'
<1> USE DEF IInv
<1>0. /\ rep.at = "wait" /\ rep.txg <= synced /\ rep' = Off /\ pj_nextwrite' = 0
      /\ UNCHANGED << disk, done, recl, curfile, synced, open_txg, cursor, mds_cursor,
           pj_lastxid, pj_current_txg, pj_pendingxids, pj_distillxids, pj_commit_txg,
           pj_replay_xid, dist, pc, kind, txg, xid, etxg, slot >>
  BY Zenon DEF ReplayDone, dvars, zvars, ovars
<1>1. REPLAYINPROG /\ ~REPLAYINPROG' BY Zenon, <1>0 DEF REPLAYINPROG, Off
<1>2. DiskTypes' /\ ZfsTypes' BY Zenon, <1>0 DEF Types, DiskTypes, ZfsTypes
<1>3. JournalTypes' /\ OpTypes'
  BY <1>0, SizesAssumption DEF Types, JournalTypes, OpTypes, Slot
<1>4. RepTypes' /\ Replay'
  BY Zenon, <1>0, <1>1 DEF RepTypes, Replay, Off, Format, EntryRec, Busy
<1>5. Groups' /\ CursorFile' BY Zenon, <1>0, <1>1 DEF Groups, CursorFile
<1>6. (\A o \in Op : Place(o))' BY Zenon, <1>0, <1>1 DEF Place, InTx
<1>7. \A o \in Op : pc[o] \in {"idle", "acked", "dead"} /\ xid[o] = 0
  BY Zenon, <1>1 DEF Place
<1>8. LogInv'
  <2>1. ToLog' = ToLog BY Zenon, <1>0 DEF ToLog
  <2>2. Room' BY Zenon, <1>0, <2>1 DEF LogInv, Room
  <2>3. pj_pendingxids' = <<>> BY Zenon, <1>0, <1>1 DEF Replay
  <2>4. Window' /\ OnDisk' BY <2>3 DEF Window, OnDisk
  <2>5. Writer' BY Zenon, <1>0, <1>7 DEF Writer
  <2>6. FormatLast(disk)' BY ZenonT(30), <1>0 DEF LogInv, FormatLast
  <2>7. Fresh' BY <1>0, SizesAssumption DEF Fresh, Slot
  <2>8. InUse' BY Zenon, <1>0, <1>7 DEF InUse
  <2> QED BY Zenon, <2>2, <2>4, <2>5, <2>6, <2>7, <2>8 DEF LogInv
<1>9. Xids' BY Zenon, <1>0 DEF Xids, DiskXids
<1>10. Replayed' BY Zenon, <1>0, <1>1 DEF Replayed, Seen
<1>11. Settled'
  <2> SUFFICES ASSUME NEW o \in Op, Answered(o)'
               PROVE  done[o] \in 1 .. synced
    BY Zenon, <1>0 DEF Settled
  <2>1. Answered(o) BY Zenon, <1>0 DEF Answered, InTx
  <2>2. done[o] # 0 /\ done[o] <= rep.txg
    BY Zenon, <1>0, <1>1, <2>1 DEF Replay, Busy
  <2>3. done[o] \in Nat /\ rep.txg \in Nat /\ synced \in Nat
    BY Zenon DEF Types, DiskTypes, RepTypes, ZfsTypes
  <2> QED BY <1>0, <2>2, <2>3
<1> QED BY Zenon, <1>2, <1>3, <1>4, <1>5, <1>6, <1>8, <1>9, <1>10, <1>11 DEF Types

------------------------------------------------------------------------------
LEMMA InitIInv == Init => IInv
<1> SUFFICES ASSUME Init PROVE IInv BY Zenon
<1> USE DEF Init
<1>1. 0 \in Slot /\ Format \in EntryRec /\ Format.type = "format" /\ Format.xid = 0
  BY SizesAssumption DEF Slot, Format, EntryRec
<1>2. ~REPLAYINPROG BY Zenon DEF REPLAYINPROG, Off
<1>3. DiskTypes BY <1>1 DEF DiskTypes, Cur
<1>4. ZfsTypes /\ JournalTypes BY <1>1 DEF ZfsTypes, JournalTypes, Cur, Idle
<1>5. OpTypes /\ RepTypes BY Zenon, <1>1 DEF OpTypes, RepTypes, Positions, Off, Busy
<1>6. Groups /\ CursorFile BY <1>2 DEF Groups, CursorFile
<1>7. \A o \in Op : Place(o) BY Zenon, <1>2 DEF Place
<1>8. LogInv
  <2>1. Window /\ OnDisk BY DEF Window, OnDisk
  <2>2. Room
    <3>1. ToLog = {} BY Zenon DEF ToLog
    <3>2. Cardinality(ToLog) = 0 BY Zenon, <3>1, FS_EmptySet
    <3> QED BY <3>2, SizesAssumption DEF Room
  <2>3. Writer /\ InUse BY Zenon DEF Writer, InUse
  <2>4. FormatLast(disk) BY Zenon, <1>1 DEF FormatLast
  <2>5. Fresh BY SMTT(30), SizesAssumption DEF Fresh, Slot
  <2> QED BY Zenon, <2>1, <2>2, <2>3, <2>4, <2>5 DEF LogInv
<1>9. Xids BY SMTT(30), <1>1 DEF Xids, DiskXids, Idle
<1>10. Replayed BY <1>2 DEF Replayed, Seen
<1>11. Replay /\ Settled BY Zenon, <1>2 DEF Replay, Settled, Answered, Off, Busy
<1> QED BY Zenon, <1>3, <1>4, <1>5, <1>6, <1>7, <1>8, <1>9, <1>10, <1>11 DEF IInv, Types

LEMMA NextIInv ==
  ASSUME ~Torn, IInv, [Next]_vars, REPLAYINPROG => ~Crash PROVE IInv'
<1>1. ASSUME NEW o \in Op, OpStep(o) PROVE IInv'
  BY Zenon, <1>1, StepTxCheck, StepTxHold, StepXnew, StepNextSlot, StepLogWritten, StepCommit
     DEF OpStep
<1>2. CASE DistillStep
  BY Zenon, <1>2, StepDistillTake, StepDistillHandler, StepDistillDone DEF DistillStep
<1>3. CASE CursorStep BY Zenon, <1>3, StepCursor, StepCursorEnd DEF CursorStep
<1>4. CASE ReplayStep
  BY Zenon, <1>4, StepReplayNext, StepReplayCheck, StepReplayDistill, StepReplayHandler,
     StepReplayAdvance, StepReplayWait, StepReplayDone DEF ReplayStep
<1>5. CASE Crash BY Zenon, <1>5, StepCrash
<1> QED BY Zenon, <1>1, <1>2, <1>3, <1>4, <1>5, StepStart, StepReclaim, StepTxgQuiesce,
           StepTxgSync, StepStutter DEF Next

LEMMA IInvAckedDurable == IInv => AckedDurable
<1> SUFFICES ASSUME IInv, ~REPLAYINPROG, NEW o \in Acked, kind[o] \in {"ns", "unlink"}
             PROVE  Durable(o)
  BY Zenon DEF AckedDurable
<1>1. o \in Op /\ Answered(o) BY Zenon DEF Acked, Answered, InTx
<1>2. CrashDisk(disk) BY Zenon DEF CrashDisk
<1> QED BY Zenon, <1>1, <1>2, CrashDurable DEF Durable

(* pjournal_logwrite() before dmu_tx_commit(), and slots that are reused   *)
(* only after their group is synced, are enough: outside recovery, every   *)
(* answered operation whose entry was logged inside its transaction is in  *)
(* ZFS or would be replayed by mds_journal_init(), after any number of     *)
(* crashes.  Two things are assumed, and needed: the write of an entry is  *)
(* not torn, and no crash interrupts a recovery.                           *)
THEOREM RecoveryAckedDurable ==
  ASSUME ~Torn
  PROVE  Spec /\ [][REPLAYINPROG => ~Crash]_vars => []AckedDurable
<1> DEFINE Whole == REPLAYINPROG => ~Crash
<1>1. IInv /\ [Next]_vars /\ [Whole]_vars => IInv'
  <2> SUFFICES ASSUME IInv, [Next]_vars, [Whole]_vars PROVE IInv'
    BY Zenon
  <2>1. CASE Whole BY Zenon, <2>1, NextIInv
  <2>2. CASE UNCHANGED vars BY Zenon, <2>2, StepStutter
  <2> QED BY Zenon, <2>1, <2>2
<1> QED BY <1>1, InitIInv, IInvAckedDurable, PTL DEF Spec
===============================================================================
