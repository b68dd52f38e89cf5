---------------------------- MODULE JournalProofs ----------------------------
(***************************************************************************)
(* Proofs, for any number of threads, slots, buffers and operations, that  *)
(* the journal of module Journal never runs out of the slots it promised   *)
(* and never overwrites an entry that is still in use.                     *)
(***************************************************************************)
EXTENDS JournalInv, FiniteSetTheorems

------------------------------------------------------------------------------
\* The initial state satisfies the invariant.
LEMMA InitIInv ==
  ASSUME TokenFacts, Init
  PROVE  IInv
<1>1. SlotTypes /\ ListTypes
  BY TotalAssumption, NBufAssumption
     DEF Init, SlotTypes, ListTypes, Slot
<1>2. ThreadTypes /\ OtherTypes
  <2>1. ThreadTypes
    BY TotalAssumption, WorkAssumption DEF Init, ThreadTypes, Slot, PCs
  <2>2. dist \in [at : {"scan", "handler", "hold", "done", "sync"}, xid : Nat,
               data : Nat, last : Nat, txg : Nat, last_reclaimed : BOOLEAN,
               reclaimed : BOOLEAN]
    BY Zenon DEF Init
  <2>3. /\ open_txg \in Nat /\ synced \in Nat
        /\ cursor \in [at : {"idle", "woken", "opening", "assigned", "open"}, txg : Nat]
    BY Zenon DEF Init
  <2>4. tx_open \in BOOLEAN
    BY Zenon DEF Init
  <2> QED BY Zenon, <2>1, <2>2, <2>3, <2>4 DEF OtherTypes
<1>4. Promise
  <2>1. Cardinality(Tokens(resv)) = 0 /\ Cardinality(Tokens(left)) = 0
    <3>1. /\ resv \in [Thread -> 0 .. 2] /\ left \in [Thread -> 0 .. 2]
          /\ \A t \in Thread : resv[t] = 0 /\ left[t] = 0
      BY DEF Init
    <3> QED BY Zenon, <3>1 DEF TokenFacts
  <2> QED BY <2>1, TotalAssumption DEF Init, Promise
<1>5. Window /\ Writer /\ LiveEntriesOnDisk
  BY ThreadAssumption, TotalAssumption
     DEF Init, Window, Writer, LiveEntriesOnDisk
<1>6. \A t \in Thread : Reserved(t)
  BY DEF Init, Reserved
<1> QED BY Zenon, <1>1, <1>2, <1>4, <1>5, <1>6 DEF IInv, TypeOK

\* pjournal_reserve_slot: waiting for the lock, for a slot or for a txg.
LEMMA StepReserve ==
  ASSUME SlotTypes, ListTypes, ThreadTypes, OtherTypes, Window, Promise,
         Writer, LiveEntriesOnDisk, \A u \in Thread : Reserved(u),
         NEW t \in Thread
  PROVE  /\ ReserveLock(t) => IInv'
         /\ ReserveOver(t) => IInv'
         /\ ReserveWait(t) => IInv'
         /\ ReserveSynced(t) => IInv'
<1> USE ThreadAssumption, TotalAssumption
<1>1. ASSUME ReserveLock(t) PROVE IInv'
  <2>1. SlotTypes'
    BY Zenon, <1>1 DEF ReserveLock, SlotTypes, svars, locks
  <2>2. ThreadTypes'
    BY Zenon, <1>1 DEF ReserveLock, ThreadTypes, locals, PCs
  <2>3. ListTypes' /\ OtherTypes'
    BY Zenon, <1>1 DEF ReserveLock, ListTypes, bvars, OtherTypes, zvars
  <2>4. ASSUME NEW u \in Thread PROVE Reserved(u)'
    <3>1. CASE u = t
      BY <1>1, <3>1 DEF ThreadTypes, Reserved, Count, ReserveLock, locals
    <3>2. CASE u # t
      BY Zenon, <1>1, <3>2, ReservedFrame DEF ThreadTypes, Wakes, ReserveLock, locals
    <3> QED BY Zenon, <3>1, <3>2
  <2>5. Writer'
    BY Zenon, <1>1, WriterFrame DEF ThreadTypes, ReserveLock, svars, locks, locals
  <2>6. Window' /\ Promise' /\ LiveEntriesOnDisk'
    BY Zenon, <1>1
       DEF Window, Promise, Tokens, LiveEntriesOnDisk, ReserveLock, svars,
           locks, locals
  <2> QED BY Zenon, <2>1, <2>2, <2>3, <2>4, <2>5, <2>6 DEF IInv, TypeOK
<1>2. ASSUME ReserveOver(t) PROVE IInv'
  <2>1. ListTypes'
    BY Zenon, <1>2 DEF ReserveOver, ListTypes, bvars
  <2>2. ThreadTypes'
    BY Zenon, <1>2 DEF ReserveOver, ThreadTypes, locals, PCs
  <2>3. SlotTypes' /\ OtherTypes'
    BY <1>2 DEF ReserveOver, SlotTypes, svars, locks, OtherTypes, zvars
  <2>4. ASSUME NEW u \in Thread PROVE Reserved(u)'
    <3>1. CASE u = t
      BY Zenon, <1>2, <3>1 DEF ThreadTypes, Reserved, Count, ReserveOver, locals
    <3>2. CASE u # t
      BY Zenon, <1>2, <3>2, ReservedFrame DEF ThreadTypes, Wakes, ReserveOver, locals
    <3> QED BY <3>1, <3>2
  <2>5. Writer'
    BY Zenon, <1>2, WriterFrame DEF ThreadTypes, ReserveOver, svars, locks, locals
  <2>6. Window' /\ Promise' /\ LiveEntriesOnDisk'
    BY Zenon, <1>2
       DEF Window, Promise, Tokens, LiveEntriesOnDisk, ReserveOver, svars,
           locks, locals
  <2> QED BY Zenon, <2>1, <2>2, <2>3, <2>4, <2>5, <2>6 DEF IInv, TypeOK
<1>3. ASSUME ReserveWait(t) PROVE IInv'
  <2>1. ThreadTypes'
    <3>1. Head(pj_pendingxids) \in Handle
      BY Zenon, <1>3, SeqTail DEF ReserveWait, SlotTypes
    <3> QED BY Zenon, <1>3, <3>1 DEF ReserveWait, ThreadTypes, locals, Handle, PCs
  <2>2. SlotTypes' /\ ListTypes' /\ OtherTypes'
    BY <1>3
       DEF ReserveWait, SlotTypes, svars, locks, ListTypes, bvars,
           OtherTypes, zvars
  <2>3. ASSUME NEW u \in Thread PROVE Reserved(u)'
    <3>1. CASE u = t
      BY Zenon, <1>3, <3>1 DEF ThreadTypes, Reserved, Count, ReserveWait, locals
    <3>2. CASE u # t
      BY Zenon, <1>3, <3>2, ReservedFrame DEF ThreadTypes, Wakes, ReserveWait, locals
    <3> QED BY <3>1, <3>2
  <2>4. Writer'
    BY Zenon, <1>3, WriterFrame DEF ThreadTypes, ReserveWait, svars, locks, locals
  <2>5. Window' /\ Promise' /\ LiveEntriesOnDisk'
    BY Zenon, <1>3
       DEF Window, Promise, Tokens, LiveEntriesOnDisk, ReserveWait, svars,
           locks, locals
  <2> QED BY Zenon, <2>1, <2>2, <2>3, <2>4, <2>5 DEF IInv, TypeOK
<1>4. ASSUME ReserveSynced(t) PROVE IInv'
  <2>1. ThreadTypes'
    BY Zenon, <1>4 DEF ReserveSynced, ThreadTypes, locals, PCs
  <2>2. SlotTypes' /\ ListTypes' /\ OtherTypes'
    BY <1>4
       DEF ReserveSynced, SlotTypes, svars, locks, ListTypes, bvars,
           OtherTypes, zvars
  <2>3. ASSUME NEW u \in Thread PROVE Reserved(u)'
    <3>1. CASE u = t
      BY Zenon, <1>4, <3>1 DEF ThreadTypes, Reserved, Count, ReserveSynced, locals
    <3>2. CASE u # t
      BY Zenon, <1>4, <3>2, ReservedFrame
         DEF ThreadTypes, Wakes, ReserveSynced, locals
    <3> QED BY <3>1, <3>2
  <2>4. Writer'
    BY Zenon, <1>4, WriterFrame DEF ThreadTypes, ReserveSynced, svars, locks, locals
  <2>5. Window' /\ Promise' /\ LiveEntriesOnDisk'
    BY Zenon, <1>4
       DEF Window, Promise, Tokens, LiveEntriesOnDisk, ReserveSynced,
           svars, locks, locals
  <2> QED BY <2>1, <2>2, <2>3, <2>4, <2>5 DEF IInv, TypeOK
<1> QED BY Zenon, <1>1, <1>2, <1>3, <1>4

\* A slot is reserved.
LEMMA StepReserveTake ==
  ASSUME SlotTypes, ListTypes, ThreadTypes, OtherTypes, Window, Promise,
         Writer, LiveEntriesOnDisk, \A u \in Thread : Reserved(u),
         TokenFacts, NEW t \in Thread
  PROVE  ReserveTake(t) => IInv'
<1> USE ThreadAssumption, TotalAssumption
<1>21. ASSUME ReserveTake(t) PROVE IInv'
  <2>0. /\ left[t] = resv[t] /\ resv[t] < Count(op[t]) /\ resv[t] \in 0 .. 1
        /\ left \in [Thread -> 0 .. 2] /\ resv \in [Thread -> 0 .. 2]
    BY <1>21 DEF ReserveTake, ThreadTypes, Reserved, Count
  <2>1. ThreadTypes'
    <3>1. pc' \in [Thread -> PCs]
      BY <1>21 DEF ReserveTake, ThreadTypes, AfterReserve, PCs
    <3>2. resv' \in [Thread -> 0 .. 2] /\ left' \in [Thread -> 0 .. 2]
      BY <1>21, <2>0 DEF ReserveTake
    <3> QED BY Zenon, <1>21, <3>1, <3>2 DEF ReserveTake, ThreadTypes
  <2>2. SlotTypes' /\ ListTypes' /\ OtherTypes'
    BY <1>21 DEF ReserveTake, SlotTypes, ListTypes, bvars, OtherTypes, zvars
  <2>3. ASSUME NEW u \in Thread PROVE Reserved(u)'
    <3>1. CASE u = t
      BY <1>21, <2>0, <3>1
         DEF ThreadTypes, Reserved, Count, ReserveTake, AfterReserve, InTx
    <3>2. CASE u # t
      BY Zenon, <1>21, <3>2, ReservedFrame DEF ThreadTypes, Wakes, ReserveTake
    <3> QED BY Zenon, <3>1, <3>2
  <2>4. Writer'
    BY Zenon, <1>21, WriterFrame DEF ThreadTypes, ReserveTake, AfterReserve
  <2>5. Promise'
    <3>1. /\ resv' = [resv EXCEPT ![t] = resv[t] + 1]
          /\ resv' \in [Thread -> 0 .. 2] /\ left' \in [Thread -> 0 .. 2]
          /\ pj_resrv' = pj_resrv + 1 /\ pj_inuse' = pj_inuse
          /\ pj_resrv + pj_inuse < Total
          /\ pj_resrv \in Nat /\ pj_inuse \in Nat
      BY Zenon, <1>21, <2>1 DEF ReserveTake, HasRoom, ThreadTypes, SlotTypes
    <3>2. Cardinality(Tokens(resv')) = Cardinality(Tokens(resv)) + 1
      <4>1. resv[t] < 2 BY <2>0
      <4>2. Cardinality(Tokens([resv EXCEPT ![t] = resv[t] + 1])) =
              Cardinality(Tokens(resv)) + 1
        BY Zenon, <2>0, <4>1, TokensMore
      <4> QED BY Zenon, <3>1, <4>2
    <3>3. Cardinality(Tokens(left')) <= Cardinality(Tokens(resv'))
      BY Zenon, <2>3, <3>1, TokensMono DEF Reserved
    <3>4. /\ Cardinality(Tokens(left')) \in Nat
          /\ Cardinality(Tokens(resv')) \in Nat
      BY Zenon, <3>1, TokensNat
    <3>5. pj_resrv' = Cardinality(Tokens(resv'))
      BY Zenon, <3>1, <3>2 DEF Promise
    <3>6. pj_inuse' + Cardinality(Tokens(left')) <= Total
      BY <3>1, <3>3, <3>4, <3>5
    <3> QED BY Zenon, <3>5, <3>6 DEF Promise, Tokens
  <2>6. Window' /\ LiveEntriesOnDisk'
    BY Zenon, <1>21 DEF Window, LiveEntriesOnDisk, ReserveTake
  <2> QED BY Zenon, <2>1, <2>2, <2>3, <2>4, <2>5, <2>6 DEF IInv, TypeOK
<1> QED BY Zenon, <1>21

\* The oldest entry is freed.
LEMMA StepReserveFree ==
  ASSUME SlotTypes, ListTypes, ThreadTypes, OtherTypes, Window, Promise,
         Writer, LiveEntriesOnDisk, \A u \in Thread : Reserved(u),
         TokenFacts, NEW t \in Thread
  PROVE  ReserveFree(t) => IInv'
<1> USE ThreadAssumption, TotalAssumption
<1>22. ASSUME ReserveFree(t) PROVE IInv'
  <2>1. /\ pj_pendingxids \in Seq(Handle) /\ pj_pendingxids # <<>>
        /\ pj_pendingxids' = Tail(pj_pendingxids)
        /\ 1 \in 0 .. Len(pj_pendingxids)
    <3>1. /\ pj_pendingxids # <<>>
          /\ pj_pendingxids' = Tail(pj_pendingxids)
      BY Zenon, <1>22 DEF ReserveFree
    <3>2. pj_pendingxids \in Seq(Handle) BY Zenon DEF SlotTypes
    <3>3. 1 \in 0 .. Len(pj_pendingxids)
      BY Zenon, <3>1, <3>2, SeqNonEmpty
    <3> QED BY Zenon, <3>1, <3>2, <3>3
  <2>2. /\ pj_pendingxids' \in Seq(Handle)
        /\ Len(pj_pendingxids') = Len(pj_pendingxids) - 1
        /\ \A i \in 1 .. Len(pj_pendingxids') :
             pj_pendingxids'[i] = pj_pendingxids[i + 1]
    BY Zenon, <2>1, SeqTail
  <2>3. /\ pj_inuse' \in Nat
        /\ Window' /\ Promise' /\ Writer' /\ LiveEntriesOnDisk'
    BY Zenon, <1>22, <2>1, <2>2, DropEntries DEF ReserveFree, locks, locals
  <2>4. SlotTypes'
    BY Zenon, <1>22, <2>2, <2>3 DEF ReserveFree, SlotTypes, locks
  <2>5. ThreadTypes' /\ ListTypes' /\ OtherTypes'
    BY Zenon, <1>22 DEF ReserveFree, ThreadTypes, locals, ListTypes, bvars,
                 OtherTypes, zvars
  <2>6. \A u \in Thread : Reserved(u)'
    BY Zenon, <1>22 DEF ReserveFree, Reserved, locals
  <2> QED BY Zenon, <2>3, <2>4, <2>5, <2>6 DEF IInv, TypeOK
<1> QED BY <1>22

\* An operation starts.
LEMMA StepStart ==
  ASSUME SlotTypes, ListTypes, ThreadTypes, OtherTypes, Window, Promise,
         Writer, LiveEntriesOnDisk, \A u \in Thread : Reserved(u),
         NEW t \in Thread, NEW k \in AllKinds
  PROVE  Start(t, k) => IInv'
<1> USE ThreadAssumption, TotalAssumption
<1>20. ASSUME Start(t, k) PROVE IInv'
  <2>1. ThreadTypes'
    BY <1>20 DEF Start, ThreadTypes, PCs
  <2>2. SlotTypes' /\ ListTypes' /\ OtherTypes'
    BY <1>20 DEF Start, SlotTypes, svars, locks, ListTypes, bvars, OtherTypes,
                 zvars
  <2>3. ASSUME NEW u \in Thread PROVE Reserved(u)'
    <3>1. CASE u = t
      BY Zenon, <1>20, <3>1 DEF ThreadTypes, Reserved, Count, Start
    <3>2. CASE u # t
      BY Zenon, <1>20, <3>2, ReservedFrame DEF ThreadTypes, Wakes, Start
    <3> QED BY Zenon, <3>1, <3>2
  <2>4. Writer'
    BY Zenon, <1>20, WriterFrame DEF ThreadTypes, Start, svars, locks
  <2>5. Window' /\ Promise' /\ LiveEntriesOnDisk'
    BY Zenon, <1>20
       DEF Window, Promise, Tokens, LiveEntriesOnDisk, Start, svars, locks
  <2> QED BY Zenon, <2>1, <2>2, <2>3, <2>4, <2>5 DEF IInv, TypeOK
<1> QED BY Zenon, <1>20

\* The ZFS transaction of an operation, and its failure.
LEMMA StepTx ==
  ASSUME SlotTypes, ListTypes, ThreadTypes, OtherTypes, Window, Promise,
         Writer, LiveEntriesOnDisk, \A u \in Thread : Reserved(u),
         NEW t \in Thread
  PROVE  /\ TxHold(t) => IInv'
         /\ TxCheck(t) => IInv'
         /\ OpFails(t) => IInv'
<1> USE ThreadAssumption, TotalAssumption
<1>5. ASSUME TxHold(t) PROVE IInv'
  <2>1. ThreadTypes'
    BY Zenon, <1>5 DEF TxHold, ThreadTypes, locals, OtherTypes, PCs
  <2>2. SlotTypes' /\ ListTypes' /\ OtherTypes'
    BY <1>5
       DEF TxHold, SlotTypes, svars, locks, ListTypes, bvars, OtherTypes,
           zvars
  <2>3. ASSUME NEW u \in Thread PROVE Reserved(u)'
    <3>1. CASE u = t
      BY Zenon, <1>5, <3>1 DEF ThreadTypes, Reserved, Count, TxHold, locals
    <3>2. CASE u # t
      BY Zenon, <1>5, <3>2, ReservedFrame DEF ThreadTypes, Wakes, TxHold, locals
    <3> QED BY <3>1, <3>2
  <2>4. Writer'
    BY Zenon, <1>5, WriterFrame DEF ThreadTypes, TxHold, svars, locks, locals
  <2>5. Window' /\ Promise' /\ LiveEntriesOnDisk'
    BY Zenon, <1>5
       DEF Window, Promise, Tokens, LiveEntriesOnDisk, TxHold, svars,
           locks, locals
  <2> QED BY <2>1, <2>2, <2>3, <2>4, <2>5 DEF IInv, TypeOK
<1>29. ASSUME TxCheck(t) PROVE IInv'
  <2>1. ThreadTypes'
    BY Zenon, <1>29 DEF TxCheck, ThreadTypes, locals, OtherTypes, PCs
  <2>2. SlotTypes' /\ ListTypes' /\ OtherTypes'
    BY <1>29
       DEF TxCheck, SlotTypes, svars, locks, ListTypes, bvars, OtherTypes,
           zvars
  <2>3. ASSUME NEW u \in Thread PROVE Reserved(u)'
    <3>1. CASE u = t
      BY Zenon, <1>29, <3>1 DEF ThreadTypes, Reserved, Count, TxCheck, locals
    <3>2. CASE u # t
      BY Zenon, <1>29, <3>2, ReservedFrame DEF ThreadTypes, Wakes, TxCheck, locals
    <3> QED BY <3>1, <3>2
  <2>4. Writer'
    BY Zenon, <1>29, WriterFrame DEF ThreadTypes, TxCheck, svars, locks, locals
  <2>5. Window' /\ Promise' /\ LiveEntriesOnDisk'
    BY Zenon, <1>29
       DEF Window, Promise, Tokens, LiveEntriesOnDisk, TxCheck, svars,
           locks, locals
  <2> QED BY <2>1, <2>2, <2>3, <2>4, <2>5 DEF IInv, TypeOK
<1>6. ASSUME OpFails(t) PROVE IInv'
  <2>1. ThreadTypes'
    BY Zenon, <1>6 DEF OpFails, ThreadTypes, locals, PCs
  <2>2. OtherTypes'
    BY Zenon, <1>6 DEF OpFails, OtherTypes, zvars
  <2>3. SlotTypes' /\ ListTypes'
    BY Zenon, <1>6 DEF OpFails, SlotTypes, svars, locks, ListTypes, bvars
  <2>4. ASSUME NEW u \in Thread PROVE Reserved(u)'
    <3>1. CASE u = t
      BY Zenon, <1>6, <3>1 DEF ThreadTypes, Reserved, Count, OpFails, locals
    <3>2. CASE u # t
      BY Zenon, <1>6, <3>2, ReservedFrame DEF ThreadTypes, Wakes, OpFails, locals
    <3> QED BY <3>1, <3>2
  <2>5. Writer'
    BY Zenon, <1>6, WriterFrame DEF ThreadTypes, OpFails, svars, locks, locals
  <2>6. Window' /\ Promise' /\ LiveEntriesOnDisk'
    BY Zenon, <1>6
       DEF Window, Promise, Tokens, LiveEntriesOnDisk, OpFails, svars,
           locks, locals
  <2> QED BY Zenon, <2>1, <2>2, <2>3, <2>4, <2>5, <2>6 DEF IInv, TypeOK
<1> QED BY Zenon, <1>5, <1>29, <1>6

\* The distill thread takes, applies and checks an entry, and sleeps.
LEMMA StepDistill ==
  ASSUME SlotTypes, ListTypes, ThreadTypes, OtherTypes, Window, Promise,
         Writer, LiveEntriesOnDisk, \A u \in Thread : Reserved(u)
  PROVE  /\ DistillTake => IInv'
         /\ DistillHandler => IInv'
         /\ DistillCheck => IInv'
         /\ DistillSleep => IInv'
<1> USE ThreadAssumption, TotalAssumption
<1>12. ASSUME DistillTake PROVE IInv'
  <2>1. ListTypes'
    BY <1>12 DEF DistillTake, ListTypes, bvars
  <2>2. OtherTypes'
    <3>1. Head(pj_distillxids) \in [xid : Nat, written : BOOLEAN, data : Nat]
      BY Zenon, <1>12, SeqTail DEF DistillTake, ListTypes
    <3> QED BY Zenon, <1>12, <3>1 DEF DistillTake, OtherTypes, zvars
  <2>3. SlotTypes' /\ ThreadTypes'
    BY Zenon, <1>12 DEF DistillTake, SlotTypes, svars, locks, ThreadTypes, locals
  <2>4. \A u \in Thread : Reserved(u)'
    BY Zenon, <1>12 DEF Reserved, DistillTake, locals
  <2>5. Writer'
    BY Zenon, <1>12, WriterFrame DEF ThreadTypes, DistillTake, svars, locks, locals
  <2>6. Window' /\ Promise' /\ LiveEntriesOnDisk'
    BY Zenon, <1>12
       DEF Window, Promise, Tokens, LiveEntriesOnDisk, DistillTake, svars,
           locks, locals
  <2> QED BY Zenon, <2>1, <2>2, <2>3, <2>4, <2>5, <2>6 DEF IInv, TypeOK
<1>13. ASSUME DistillHandler PROVE IInv'
  <2>1. OtherTypes'
    BY Zenon, <1>13 DEF DistillHandler, OtherTypes, zvars
  <2>2. SlotTypes' /\ ListTypes' /\ ThreadTypes'
    BY Zenon, <1>13
       DEF DistillHandler, SlotTypes, svars, locks, ListTypes, bvars,
           ThreadTypes, locals
  <2>3. \A u \in Thread : Reserved(u)'
    BY Zenon, <1>13 DEF Reserved, DistillHandler, locals
  <2>4. Writer'
    BY Zenon, <1>13, WriterFrame DEF ThreadTypes, DistillHandler, svars, locks, locals
  <2>5. Window' /\ Promise' /\ LiveEntriesOnDisk'
    BY Zenon, <1>13
       DEF Window, Promise, Tokens, LiveEntriesOnDisk, DistillHandler,
           svars, locks, locals
  <2> QED BY Zenon, <2>1, <2>2, <2>3, <2>4, <2>5 DEF IInv, TypeOK
<1>30. ASSUME DistillCheck PROVE IInv'
  <2>1. OtherTypes'
    BY Zenon, <1>30 DEF DistillCheck, OtherTypes, zvars
  <2>2. SlotTypes' /\ ListTypes' /\ ThreadTypes'
    BY Zenon, <1>30
       DEF DistillCheck, SlotTypes, svars, locks, ListTypes, bvars,
           ThreadTypes, locals
  <2>3. \A u \in Thread : Reserved(u)'
    BY Zenon, <1>30 DEF Reserved, DistillCheck, locals
  <2>4. Writer'
    BY Zenon, <1>30, WriterFrame DEF ThreadTypes, DistillCheck, svars, locks, locals
  <2>5. Window' /\ Promise' /\ LiveEntriesOnDisk'
    BY Zenon, <1>30
       DEF Window, Promise, Tokens, LiveEntriesOnDisk, DistillCheck,
           svars, locks, locals
  <2> QED BY <2>1, <2>2, <2>3, <2>4, <2>5 DEF IInv, TypeOK
<1>14. ASSUME DistillSleep PROVE IInv'
  <2>1. OtherTypes'
    BY Zenon, <1>14 DEF DistillSleep, OtherTypes, zvars
  <2>2. SlotTypes' /\ ListTypes' /\ ThreadTypes'
    BY Zenon, <1>14
       DEF DistillSleep, SlotTypes, svars, locks, ListTypes, bvars,
           ThreadTypes, locals
  <2>3. \A u \in Thread : Reserved(u)'
    BY Zenon, <1>14 DEF Reserved, DistillSleep, locals
  <2>4. Writer'
    BY Zenon, <1>14, WriterFrame DEF ThreadTypes, DistillSleep, svars, locks, locals
  <2>5. Window' /\ Promise' /\ LiveEntriesOnDisk'
    BY Zenon, <1>14
       DEF Window, Promise, Tokens, LiveEntriesOnDisk, DistillSleep,
           svars, locks, locals
  <2> QED BY <2>1, <2>2, <2>3, <2>4, <2>5 DEF IInv, TypeOK
<1> QED BY Zenon, <1>12, <1>13, <1>30, <1>14

\* The cursor thread and the transaction groups.
LEMMA StepZfs ==
  ASSUME SlotTypes, ListTypes, ThreadTypes, OtherTypes, Window, Promise,
         Writer, LiveEntriesOnDisk, \A u \in Thread : Reserved(u)
  PROVE  /\ CursorAssign => IInv'
         /\ CursorHold => IInv'
         /\ CursorStart => IInv'
         /\ CursorEnd => IInv'
         /\ TxgQuiesce => IInv'
         /\ TxgSync => IInv'
<1> USE ThreadAssumption, TotalAssumption
<1>15. ASSUME CursorAssign PROVE IInv'
  <2>1. OtherTypes'
    BY Zenon, <1>15 DEF CursorAssign, OtherTypes, zvars
  <2>2. SlotTypes' /\ ListTypes' /\ ThreadTypes'
    BY Zenon, <1>15
       DEF CursorAssign, SlotTypes, svars, locks, ListTypes, bvars,
           ThreadTypes, locals
  <2>3. \A u \in Thread : Reserved(u)'
    BY Zenon, <1>15 DEF Reserved, CursorAssign, locals
  <2>4. Writer'
    BY Zenon, <1>15, WriterFrame DEF ThreadTypes, CursorAssign, svars, locks, locals
  <2>5. Window' /\ Promise' /\ LiveEntriesOnDisk'
    BY Zenon, <1>15
       DEF Window, Promise, Tokens, LiveEntriesOnDisk, CursorAssign,
           svars, locks, locals
  <2> QED BY <2>1, <2>2, <2>3, <2>4, <2>5 DEF IInv, TypeOK
<1>31. ASSUME CursorHold PROVE IInv'
  <2>1. OtherTypes'
    BY Zenon, <1>31 DEF CursorHold, OtherTypes, zvars
  <2>2. SlotTypes' /\ ListTypes' /\ ThreadTypes'
    BY ZenonT(30), <1>31
       DEF CursorHold, SlotTypes, svars, locks, ListTypes, bvars,
           ThreadTypes, locals
  <2>3. \A u \in Thread : Reserved(u)'
    BY ZenonT(30), <1>31 DEF Reserved, CursorHold, locals
  <2>4. Writer'
    BY Zenon, <1>31, WriterFrame DEF ThreadTypes, CursorHold, svars, locks, locals
  <2>5. Window' /\ Promise' /\ LiveEntriesOnDisk'
    BY ZenonT(30), <1>31
       DEF Window, Promise, Tokens, LiveEntriesOnDisk, CursorHold, svars,
           locks, locals
  <2> QED BY <2>1, <2>2, <2>3, <2>4, <2>5 DEF IInv, TypeOK
<1>16. ASSUME CursorStart PROVE IInv'
  <2>1. ListTypes'
    BY Zenon, <1>16 DEF CursorStart, ListTypes, bvars, OtherTypes
  <2>2. OtherTypes'
    BY Zenon, <1>16 DEF CursorStart, OtherTypes, zvars
  <2>3. SlotTypes' /\ ThreadTypes'
    BY Zenon, <1>16 DEF CursorStart, SlotTypes, svars, locks, ThreadTypes, locals
  <2>4. \A u \in Thread : Reserved(u)'
    BY Zenon, <1>16 DEF Reserved, CursorStart, locals
  <2>5. Writer'
    BY Zenon, <1>16, WriterFrame DEF ThreadTypes, CursorStart, svars, locks, locals
  <2>6. Window' /\ Promise' /\ LiveEntriesOnDisk'
    BY Zenon, <1>16
       DEF Window, Promise, Tokens, LiveEntriesOnDisk, CursorStart, svars,
           locks, locals
  <2> QED BY SMTT(30), <2>1, <2>2, <2>3, <2>4, <2>5, <2>6 DEF IInv, TypeOK
<1>17. ASSUME CursorEnd PROVE IInv'
  <2>1. OtherTypes'
    BY Zenon, <1>17 DEF CursorEnd, OtherTypes, zvars
  <2>2. SlotTypes' /\ ListTypes' /\ ThreadTypes'
    BY ZenonT(30), <1>17
       DEF CursorEnd, SlotTypes, svars, locks, ListTypes, bvars,
           ThreadTypes, locals
  <2>3. \A u \in Thread : Reserved(u)'
    BY ZenonT(30), <1>17 DEF Reserved, CursorEnd, locals
  <2>4. Writer'
    BY Zenon, <1>17, WriterFrame DEF ThreadTypes, CursorEnd, svars, locks, locals
  <2>5. Window' /\ Promise' /\ LiveEntriesOnDisk'
    BY ZenonT(30), <1>17
       DEF Window, Promise, Tokens, LiveEntriesOnDisk, CursorEnd, svars,
           locks, locals
  <2> QED BY <2>1, <2>2, <2>3, <2>4, <2>5 DEF IInv, TypeOK
<1>18. ASSUME TxgQuiesce PROVE IInv'
  <2>1. OtherTypes'
    <3>1. tx_open' \in BOOLEAN
      BY <1>18, Zenon DEF TxgQuiesce
    <3>2. open_txg' \in Nat
      BY <1>18 DEF TxgQuiesce, OtherTypes
    <3> QED BY Zenon, <1>18, <3>1, <3>2 DEF TxgQuiesce, OtherTypes
  <2>2. SlotTypes' /\ ListTypes' /\ ThreadTypes'
    BY ZenonT(30), <1>18
       DEF TxgQuiesce, SlotTypes, svars, locks, ListTypes, bvars,
           ThreadTypes, locals
  <2>3. \A u \in Thread : Reserved(u)'
    BY ZenonT(30), <1>18 DEF Reserved, TxgQuiesce, locals
  <2>4. Writer'
    BY Zenon, <1>18, WriterFrame DEF ThreadTypes, TxgQuiesce, svars, locks, locals
  <2>5. Window' /\ Promise' /\ LiveEntriesOnDisk'
    BY Zenon, <1>18
       DEF Window, Promise, Tokens, LiveEntriesOnDisk, TxgQuiesce, svars,
           locks, locals
  <2> QED BY <2>1, <2>2, <2>3, <2>4, <2>5 DEF IInv, TypeOK
<1>19. ASSUME TxgSync PROVE IInv'
  <2>1. OtherTypes'
    BY <1>19 DEF TxgSync, OtherTypes, zvars
  <2>2. SlotTypes' /\ ListTypes' /\ ThreadTypes'
    BY ZenonT(30), <1>19
       DEF TxgSync, SlotTypes, svars, locks, ListTypes, bvars,
           ThreadTypes, locals
  <2>3. \A u \in Thread : Reserved(u)'
    BY ZenonT(30), <1>19 DEF Reserved, TxgSync, locals
  <2>4. Writer'
    BY Zenon, <1>19, WriterFrame DEF ThreadTypes, TxgSync, svars, locks, locals
  <2>5. Window' /\ Promise' /\ LiveEntriesOnDisk'
    BY Zenon, <1>19
       DEF Window, Promise, Tokens, LiveEntriesOnDisk, TxgSync, svars,
           locks, locals
  <2> QED BY <2>1, <2>2, <2>3, <2>4, <2>5 DEF IInv, TypeOK
<1> QED BY Zenon, <1>15, <1>31, <1>16, <1>17, <1>18, <1>19

\* Every step preserves the invariant.
LEMMA StepIInv ==
  ASSUME TokenFacts, IInv, [Next]_vars
  PROVE  IInv'
<1>0. /\ SlotTypes /\ ListTypes /\ ThreadTypes /\ OtherTypes
      /\ Window /\ Promise /\ Writer /\ LiveEntriesOnDisk
      /\ \A u \in Thread : Reserved(u)
  BY Zenon DEF IInv, TypeOK
<1>1. CASE UNCHANGED vars
  <2>1. SlotTypes' /\ ListTypes' /\ ThreadTypes' /\ OtherTypes'
    <3>1. SlotTypes' BY Zenon, <1>0, <1>1 DEF vars, svars, locks, SlotTypes
    <3>2. ListTypes' BY Zenon, <1>0, <1>1 DEF vars, bvars, ListTypes
    <3>3. ThreadTypes' BY Zenon, <1>0, <1>1 DEF vars, locals, ThreadTypes
    <3>4. OtherTypes' BY Zenon, <1>0, <1>1 DEF vars, zvars, OtherTypes
    <3> QED BY Zenon, <3>1, <3>2, <3>3, <3>4
  <2>2. Window' /\ Promise' /\ Writer' /\ LiveEntriesOnDisk'
    BY ZenonT(30), <1>0, <1>1
       DEF vars, svars, locks, locals, Window, Promise, Tokens, Writer,
                 LiveEntriesOnDisk
  <2>3. \A u \in Thread : Reserved(u)'
    BY ZenonT(30), <1>0, <1>1 DEF vars, locals, Reserved
  <2> QED BY Zenon, <2>1, <2>2, <2>3 DEF IInv, TypeOK
<1>2. ASSUME NEW t \in Thread, NEW k \in AllKinds, Start(t, k) PROVE IInv'
  BY Zenon, <1>0, <1>2, StepStart
<1>3. ASSUME NEW t \in Thread, ThreadStep(t) \/ OpFails(t) PROVE IInv'
  <2>1. /\ ReserveLock(t) => IInv'
        /\ ReserveOver(t) => IInv'
        /\ ReserveWait(t) => IInv'
        /\ ReserveSynced(t) => IInv'
    BY Zenon, <1>0, StepReserve
  <2>2. ReserveTake(t) => IInv' BY Zenon, <1>0, StepReserveTake
  <2>3. ReserveFree(t) => IInv' BY Zenon, <1>0, StepReserveFree
  <2>4. Unreserve(t) => IInv' BY Zenon, <1>0, StepUnreserve
  <2>5. /\ TxHold(t) => IInv'
        /\ TxCheck(t) => IInv'
        /\ OpFails(t) => IInv'
    BY Zenon, <1>0, StepTx
  <2>6. /\ GetBuf(t) => IInv'
        /\ PutSeqBuf(t) => IInv'
        /\ Xnew(t) => IInv'
    BY Zenon, <1>0, StepBuf
  <2>7. NextSlot(t) => IInv' BY Zenon, <1>0, StepNextSlot
  <2>8. LogWritten(t) => IInv' BY Zenon, <1>0, StepLogWritten
  <2>9. (Written(t) => IInv') /\ (Commit(t) => IInv')
    BY Zenon, <1>0, StepWritten
  <2> QED
    BY Zenon, <1>3, <2>1, <2>2, <2>3, <2>4, <2>5, <2>6, <2>7, <2>8, <2>9
       DEF ThreadStep
<1>4. DistillStep => IInv'
  <2>1. /\ DistillTake => IInv'
        /\ DistillHandler => IInv'
        /\ DistillCheck => IInv'
        /\ DistillSleep => IInv'
    BY Zenon, <1>0, StepDistill
  <2>2. DistillDone => IInv' BY Zenon, <1>0, StepDistillDone
  <2>3. DistillReclaim => IInv' BY Zenon, <1>0, StepDistillReclaim
  <2> QED BY Zenon, <2>1, <2>2, <2>3 DEF DistillStep
<1>5. /\ CursorStep => IInv'
      /\ TxgQuiesce => IInv'
      /\ TxgSync => IInv'
  <2>1. /\ CursorAssign => IInv'
        /\ CursorHold => IInv'
        /\ CursorStart => IInv'
        /\ CursorEnd => IInv'
        /\ TxgQuiesce => IInv'
        /\ TxgSync => IInv'
    BY Zenon, <1>0, StepZfs
  <2> QED BY Zenon, <2>1 DEF CursorStep
<1> QED BY Zenon, <1>1, <1>2, <1>3, <1>4, <1>5 DEF Next

\* A thread about to write finds the slot it was promised.
LEMMA IInvNextSlotFree ==
  ASSUME TokenFacts, IInv
  PROVE  NextSlotFree
<1> SUFFICES ASSUME NEW t \in Thread, pc[t] = "logwrite"
             PROVE  /\ pj_resrv > 0
                    /\ pj_pendingxids # <<>> =>
                         Head(pj_pendingxids).slot # pj_nextwrite
  BY Zenon DEF NextSlotFree
<1> DEFINE n == Len(pj_pendingxids)
<1>1. /\ left \in [Thread -> 0 .. 2] /\ resv \in [Thread -> 0 .. 2]
      /\ left[t] > 0 /\ resv[t] > 0
  BY DEF IInv, TypeOK, ThreadTypes, Reserved
<1>2. /\ Cardinality(Tokens(left)) \in Nat
      /\ Cardinality(Tokens(resv)) \in Nat
      /\ Cardinality(Tokens([left EXCEPT ![t] = left[t] - 1])) \in Nat
      /\ Cardinality(Tokens([resv EXCEPT ![t] = resv[t] - 1])) \in Nat
  <2>1. /\ [left EXCEPT ![t] = left[t] - 1] \in [Thread -> 0 .. 2]
        /\ [resv EXCEPT ![t] = resv[t] - 1] \in [Thread -> 0 .. 2]
    BY <1>1
  <2> QED BY Zenon, <1>1, <2>1, TokensNat
<1>3. Cardinality(Tokens(left)) > 0 /\ Cardinality(Tokens(resv)) > 0
  <2>1. Cardinality(Tokens(left)) - 1 \in Nat
    BY Zenon, <1>1, <1>2, TokensLess
  <2>2. Cardinality(Tokens(resv)) - 1 \in Nat
    BY Zenon, <1>1, <1>2, TokensLess
  <2> QED BY <1>2, <2>1, <2>2
<1>4. pj_resrv > 0 BY Zenon, <1>3 DEF IInv, Promise
<1>5. ASSUME pj_pendingxids # <<>>
      PROVE  Head(pj_pendingxids).slot # pj_nextwrite
  <2>1. /\ pj_pendingxids \in Seq(Handle) /\ n \in Nat /\ pj_inuse = n
        /\ Total \in Nat
    BY Zenon, TotalAssumption DEF IInv, TypeOK, SlotTypes, Window
  <2>2. n > 0 /\ n < Total
    BY SMTT(30), <1>2, <1>3, <1>5, <2>1 DEF IInv, Promise
  <2>3. /\ Head(pj_pendingxids) = pj_pendingxids[1]
        /\ pj_pendingxids[1].slot \in Slot
    <3>1. pj_pendingxids[1] \in Handle BY <2>1, <2>2, SeqElement
    <3> QED BY <3>1 DEF Handle
  <2>4. pj_nextwrite = Wrap(pj_pendingxids[1].slot + n)
    BY <2>1, <2>2 DEF IInv, Window
  <2>5. Wrap(pj_pendingxids[1].slot + 0) = pj_pendingxids[1].slot
    BY <2>3, TotalAssumption DEF Wrap, Slot
  <2> QED BY SMTT(30), <2>1, <2>2, <2>3, <2>4, <2>5, WrapDistinct
<1> QED BY Zenon, <1>4, <1>5

------------------------------------------------------------------------------
\* Reservations are finite sets of tokens; one more or one less.
LEMMA FiniteTokens ==
  ASSUME NEW f \in [Thread -> 0 .. 2]
  PROVE  IsFiniteSet(Tokens(f)) /\ Cardinality(Tokens(f)) \in Nat
<1> DEFINE P1 == {<<t, 1>> : t \in Thread}
           P2 == {<<t, 2>> : t \in Thread}
<1>1. IsFiniteSet(P1)
  <2> DEFINE g == [t \in Thread |-> <<t, 1>>]
  <2>1. g \in Surjection(Thread, P1) BY ZenonT(30) DEF Surjection
  <2> QED BY Zenon, <2>1, FS_Surjection, ThreadAssumption
<1>2. IsFiniteSet(P2)
  <2> DEFINE g == [t \in Thread |-> <<t, 2>>]
  <2>1. g \in Surjection(Thread, P2) BY ZenonT(30) DEF Surjection
  <2> QED BY Zenon, <2>1, FS_Surjection, ThreadAssumption
<1>3. Tokens(f) \in SUBSET (P1 \union P2)
  BY DEF Tokens
<1>4. IsFiniteSet(P1 \union P2) BY ZenonT(30), <1>1, <1>2, FS_Union
<1> QED BY Zenon, <1>3, <1>4, FS_Subset, FS_CardinalityType

LEMMA MoreTokens ==
  ASSUME NEW f \in [Thread -> 0 .. 2], NEW t \in Thread, f[t] < 2
  PROVE  Cardinality(Tokens([f EXCEPT ![t] = @ + 1])) =
           Cardinality(Tokens(f)) + 1
<1>1. Tokens([f EXCEPT ![t] = @ + 1]) = Tokens(f) \union {<<t, f[t] + 1>>}
  BY DEF Tokens
<1>2. <<t, f[t] + 1>> \notin Tokens(f)
  BY DEF Tokens
<1> QED BY ZenonT(30), <1>1, <1>2, FiniteTokens, FS_AddElement

LEMMA LessTokens ==
  ASSUME NEW f \in [Thread -> 0 .. 2], NEW t \in Thread, f[t] > 0
  PROVE  Cardinality(Tokens([f EXCEPT ![t] = @ - 1])) =
           Cardinality(Tokens(f)) - 1
<1>1. Tokens([f EXCEPT ![t] = @ - 1]) = Tokens(f) \ {<<t, f[t]>>}
  BY DEF Tokens
<1>2. <<t, f[t]>> \in Tokens(f)
  BY DEF Tokens
<1> QED BY ZenonT(30), <1>1, <1>2, FiniteTokens, FS_RemoveElement

LEMMA NoTokens ==
  ASSUME NEW f \in [Thread -> 0 .. 2], NEW t \in Thread
  PROVE  Cardinality(Tokens([f EXCEPT ![t] = 0])) =
           Cardinality(Tokens(f)) - f[t]
<1> DEFINE T == Tokens(f)
           T2 == T \ {<<t, 2>>}
           T1 == T2 \ {<<t, 1>>}
<1>1. Tokens([f EXCEPT ![t] = 0]) = T1
  BY DEF Tokens
<1>2. /\ <<t, 2>> \in T <=> f[t] = 2
      /\ <<t, 1>> \in T2 <=> f[t] > 0
  BY DEF Tokens
<1>3. IsFiniteSet(T) /\ Cardinality(T) \in Nat BY Zenon, FiniteTokens
<1> HIDE DEF T
<1>4. /\ IsFiniteSet(T2)
      /\ Cardinality(T2) = IF f[t] = 2 THEN Cardinality(T) - 1
                           ELSE Cardinality(T)
  BY Zenon, <1>2, <1>3, FS_RemoveElement
<1> HIDE DEF T2
<1>5. Cardinality(T1) = IF f[t] > 0 THEN Cardinality(T2) - 1
                        ELSE Cardinality(T2)
  BY ZenonT(30), <1>2, <1>4, FS_RemoveElement
<1>6. Cardinality(T1) = Cardinality(T) - f[t]
  BY <1>3, <1>4, <1>5
<1> QED BY ZenonT(30), <1>1, <1>6 DEF T

\* What may still be written was reserved.
LEMMA FewerTokens ==
  ASSUME NEW f \in [Thread -> 0 .. 2], NEW g \in [Thread -> 0 .. 2],
         \A t \in Thread : f[t] <= g[t]
  PROVE  Cardinality(Tokens(f)) <= Cardinality(Tokens(g))
<1>1. Tokens(f) \in SUBSET Tokens(g) BY DEF Tokens
<1> QED BY Zenon, <1>1, FiniteTokens, FS_Subset

LEMMA TokenFactsHold == TokenFacts
<1> SUFFICES ASSUME NEW f \in [Thread -> 0 .. 2]
             PROVE  TokenFacts!(f)
  BY Zenon DEF TokenFacts
<1>1. (\A t \in Thread : f[t] = 0) => Cardinality(Tokens(f)) = 0
  <2>1. (\A t \in Thread : f[t] = 0) => Tokens(f) = {} BY DEF Tokens
  <2> QED BY Zenon, <2>1, FS_EmptySet
<1> HIDE DEF Tokens
<1> QED BY Zenon, <1>1, FiniteTokens, MoreTokens, LessTokens, NoTokens, FewerTokens

------------------------------------------------------------------------------
\* Every reachable state of the journal satisfies the inductive invariant.
THEOREM JournalInvariant == Spec => []IInv
<1>1. Init => IInv BY Zenon, TokenFactsHold, InitIInv
<1>2. IInv /\ [Next]_vars => IInv' BY Zenon, TokenFactsHold, StepIInv
<1> QED BY <1>1, <1>2, PTL DEF Spec

\* The variables of the journal keep their types, whatever the threads, the
\* distill thread and ZFS do.
THEOREM JournalTypeOK == Spec => []TypeOK
<1>1. IInv => TypeOK BY Zenon DEF IInv
<1> QED BY <1>1, JournalInvariant, PTL

\* The reservation protocol of pjournal_reserve_slot works: the entries in use
\* and those still promised always fit in the journal.
THEOREM JournalSlotsSuffice == Spec => []SlotsSuffice
<1>1. IInv => SlotsSuffice BY Zenon DEF IInv, Window, Promise, SlotsSuffice
<1> QED BY <1>1, JournalInvariant, PTL

\* No entry that is still in use is overwritten by a later log write.
THEOREM JournalLiveEntriesOnDisk == Spec => []LiveEntriesOnDisk
<1>1. IInv => LiveEntriesOnDisk BY Zenon DEF IInv
<1> QED BY <1>1, JournalInvariant, PTL

\* The assertions of pjournal_next_slot never fail.
THEOREM JournalNextSlotFree == Spec => []NextSlotFree
<1>1. IInv => NextSlotFree BY Zenon, TokenFactsHold, IInvNextSlotFree
<1> QED BY <1>1, JournalInvariant, PTL
==============================================================================
