----------------------------- MODULE JournalInv ------------------------------
(***************************************************************************)
(* The inductive invariant of module Journal, and that the steps that take *)
(* buffers and slots, log entries and reclaim them keep it.  What is       *)
(* needed of the counting of reservations is TokenFacts; module            *)
(* JournalProofs proves it, does the other steps and draws the             *)
(* conclusions.                                                            *)
(***************************************************************************)
EXTENDS Journal, TLAPS

\* The entries in use occupy consecutive slots, round the end of the journal,
\* that stop just before the next slot to write.
Wrap(n) == IF n < Total THEN n ELSE n - Total
Window ==
  /\ pj_inuse = Len(pj_pendingxids)
  /\ pj_inuse <= Total
  /\ \A i \in 1 .. Len(pj_pendingxids) :
       pj_nextwrite = Wrap(pj_pendingxids[i].slot
                           + (Len(pj_pendingxids) - i + 1))

\* What the threads have reserved, and may still write, is counted.
Promise ==
  /\ pj_resrv = Cardinality(Tokens(resv))
  /\ pj_inuse + Cardinality(Tokens(left)) <= Total

\* Where a thread is tells what it has reserved and may still write.
Reserved(t) ==
  /\ left[t] <= resv[t]
  /\ pc[t] \in {"idle", "reserve_lock", "put_buf"} => resv[t] = 0
  /\ pc[t] \in {"tx", "hold"} => op[t] # "seq"
  /\ op[t] = "seq" /\ pc[t] \in {"get_buf", "wait_buf"} => resv[t] = 0
  /\ pc[t] \in {"reserve", "wait_slot", "wait_synced"} =>
       left[t] = resv[t] /\ resv[t] < Count(op[t])
  /\ pc[t] \in {"tx", "hold", "xnew", "logwrite"} => left[t] > 0
  /\ op[t] # "seq" /\ pc[t] \in {"get_buf", "wait_buf"} => left[t] > 0

\* The writer is the thread that holds writelock, and its entry is the last.
Writer ==
  /\ \A t \in Thread : pc[t] = "io" => writelock = t
  /\ writelock # NoThread =>
       /\ pc[writelock] = "io"
       /\ pj_nextwrite = Wrap(slot[writelock] + 1)
       /\ pj_pendingxids # <<>> =>
            /\ pj_pendingxids[Len(pj_pendingxids)].slot = slot[writelock]
            /\ pj_pendingxids[Len(pj_pendingxids)].xid = xid[writelock]

IInv == /\ TypeOK /\ Window /\ Promise /\ Writer /\ LiveEntriesOnDisk
        /\ \A t \in Thread : Reserved(t)

------------------------------------------------------------------------------
\* Reservations are counted as sets of tokens: none, one more, one less, all of
\* a thread's given back, and no more than others.
TokenFacts ==
  \A f \in [Thread -> 0 .. 2] :
    /\ Cardinality(Tokens(f)) \in Nat
    /\ (\A t \in Thread : f[t] = 0) => Cardinality(Tokens(f)) = 0
    /\ \A t \in Thread :
         /\ f[t] < 2 => Cardinality(Tokens([f EXCEPT ![t] = f[t] + 1])) =
                          Cardinality(Tokens(f)) + 1
         /\ f[t] > 0 => Cardinality(Tokens([f EXCEPT ![t] = f[t] - 1])) =
                          Cardinality(Tokens(f)) - 1
         /\ Cardinality(Tokens([f EXCEPT ![t] = 0])) =
              Cardinality(Tokens(f)) - f[t]
    /\ \A g \in [Thread -> 0 .. 2] :
         (\A t \in Thread : f[t] <= g[t]) =>
           Cardinality(Tokens(f)) <= Cardinality(Tokens(g))

LEMMA TokensNat ==
  ASSUME TokenFacts, NEW f \in [Thread -> 0 .. 2]
  PROVE  Cardinality(Tokens(f)) \in Nat
BY Zenon DEF TokenFacts

LEMMA TokensMore ==
  ASSUME TokenFacts, NEW f \in [Thread -> 0 .. 2], NEW t \in Thread, f[t] < 2
  PROVE  Cardinality(Tokens([f EXCEPT ![t] = f[t] + 1])) =
           Cardinality(Tokens(f)) + 1
BY Zenon DEF TokenFacts

LEMMA TokensLess ==
  ASSUME TokenFacts, NEW f \in [Thread -> 0 .. 2], NEW t \in Thread, f[t] > 0
  PROVE  Cardinality(Tokens([f EXCEPT ![t] = f[t] - 1])) =
           Cardinality(Tokens(f)) - 1
BY Zenon DEF TokenFacts

LEMMA TokensNone ==
  ASSUME TokenFacts, NEW f \in [Thread -> 0 .. 2], NEW t \in Thread
  PROVE  Cardinality(Tokens([f EXCEPT ![t] = 0])) =
           Cardinality(Tokens(f)) - f[t]
BY Zenon DEF TokenFacts

LEMMA TokensMono ==
  ASSUME TokenFacts, NEW f \in [Thread -> 0 .. 2], NEW g \in [Thread -> 0 .. 2],
         \A t \in Thread : f[t] <= g[t]
  PROVE  Cardinality(Tokens(f)) <= Cardinality(Tokens(g))
BY Zenon DEF TokenFacts

LEMMA OneLess ==
  ASSUME NEW a \in Nat, NEW b \in Nat, a <= b
  PROVE  a - 1 <= b
OBVIOUS

\* Sequences: an element, one more at the end, the first or the first n gone.
LEMMA SeqElement ==
  ASSUME NEW S, NEW s \in Seq(S), NEW i \in 1 .. Len(s)
  PROVE  s[i] \in S
OBVIOUS

LEMMA SeqNonEmpty ==
  ASSUME NEW S, NEW s \in Seq(S), s # <<>>
  PROVE  1 \in 0 .. Len(s)
OBVIOUS

LEMMA SeqAppend ==
  ASSUME NEW S, NEW s \in Seq(S), NEW e \in S
  PROVE  /\ Append(s, e) \in Seq(S)
         /\ Len(Append(s, e)) = Len(s) + 1
         /\ \A i \in 1 .. Len(s) : Append(s, e)[i] = s[i]
         /\ Append(s, e)[Len(s) + 1] = e
OBVIOUS

LEMMA SeqTail ==
  ASSUME NEW S, NEW s \in Seq(S), s # <<>>
  PROVE  /\ Tail(s) \in Seq(S) /\ Len(Tail(s)) = Len(s) - 1
         /\ \A i \in 1 .. Len(Tail(s)) : Tail(s)[i] = s[i + 1]
         /\ Head(s) \in S
OBVIOUS

LEMMA SeqDrop ==
  ASSUME NEW S, NEW s \in Seq(S), NEW n \in 0 .. Len(s)
  PROVE  /\ SubSeq(s, n + 1, Len(s)) \in Seq(S)
         /\ Len(SubSeq(s, n + 1, Len(s))) = Len(s) - n
         /\ \A i \in 1 .. Len(s) - n : SubSeq(s, n + 1, Len(s))[i] = s[i + n]
OBVIOUS

\* A sequence changed in place is a sequence of the same length.
LEMMA MapSeq ==
  ASSUME NEW S, NEW s \in Seq(S), NEW f \in [DOMAIN s -> S]
  PROVE  f \in Seq(S) /\ Len(f) = Len(s) /\ DOMAIN s = 1 .. Len(s)
OBVIOUS

\* A thread that is only woken keeps what it has reserved.
Wakes(u) ==
  \/ pc'[u] = pc[u]
  \/ pc[u] = "wait_slot" /\ pc'[u] = "reserve"
  \/ pc[u] = "wait_buf" /\ pc'[u] = "get_buf"

LEMMA ReservedFrame ==
  ASSUME NEW u \in Thread, Reserved(u), Wakes(u), op'[u] = op[u],
         resv'[u] = resv[u], left'[u] = left[u]
  PROVE  Reserved(u)'
BY Zenon DEF Reserved, Wakes, Count

\* A thread that wrote an entry goes back for a buffer only if it has one
\* more entry to write.
LEMMA ReservedWritten ==
  ASSUME NEW t \in Thread, pc'[t] \in {"get_buf", "commit", "unreserve"},
         pc'[t] = "get_buf" => op[t] = "rename" /\ left[t] = 1,
         op' = op, resv' = resv, left' = left, left[t] <= resv[t]
  PROVE  Reserved(t)'
BY DEF Reserved

\* A step that neither logs nor ends a log write leaves the writer alone.
LEMMA WriterFrame ==
  ASSUME SlotTypes, Writer,
         UNCHANGED << pj_nextwrite, pj_pendingxids, writelock >>,
         \A u \in Thread :
           /\ pc'[u] = "io" <=> pc[u] = "io"
           /\ pc[u] = "io" => slot'[u] = slot[u] /\ xid'[u] = xid[u]
  PROVE  Writer'
<1>1. writelock \in Thread \/ writelock = NoThread
  BY Zenon DEF SlotTypes
<1> QED BY Zenon, <1>1, ThreadAssumption DEF Writer

\* Going round the journal: the next slot, and slots less than a round apart.
LEMMA WrapStep ==
  ASSUME NEW s \in Slot, NEW k \in Nat, k < Total
  PROVE  /\ Wrap(s + (k + 1)) = IF Wrap(s + k) + 1 = Total THEN 0
                                ELSE Wrap(s + k) + 1
         /\ Wrap(s + (k + 1)) \in Slot
BY TotalAssumption DEF Wrap, Slot

LEMMA WrapNext ==
  ASSUME NEW s \in Slot, NEW k \in Nat, k < Total
  PROVE  Wrap(Wrap(s + k) + 1) = Wrap(s + (k + 1))
BY TotalAssumption DEF Wrap, Slot

LEMMA Behind ==
  ASSUME NEW n \in Nat, NEW i \in 1 .. n
  PROVE  /\ n - i + 1 \in Nat /\ n - i + 1 <= n
         /\ n + 1 - i + 1 = n - i + 1 + 1
         /\ i # n => 1 < n - i + 1
OBVIOUS

LEMMA WrapDistinct ==
  ASSUME NEW s \in Slot, NEW j \in Nat, NEW k \in Nat,
         j < k, k < j + Total, k <= Total
  PROVE  Wrap(s + j) # Wrap(s + k)
BY TotalAssumption DEF Wrap, Slot

\* Freeing the n oldest entries in use.
LEMMA DropEntries ==
  ASSUME TokenFacts, SlotTypes, ThreadTypes, Window, Promise, Writer,
         LiveEntriesOnDisk,
         NEW n \in 0 .. Len(pj_pendingxids),
         pj_pendingxids' \in Seq(Handle),
         Len(pj_pendingxids') = Len(pj_pendingxids) - n,
         \A i \in 1 .. Len(pj_pendingxids') :
           pj_pendingxids'[i] = pj_pendingxids[i + n],
         pj_inuse' = pj_inuse - n,
         UNCHANGED << pj_resrv, pj_nextwrite, disk, writelock, pc, resv, left,
                      slot, xid >>
  PROVE  /\ pj_inuse' \in Nat
         /\ Window' /\ Promise' /\ Writer' /\ LiveEntriesOnDisk'
<1>1. /\ Len(pj_pendingxids) \in Nat /\ pj_inuse = Len(pj_pendingxids)
      /\ DOMAIN pj_pendingxids = 1 .. Len(pj_pendingxids)
      /\ Len(pj_pendingxids') \in Nat
      /\ DOMAIN pj_pendingxids' = 1 .. Len(pj_pendingxids')
      /\ Total \in Nat
  BY TotalAssumption DEF SlotTypes, Window
<1>2. pj_inuse' \in Nat BY Zenon, <1>1
<1>3. Window'
  <2>1. ASSUME NEW i \in 1 .. Len(pj_pendingxids')
        PROVE  pj_nextwrite' = Wrap(pj_pendingxids'[i].slot
                                    + (Len(pj_pendingxids') - i + 1))
    <3>1. /\ i + n \in 1 .. Len(pj_pendingxids)
          /\ Len(pj_pendingxids) - (i + n) + 1 = Len(pj_pendingxids') - i + 1
      BY <1>1
    <3> QED BY ZenonT(30), <3>1 DEF Window
  <2>2. pj_inuse' = Len(pj_pendingxids') /\ pj_inuse' <= Total
    BY <1>1 DEF Window
  <2> QED BY Zenon, <2>1, <2>2 DEF Window, Wrap
<1>4. Promise'
  <2>1. Tokens(left)' = Tokens(left) /\ Tokens(resv)' = Tokens(resv)
    BY Zenon DEF Tokens
  <2>2. pj_inuse' + Cardinality(Tokens(left)) <= Total
    <3>1. left \in [Thread -> 0 .. 2] BY Zenon DEF ThreadTypes
    <3>2. Cardinality(Tokens(left)) \in Nat BY Zenon, <3>1, TokensNat
    <3> QED BY <1>1, <3>2 DEF Promise
  <2>3. pj_resrv' = Cardinality(Tokens(resv))
    BY Zenon DEF Promise
  <2> HIDE DEF Tokens
  <2> QED BY Zenon, <2>1, <2>2, <2>3 DEF Promise
<1>5. Writer'
  <2>1. pj_pendingxids' # <<>> =>
          /\ pj_pendingxids # <<>>
          /\ pj_pendingxids'[Len(pj_pendingxids')] =
               pj_pendingxids[Len(pj_pendingxids)]
    BY <1>1
  <2> QED BY Zenon, <2>1 DEF Writer
<1>6. LiveEntriesOnDisk'
  <2> SUFFICES ASSUME NEW i \in 1 .. Len(pj_pendingxids')
               PROVE  \/ disk[pj_pendingxids'[i].slot] = pj_pendingxids'[i].xid
                      \/ i = Len(pj_pendingxids') /\ writelock # NoThread
    BY Zenon, <1>1 DEF LiveEntriesOnDisk
  <2>1. /\ i + n \in DOMAIN pj_pendingxids
        /\ i + n = Len(pj_pendingxids) => i = Len(pj_pendingxids')
    BY <1>1
  <2> QED BY Zenon, <2>1 DEF LiveEntriesOnDisk
<1> QED BY Zenon, <1>2, <1>3, <1>4, <1>5, <1>6

\* An entry logged at pj_nextwrite extends the window by one slot, and only it
\* may not be on disk yet.
LEMMA AppendEntry ==
  ASSUME NEW h \in Handle, SlotTypes, Window, LiveEntriesOnDisk,
         pj_inuse < Total, h.slot = pj_nextwrite,
         pj_pendingxids' = Append(pj_pendingxids, h),
         pj_inuse' = pj_inuse + 1, pj_nextwrite' = Wrap(pj_nextwrite + 1),
         disk' = disk, writelock = NoThread, writelock' # NoThread
  PROVE  /\ pj_pendingxids' \in Seq(Handle) /\ Window' /\ LiveEntriesOnDisk'
         /\ pj_pendingxids'[Len(pj_pendingxids')] = h
<1> DEFINE n == Len(pj_pendingxids)
           s == pj_pendingxids'
<1> USE TotalAssumption
<1>1. /\ pj_pendingxids \in Seq(Handle) /\ n \in Nat
      /\ DOMAIN pj_pendingxids = 1 .. n
  BY DEF SlotTypes
<1>2. /\ s \in Seq(Handle) /\ Len(s) = n + 1 /\ DOMAIN s = 1 .. n + 1
      /\ \A i \in 1 .. n : s[i] = pj_pendingxids[i]
      /\ s[n + 1] = h
  BY <1>1, SeqAppend
<1>3. pj_inuse = n /\ n < Total /\ pj_nextwrite \in Slot
  BY Zenon DEF Window, SlotTypes
<1>4. ASSUME NEW i \in 1 .. n
      PROVE  pj_nextwrite' = Wrap(s[i].slot + (n + 1 - i + 1))
  <2>1. pj_pendingxids[i] \in Handle
    BY Zenon, <1>1, <1>4, SeqElement
  <2>2. pj_pendingxids[i].slot \in Slot
    BY Zenon, <2>1 DEF Handle
  <2>3. pj_nextwrite = Wrap(pj_pendingxids[i].slot + (n - i + 1))
    BY Zenon, <1>4 DEF Window
  <2>4. /\ n - i + 1 \in Nat /\ n - i + 1 < Total
        /\ n + 1 - i + 1 = (n - i + 1) + 1
    BY <1>1, <1>3, <1>4
  <2>5. Wrap(pj_nextwrite + 1) =
          Wrap(pj_pendingxids[i].slot + ((n - i + 1) + 1))
    BY Zenon, <2>2, <2>3, <2>4, WrapNext
  <2> QED BY Zenon, <1>2, <1>4, <2>4, <2>5
<1>5. pj_nextwrite' = Wrap(s[n + 1].slot + (n + 1 - (n + 1) + 1))
  <2>1. n + 1 - (n + 1) + 1 = 1 BY <1>1
  <2> QED BY Zenon, <1>2, <2>1
<1>6. ASSUME NEW i \in 1 .. n + 1
      PROVE  pj_nextwrite' = Wrap(s[i].slot + (n + 1 - i + 1))
  <2>1. i \in 1 .. n \/ i = n + 1 BY <1>1, <1>6
  <2> HIDE DEF n, s
  <2> QED BY Zenon, <1>4, <1>5, <2>1
<1>7. Window'
  <2>1. pj_inuse' = Len(s) /\ pj_inuse' <= Total
    BY <1>1, <1>2, <1>3
  <2>2. \A i \in 1 .. Len(s) : pj_nextwrite' = Wrap(s[i].slot + (Len(s) - i + 1))
    BY <1>2, <1>6
  <2> QED BY Zenon, <2>1, <2>2 DEF Window, Wrap
<1>8. LiveEntriesOnDisk'
  <2> SUFFICES ASSUME NEW i \in DOMAIN s
               PROVE  \/ disk[s[i].slot] = s[i].xid
                      \/ i = Len(s) /\ writelock' # NoThread
    BY Zenon DEF LiveEntriesOnDisk
  <2>1. i \in 1 .. n \/ i = n + 1 BY <1>1, <1>2
  <2>2. CASE i = n + 1 BY Zenon, <1>2, <2>2
  <2>3. CASE i \in 1 .. n
    <3>1. disk[pj_pendingxids[i].slot] = pj_pendingxids[i].xid
      BY Zenon, <1>1, <2>3 DEF LiveEntriesOnDisk
    <3> QED BY Zenon, <1>2, <2>3, <3>1
  <2> QED BY Zenon, <2>1, <2>2, <2>3
<1> QED BY Zenon, <1>2, <1>7, <1>8

\* pjournal_next_slot.
LEMMA StepNextSlot ==
  ASSUME SlotTypes, ListTypes, ThreadTypes, OtherTypes, Window, Promise,
         Writer, LiveEntriesOnDisk, \A u \in Thread : Reserved(u),
         TokenFacts, NEW t \in Thread
  PROVE  NextSlot(t) => IInv'
<1> USE ThreadAssumption, TotalAssumption
<1>24. ASSUME NextSlot(t) PROVE IInv'
  <2> DEFINE h == [xid |-> xid[t], slot |-> pj_nextwrite, txg |-> xtxg[t],
                   distill |-> Flagged(xid[t]),
                   must |-> Distill(op[t], left[t]), eff |-> txg[t],
                   dtxg |-> 0]
             n == Len(pj_pendingxids)
  <2>1. h \in Handle
    <3>1. Flagged(xid[t]) \in BOOLEAN BY ZenonT(30) DEF Flagged
    <3>2. Distill(op[t], left[t]) \in BOOLEAN BY Zenon DEF Distill
    <3> HIDE DEF Flagged, Distill
    <3> QED BY Zenon, <1>24, <3>1, <3>2 DEF ThreadTypes, SlotTypes, Handle
  <2>2. /\ pj_pendingxids \in Seq(Handle) /\ n \in Nat
        /\ DOMAIN pj_pendingxids = 1 .. n
        /\ pj_pendingxids' = Append(pj_pendingxids, h)
    BY <1>24 DEF NextSlot, SlotTypes
  <2> HIDE DEF h
  <2>4. h.slot = pj_nextwrite /\ h.xid = xid[t] BY ZenonT(30) DEF h
  <2>5. /\ left \in [Thread -> 0 .. 2] /\ left[t] > 0
        /\ left' = [left EXCEPT ![t] = left[t] - 1]
        /\ pc \in [Thread -> PCs] /\ resv \in [Thread -> 0 .. 2]
        /\ slot \in [Thread -> Slot] /\ pj_nextwrite \in Slot
    BY Zenon, <1>24 DEF NextSlot, ThreadTypes, Reserved, SlotTypes
  <2>6. left' \in [Thread -> 0 .. 2] BY <2>5
  <2>7. Promise' /\ n + 1 <= Total
    <3>1. Cardinality(Tokens(left')) = Cardinality(Tokens(left)) - 1
      BY Zenon, <2>5, TokensLess
    <3>2. /\ Cardinality(Tokens(left)) \in Nat
          /\ Cardinality(Tokens(left')) \in Nat
      BY Zenon, <2>5, <2>6, TokensNat
    <3>3. pj_inuse = n BY Zenon DEF Window
    <3>4. pj_inuse' + Cardinality(Tokens(left')) <= Total /\ n + 1 <= Total
      BY <1>24, <2>2, <3>1, <3>2, <3>3 DEF NextSlot, Promise
    <3>5. pj_resrv' = Cardinality(Tokens(resv')) 
      BY Zenon, <1>24 DEF NextSlot, Promise, Tokens
    <3> QED BY Zenon, <3>4, <3>5 DEF Promise, Tokens
  <2>8. /\ pj_pendingxids' \in Seq(Handle) /\ Window' /\ LiveEntriesOnDisk'
        /\ pj_pendingxids'[Len(pj_pendingxids')] = h
    <3>1. pj_nextwrite' = Wrap(pj_nextwrite + 1)
      BY <1>24, <2>5 DEF NextSlot, NextWrite, Wrap, Slot
    <3>2. /\ pj_inuse' = pj_inuse + 1 /\ disk' = disk
          /\ writelock = NoThread /\ writelock' # NoThread
      BY Zenon, <1>24 DEF NextSlot
    <3>3. pj_inuse < Total
      BY <2>2, <2>7 DEF Window
    <3> QED BY Zenon, <2>1, <2>2, <2>4, <3>1, <3>2, <3>3, AppendEntry
  <2>9. SlotTypes'
    <3>1. pj_nextwrite' \in Slot
      BY <1>24, <2>5 DEF NextSlot, NextWrite, Slot
    <3>2. /\ pj_resrv' = pj_resrv /\ pj_inuse' = pj_inuse + 1
          /\ disk' = disk /\ reserve_lock' = reserve_lock /\ writelock' = t
      BY Zenon, <1>24 DEF NextSlot
    <3> QED BY <2>8, <3>1, <3>2 DEF SlotTypes
  <2>10. ThreadTypes' /\ ListTypes' /\ OtherTypes'
    <3>1. ThreadTypes'
      BY Zenon, <1>24, <2>5, <2>6 DEF NextSlot, ThreadTypes, PCs
    <3> QED BY Zenon, <1>24, <3>1 DEF NextSlot, ListTypes, bvars, OtherTypes, zvars
  <2>11. ASSUME NEW u \in Thread PROVE Reserved(u)'
    <3>1. CASE u = t
      <4>1. pc'[t] = "io" /\ resv'[t] = resv[t] /\ left'[t] = left[t] - 1
        BY Zenon, <1>24, <2>5 DEF NextSlot
      <4>2. left'[t] <= resv'[t]
        <5>1. left[t] <= resv[t] BY Zenon DEF Reserved
        <5>2. left[t] \in Nat /\ resv[t] \in Nat BY <2>5
        <5> QED BY Zenon, <4>1, <5>1, <5>2, OneLess
      <4> QED BY ZenonT(30), <3>1, <4>1, <4>2 DEF Reserved
    <3>2. CASE u # t
      BY Zenon, <1>24, <2>5, <3>2, ReservedFrame DEF Wakes, NextSlot
    <3> QED BY Zenon, <3>1, <3>2
  <2>12. Writer'
    <3>1. \A u \in Thread : pc'[u] = "io" => writelock' = u
      BY ZenonT(30), <1>24, <2>5 DEF NextSlot, Writer
    <3>2. /\ writelock' = t /\ pc'[t] = "io" /\ slot'[t] = pj_nextwrite
          /\ xid' = xid
      BY Zenon, <1>24, <2>5 DEF NextSlot
    <3>3. pj_nextwrite' = Wrap(pj_nextwrite + 1)
      BY <1>24, <2>5 DEF NextSlot, NextWrite, Wrap, Slot
    <3> QED BY ZenonT(30), <2>4, <2>8, <3>1, <3>2, <3>3 DEF Writer, Wrap
  <2> QED BY Zenon, <2>7, <2>8, <2>9, <2>10, <2>11, <2>12 DEF IInv, TypeOK
<1> QED BY Zenon, <1>24

\* pjournal_logwrite_internal.
LEMMA StepLogWritten ==
  ASSUME SlotTypes, ListTypes, ThreadTypes, OtherTypes, Window, Promise,
         Writer, LiveEntriesOnDisk, \A u \in Thread : Reserved(u),
         NEW t \in Thread
  PROVE  LogWritten(t) => IInv'
<1> USE ThreadAssumption, TotalAssumption
<1>25. ASSUME LogWritten(t) PROVE IInv'
  <2>0. writelock = t /\ slot[t] \in Slot /\ pc \in [Thread -> PCs]
    BY Zenon, <1>25 DEF LogWritten, Writer, ThreadTypes
  <2>1. SlotTypes' /\ ThreadTypes'
    BY Zenon, <1>25 DEF LogWritten, SlotTypes, ThreadTypes, locals, PCs
  <2>2. ListTypes' /\ OtherTypes'
    BY ZenonT(30), <1>25 DEF LogWritten, ListTypes, bvars, OtherTypes, zvars
  <2>3. ASSUME NEW u \in Thread PROVE Reserved(u)'
    <3>1. CASE u = t
      BY ZenonT(30), <1>25, <2>0, <3>1 DEF Reserved, LogWritten, locals
    <3>2. CASE u # t
      BY ZenonT(30), <1>25, <2>0, <3>2, ReservedFrame DEF Wakes, LogWritten, locals
    <3> QED BY Zenon, <3>1, <3>2
  <2>4. Writer'
    BY Zenon, <1>25, <2>0 DEF Writer, LogWritten
  <2>5. Window' /\ Promise'
    BY ZenonT(30), <1>25 DEF Window, Promise, Tokens, LogWritten, locals
  <2>6. LiveEntriesOnDisk'
    <3> DEFINE n == Len(pj_pendingxids)
    <3>1. /\ pj_pendingxids \in Seq(Handle) /\ n \in Nat
          /\ DOMAIN pj_pendingxids = 1 .. n /\ n <= Total
          /\ disk \in [Slot -> Nat] /\ disk' = [disk EXCEPT ![slot[t]] = xid[t]]
          /\ pj_pendingxids' = pj_pendingxids
      <4>1. /\ pj_pendingxids \in Seq(Handle) /\ disk \in [Slot -> Nat]
        BY Zenon DEF SlotTypes
      <4>2. /\ disk' = [disk EXCEPT ![slot[t]] = xid[t]]
            /\ pj_pendingxids' = pj_pendingxids
        BY Zenon, <1>25 DEF LogWritten
      <4>3. n \in Nat /\ DOMAIN pj_pendingxids = 1 .. n
        <5> HIDE DEF Handle
        <5> QED BY <4>1
      <4>4. n <= Total BY ZenonT(30) DEF Window
      <4> QED BY Zenon, <4>1, <4>2, <4>3, <4>4
    <3> SUFFICES ASSUME NEW i \in 1 .. n
                 PROVE  disk'[pj_pendingxids[i].slot] = pj_pendingxids[i].xid
      BY ZenonT(30), <3>1 DEF LiveEntriesOnDisk
    <3>2. pj_pendingxids[i] \in Handle /\ pj_pendingxids # <<>>
      <4>1. pj_pendingxids[i] \in Handle
        <5> HIDE DEF Handle
        <5> QED BY Zenon, <3>1, SeqElement
      <4>2. Len(pj_pendingxids) # 0 BY <3>1
      <4> QED BY <4>1, <4>2
    <3>3. /\ pj_pendingxids[i].slot \in Slot
          /\ pj_pendingxids[n].slot = slot[t] /\ pj_pendingxids[n].xid = xid[t]
      BY Zenon, <2>0, <3>2 DEF Writer, Handle
    <3>4. CASE i = n
      BY Zenon, <2>0, <3>1, <3>3, <3>4
    <3>5. CASE i # n
      <4>1. pj_nextwrite = Wrap(slot[t] + 1)
        BY Zenon, <2>0 DEF Writer
      <4>2. pj_nextwrite = Wrap(pj_pendingxids[i].slot + (n - i + 1))
        BY Zenon DEF Window
      <4>3. n - i + 1 \in Nat /\ 1 < n - i + 1 /\ n - i + 1 <= Total
        <5>1. /\ n - i + 1 \in Nat /\ n - i + 1 <= n /\ 1 < n - i + 1
              /\ Total \in Nat
          BY Zenon, <3>1, <3>5, Behind
        <5> QED BY <3>1, <5>1
      <4>4. pj_pendingxids[i].slot # slot[t]
        BY <2>0, <4>1, <4>2, <4>3, WrapDistinct
      <4>5. disk[pj_pendingxids[i].slot] = pj_pendingxids[i].xid
        BY Zenon, <3>1, <3>5 DEF LiveEntriesOnDisk
      <4> QED BY Zenon, <2>0, <3>1, <3>3, <4>4, <4>5
    <3> QED BY Zenon, <3>4, <3>5
  <2> QED BY Zenon, <2>1, <2>2, <2>3, <2>4, <2>5, <2>6 DEF IInv, TypeOK
<1> QED BY Zenon, <1>25

\* The end of a log write, and of its operation.
LEMMA StepWritten ==
  ASSUME SlotTypes, ListTypes, ThreadTypes, OtherTypes, Window, Promise,
         Writer, LiveEntriesOnDisk, \A u \in Thread : Reserved(u),
         NEW t \in Thread
  PROVE  /\ Written(t) => IInv'
         /\ Commit(t) => IInv'
<1> USE ThreadAssumption, TotalAssumption
<1>10. ASSUME Written(t) PROVE IInv'
  <2>1. ListTypes'
    <3> DEFINE D == [xid : Nat, written : BOOLEAN, data : Nat]
    <3>1. pj_distillxids' \in Seq(D)
      <4>1. pj_distillxids \in Seq(D) BY Zenon DEF ListTypes
      <4>2. xid[t] \in Nat BY Zenon, <1>10 DEF ThreadTypes
      <4>3. ASSUME NEW i \in DOMAIN pj_distillxids
            PROVE  MarkWritten(hxid[t], xid[t])[i] \in D
        <5>1. pj_distillxids[i] \in D
          <6> HIDE DEF D
          <6> QED BY <4>1, SeqElement
        <5> QED BY Zenon, <4>2, <5>1 DEF MarkWritten
      <4> HIDE DEF D
      <4> QED BY Zenon, <1>10, <4>1, <4>3, MapSeq DEF Written, MarkWritten
    <3>2. pj_bufs' \in Nat
      <4>1. pj_bufs' = pj_bufs \/ pj_bufs' = pj_bufs + 1
        BY Zenon, <1>10 DEF Written, PutBuf, bvars
      <4>2. pj_bufs \in Nat BY Zenon DEF ListTypes
      <4> QED BY <4>1, <4>2
    <3>3. want' \subseteq {"buf", "slot"}
      BY Zenon, <1>10 DEF Written, ListTypes, PutBuf, bvars
    <3> QED BY ZenonT(30), <1>10, <3>1, <3>2, <3>3 DEF Written, ListTypes
  <2>2. ThreadTypes'
    <3>1. pc' \in [Thread -> PCs]
      <4>1. pc \in [Thread -> PCs] BY Zenon DEF ThreadTypes
      <4>2. ASSUME NEW S PROVE Woken(S) \in [Thread -> PCs]
        BY Zenon, <4>1 DEF Woken, PCs
      <4>3. "get_buf" \in PCs /\ "commit" \in PCs /\ "unreserve" \in PCs
        BY Zenon DEF PCs
      <4> HIDE DEF PCs
      <4> QED BY ZenonT(30), <1>10, <4>1, <4>2, <4>3 DEF Written
    <3>2. /\ op' = op /\ resv' = resv /\ left' = left /\ txg' = txg
          /\ xid' = xid /\ xtxg' = xtxg /\ slot' = slot /\ hxid' = hxid
          /\ todo' = todo
      BY ZenonT(30), <1>10 DEF Written, locals
    <3> QED BY ZenonT(30), <3>1, <3>2 DEF ThreadTypes
  <2>3. SlotTypes' /\ OtherTypes'
    BY ZenonT(30), <1>10 DEF Written, SlotTypes, svars, locks, OtherTypes, zvars
  <2>4. ASSUME NEW u \in Thread PROVE Reserved(u)'
    <3>1. PICK again \in BOOLEAN :
            /\ again => op[t] = "rename" /\ left[t] = 1
            /\ pc' \in {[pc EXCEPT ![t] = IF again THEN "get_buf"
                         ELSE IF InTx(op[t]) THEN "commit" ELSE "unreserve"],
                       [Woken(PutBufWakes) EXCEPT ![t] = IF again THEN "get_buf"
                         ELSE IF InTx(op[t]) THEN "commit" ELSE "unreserve"]}
      BY <1>10, Zenon DEF Written
    <3>2. CASE u = t
      <4>1. /\ pc'[t] \in {"get_buf", "commit", "unreserve"}
            /\ pc'[t] = "get_buf" => op[t] = "rename" /\ left[t] = 1
        <5>1. DOMAIN pc = Thread BY Zenon DEF ThreadTypes
        <5>2. DOMAIN Woken(PutBufWakes) = Thread BY Zenon DEF Woken
        <5> QED BY ZenonT(30), <3>1, <5>1, <5>2
      <4>2. op' = op /\ resv' = resv /\ left' = left
        BY ZenonT(30), <1>10 DEF Written, locals
      <4>3. left[t] <= resv[t] BY Zenon DEF Reserved
      <4> QED BY ZenonT(30), <3>2, <4>1, <4>2, <4>3, ReservedWritten
    <3>3. CASE u # t
      BY Zenon, <1>10, <3>1, <3>3, ReservedFrame
         DEF ThreadTypes, Wakes, Written, locals, PutBufWakes, Woken, Waiters
    <3> QED BY Zenon, <3>2, <3>3
  <2>5. Writer'
    BY ZenonT(30), <1>10, WriterFrame
       DEF ThreadTypes, Written, svars, locks, locals, PutBuf,
           PutBufWakes, Woken, Waiters
  <2>6. Window' /\ Promise' /\ LiveEntriesOnDisk'
    BY ZenonT(30), <1>10
       DEF Window, Promise, Tokens, LiveEntriesOnDisk, Written, svars,
           locks, locals
  <2> QED BY Zenon, <2>1, <2>2, <2>3, <2>4, <2>5, <2>6 DEF IInv, TypeOK
<1>11. ASSUME Commit(t) PROVE IInv'
  <2>1. ThreadTypes'
    BY Zenon, <1>11 DEF Commit, ThreadTypes, locals, PCs
  <2>2. SlotTypes' /\ ListTypes' /\ OtherTypes'
    BY <1>11
       DEF Commit, SlotTypes, svars, locks, ListTypes, bvars, OtherTypes,
           zvars
  <2>3. ASSUME NEW u \in Thread PROVE Reserved(u)'
    <3>1. CASE u = t
      BY Zenon, <1>11, <3>1 DEF ThreadTypes, Reserved, Count, Commit, locals
    <3>2. CASE u # t
      BY Zenon, <1>11, <3>2, ReservedFrame DEF ThreadTypes, Wakes, Commit, locals
    <3> QED BY <3>1, <3>2
  <2>4. Writer'
    BY Zenon, <1>11, WriterFrame DEF ThreadTypes, Commit, svars, locks, locals
  <2>5. Window' /\ Promise' /\ LiveEntriesOnDisk'
    BY Zenon, <1>11
       DEF Window, Promise, Tokens, LiveEntriesOnDisk, Commit, svars,
           locks, locals
  <2> QED BY Zenon, <2>1, <2>2, <2>3, <2>4, <2>5 DEF IInv, TypeOK
<1> QED BY Zenon, <1>10, <1>11

\* Log buffers and transaction handles.
LEMMA StepBuf ==
  ASSUME SlotTypes, ListTypes, ThreadTypes, OtherTypes, Window, Promise,
         Writer, LiveEntriesOnDisk, \A u \in Thread : Reserved(u),
         NEW t \in Thread
  PROVE  /\ GetBuf(t) => IInv'
         /\ PutSeqBuf(t) => IInv'
         /\ Xnew(t) => IInv'
<1> USE ThreadAssumption, TotalAssumption
<1>7. ASSUME GetBuf(t) PROVE IInv'
  <2>1. ListTypes'
    <3>1. pj_bufs' \in Nat
      BY <1>7 DEF GetBuf, ListTypes
    <3>2. want' \subseteq {"buf", "slot"}
      BY Zenon, <1>7 DEF GetBuf, ListTypes
    <3> QED BY Zenon, <1>7, <3>1, <3>2 DEF GetBuf, ListTypes
  <2>2. ThreadTypes'
    BY Zenon, <1>7 DEF GetBuf, ThreadTypes, locals, AfterBuf, PCs
  <2>3. SlotTypes' /\ OtherTypes'
    BY <1>7 DEF GetBuf, SlotTypes, svars, locks, OtherTypes, zvars
  <2>4. ASSUME NEW u \in Thread PROVE Reserved(u)'
    <3>1. CASE u = t
      BY <1>7, <3>1 DEF ThreadTypes, Reserved, Count, GetBuf, locals, AfterBuf
    <3>2. CASE u # t
      BY Zenon, <1>7, <3>2, ReservedFrame
         DEF ThreadTypes, Wakes, GetBuf, locals, AfterBuf
    <3> QED BY <3>1, <3>2
  <2>5. Writer'
    BY Zenon, <1>7, WriterFrame
       DEF ThreadTypes, GetBuf, svars, locks, locals, AfterBuf
  <2>6. Window' /\ Promise' /\ LiveEntriesOnDisk'
    BY Zenon, <1>7
       DEF Window, Promise, Tokens, LiveEntriesOnDisk, GetBuf, svars,
           locks, locals
  <2> QED BY <2>1, <2>2, <2>3, <2>4, <2>5, <2>6 DEF IInv, TypeOK
<1>8. ASSUME PutSeqBuf(t) PROVE IInv'
  <2>1. ListTypes'
    BY <1>8 DEF PutSeqBuf, ListTypes, bvars, PutBuf
  <2>2. ThreadTypes'
    BY <1>8
       DEF PutSeqBuf, ThreadTypes, locals, PCs, Slot, Return, PutBuf,
           PutBufWakes, Woken, Waiters
  <2>3. SlotTypes' /\ OtherTypes'
    BY ZenonT(30), <1>8 DEF PutSeqBuf, SlotTypes, svars, locks, OtherTypes, zvars
  <2>4. ASSUME NEW u \in Thread PROVE Reserved(u)'
    <3>1. CASE u = t
      BY Zenon, <1>8, <3>1
         DEF ThreadTypes, Reserved, Count, PutSeqBuf, locals, Return,
             PutBuf, PutBufWakes, Woken, Waiters
    <3>2. CASE u # t
      BY Zenon, <1>8, <3>2, ReservedFrame
         DEF ThreadTypes, Wakes, PutSeqBuf, locals, Return, PutBuf,
             PutBufWakes, Woken, Waiters
    <3> QED BY <3>1, <3>2
  <2>5. Writer'
    BY Zenon, <1>8, WriterFrame
       DEF ThreadTypes, PutSeqBuf, svars, locks, locals, Return, PutBuf,
           PutBufWakes, Woken, Waiters
  <2>6. Window' /\ Promise' /\ LiveEntriesOnDisk'
    BY Zenon, <1>8
       DEF Window, Promise, Tokens, LiveEntriesOnDisk, PutSeqBuf, svars,
           locks, locals
  <2> QED BY <2>1, <2>2, <2>3, <2>4, <2>5, <2>6 DEF IInv, TypeOK
<1>9. ASSUME Xnew(t) PROVE IInv'
  <2>1. ListTypes'
    <3> DEFINE D == [xid : Nat, written : BOOLEAN, data : Nat]
               d == [xid |-> pj_lastxid + 1, written |-> FALSE, data |-> 0]
    <3>1. d \in D BY DEF ListTypes
    <3>2. pj_distillxids' \in Seq(D)
      <4>1. pj_distillxids \in Seq(D) BY DEF ListTypes
      <4>2. Append(pj_distillxids, d) \in Seq(D)
        BY Zenon, <3>1, <4>1, SeqAppend
      <4> QED BY Zenon, <1>9, <4>1, <4>2 DEF Xnew
    <3> QED BY <1>9, <3>2 DEF Xnew, ListTypes, bvars
  <2>2. ThreadTypes'
    BY SMTT(30), <1>9 DEF Xnew, ThreadTypes, locals, ListTypes, PCs
  <2>3. SlotTypes' /\ OtherTypes'
    BY ZenonT(30), <1>9 DEF Xnew, SlotTypes, svars, locks, OtherTypes, zvars
  <2>4. ASSUME NEW u \in Thread PROVE Reserved(u)'
    <3>1. CASE u = t
      BY Zenon, <1>9, <3>1 DEF ThreadTypes, Reserved, Count, Xnew, locals
    <3>2. CASE u # t
      BY Zenon, <1>9, <3>2, ReservedFrame DEF ThreadTypes, Wakes, Xnew, locals
    <3> QED BY <3>1, <3>2
  <2>5. Writer'
    BY Zenon, <1>9, WriterFrame DEF ThreadTypes, Xnew, svars, locks, locals
  <2>6. Window' /\ Promise' /\ LiveEntriesOnDisk'
    BY Zenon, <1>9
       DEF Window, Promise, Tokens, LiveEntriesOnDisk, Xnew, svars, locks,
           locals
  <2> QED BY <2>1, <2>2, <2>3, <2>4, <2>5, <2>6 DEF IInv, TypeOK
<1> QED BY Zenon, <1>7, <1>8, <1>9

\* A reservation is given back.
LEMMA StepUnreserve ==
  ASSUME SlotTypes, ListTypes, ThreadTypes, OtherTypes, Window, Promise,
         Writer, LiveEntriesOnDisk, \A u \in Thread : Reserved(u),
         TokenFacts, NEW t \in Thread
  PROVE  Unreserve(t) => IInv'
<1> USE ThreadAssumption, TotalAssumption
<1>23. ASSUME Unreserve(t) PROVE IInv'
  <2>0. PICK S \in SUBSET Waiters :
          pc' = [Woken(S) EXCEPT ![t] = IF op[t] = "seq" THEN "put_buf"
                                        ELSE "idle"]
    BY Zenon, <1>23 DEF Unreserve, WakeOne
  <2>7. /\ \A u \in Thread : u # t => /\ Wakes(u)
                                      /\ pc'[u] = "io" <=> pc[u] = "io"
                                      /\ op'[u] = op[u] /\ xid'[u] = xid[u]
                                      /\ slot'[u] = slot[u]
        /\ pc'[t] # "io" /\ pc[t] # "io"
    <3>1. ASSUME NEW u \in Thread, u # t
          PROVE  /\ Wakes(u)
                 /\ pc'[u] = "io" <=> pc[u] = "io"
      BY Zenon, <2>0, <3>1 DEF ThreadTypes, Woken, Waiters, Wakes
    <3>2. ASSUME NEW u \in Thread, u # t
          PROVE  op'[u] = op[u] /\ xid'[u] = xid[u] /\ slot'[u] = slot[u]
      BY Zenon, <1>23, <3>2 DEF ThreadTypes, Unreserve, Return
    <3>3. pc'[t] # "io" /\ pc[t] # "io"
      BY Zenon, <1>23, <2>0 DEF ThreadTypes, Unreserve, Woken
    <3> QED BY Zenon, <3>1, <3>2, <3>3
  <2>1. ThreadTypes'
    <3>1. pc' \in [Thread -> PCs]
      BY Zenon, <2>0 DEF Woken, ThreadTypes, PCs
    <3>2. resv' \in [Thread -> 0 .. 2] /\ left' \in [Thread -> 0 .. 2]
      BY <1>23 DEF Unreserve, ThreadTypes
    <3> QED BY <1>23, <3>1, <3>2 DEF Unreserve, ThreadTypes, Return, Slot
  <2>2. Promise' /\ pj_resrv' \in Nat
    <3>1. /\ left \in [Thread -> 0 .. 2] /\ resv \in [Thread -> 0 .. 2]
          /\ left' = [left EXCEPT ![t] = 0] /\ resv' = [resv EXCEPT ![t] = 0]
          /\ pj_resrv' = pj_resrv - resv[t] /\ pj_inuse' = pj_inuse
          /\ pj_inuse \in Nat
      BY Zenon, <1>23 DEF Unreserve, ThreadTypes, SlotTypes
    <3>2. /\ Cardinality(Tokens(left')) = Cardinality(Tokens(left)) - left[t]
          /\ Cardinality(Tokens(resv')) = Cardinality(Tokens(resv)) - resv[t]
      BY Zenon, <3>1, TokensNone
    <3>3. left' \in [Thread -> 0 .. 2] /\ resv' \in [Thread -> 0 .. 2]
      BY Zenon, <2>1 DEF ThreadTypes
    <3>4. /\ Cardinality(Tokens(left)) \in Nat
          /\ Cardinality(Tokens(left')) \in Nat
          /\ Cardinality(Tokens(resv')) \in Nat
      BY Zenon, <3>1, <3>3, TokensNat
    <3>5. left[t] \in Nat BY <3>1
    <3>6. /\ pj_resrv' = Cardinality(Tokens(resv'))
          /\ pj_inuse' + Cardinality(Tokens(left')) <= Total
      BY <3>1, <3>2, <3>4, <3>5 DEF Promise
    <3> QED BY Zenon, <3>4, <3>6 DEF Promise, Tokens
  <2>3. SlotTypes' /\ ListTypes' /\ OtherTypes'
    <3>1. want' \subseteq {"buf", "slot"}
      BY Zenon, <1>23 DEF Unreserve, ListTypes
    <3> QED BY SMTT(30), <1>23, <2>2, <3>1 DEF Unreserve, SlotTypes, locks, ListTypes,
                                     OtherTypes, zvars
  <2>4. ASSUME NEW u \in Thread PROVE Reserved(u)'
    <3>1. CASE u = t
      <4>1. pc'[t] = IF op[t] = "seq" THEN "put_buf" ELSE "idle"
        BY Zenon, <2>0 DEF ThreadTypes, Woken
      <4>2. resv'[t] = 0 /\ left'[t] = 0
        BY Zenon, <1>23 DEF ThreadTypes, Unreserve
      <4>3. pc'[t] = "put_buf" \/ pc'[t] = "idle" BY Zenon, <4>1
      <4> QED BY <3>1, <4>2, <4>3 DEF Reserved
    <3>2. CASE u # t
      BY Zenon, <1>23, <2>7, <3>2, ReservedFrame DEF ThreadTypes, Unreserve
    <3> QED BY Zenon, <3>1, <3>2
  <2>5. Writer'
    BY Zenon, <1>23, <2>7, WriterFrame DEF Unreserve, locks
  <2>6. Window' /\ LiveEntriesOnDisk'
    BY Zenon, <1>23 DEF Window, LiveEntriesOnDisk, Unreserve, locks
  <2> QED BY Zenon, <2>1, <2>2, <2>3, <2>4, <2>5, <2>6 DEF IInv, TypeOK
<1> QED BY <1>23

\* The distill thread frees the entry it applied.
LEMMA StepDistillDone ==
  ASSUME SlotTypes, ListTypes, ThreadTypes, OtherTypes, Window, Promise,
         Writer, LiveEntriesOnDisk, \A u \in Thread : Reserved(u),
         TokenFacts
  PROVE  DistillDone => IInv'
<1> USE ThreadAssumption, TotalAssumption
<1>26. ASSUME DistillDone PROVE IInv'
  <2>1. /\ pj_pendingxids \in Seq(Handle)
        /\ DOMAIN pj_pendingxids = 1 .. Len(pj_pendingxids)
        /\ Len(pj_pendingxids) \in Nat
    BY DEF SlotTypes
  <2>2. ASSUME NEW i \in DOMAIN pj_pendingxids
        PROVE  /\ pj_pendingxids'[i] \in Handle
               /\ pj_pendingxids'[i].slot = pj_pendingxids[i].slot
               /\ pj_pendingxids'[i].xid = pj_pendingxids[i].xid
    <3>1. pj_pendingxids[i] \in Handle
      BY Zenon, <2>1, SeqElement
    <3>2. /\ pj_current_txg \in Nat /\ dist.txg \in Nat
      BY Zenon DEF ListTypes, OtherTypes
    <3>3. /\ DistillTxg \in Nat
          /\ IF dist.data = dist.xid THEN dist.txg \in Nat ELSE 0 \in Nat
      BY <3>2 DEF DistillTxg
    <3> HIDE DEF DistillTxg
    <3> QED BY Zenon, <1>26, <3>1, <3>2, <3>3 DEF DistillDone, Handle
  <2>3. /\ pj_pendingxids' \in Seq(Handle)
        /\ Len(pj_pendingxids') = Len(pj_pendingxids)
        /\ DOMAIN pj_pendingxids' = DOMAIN pj_pendingxids
    <3>1. /\ DOMAIN pj_pendingxids' = DOMAIN pj_pendingxids
          /\ pj_pendingxids' = [i \in DOMAIN pj_pendingxids |->
                                  pj_pendingxids'[i]]
      BY Zenon, <1>26 DEF DistillDone
    <3>2. pj_pendingxids' \in [DOMAIN pj_pendingxids -> Handle]
      BY Zenon, <2>2, <3>1
    <3> QED BY <2>1, <3>1, <3>2, MapSeq
  <2>4. SlotTypes' /\ ThreadTypes'
    BY Zenon, <1>26, <2>3
       DEF DistillDone, SlotTypes, ThreadTypes, locals, locks, Woken,
                       PCs
  <2>5. ListTypes'
    <3>1. want' \subseteq {"buf", "slot"}
      BY Zenon, <1>26 DEF DistillDone, PutBuf, ListTypes
    <3>2. pj_bufs' \in Nat
      <4>1. pj_bufs' = pj_bufs + 1 BY <1>26, Zenon DEF DistillDone, PutBuf
      <4> QED BY <4>1 DEF ListTypes
    <3> QED BY Zenon, <1>26, <3>1, <3>2 DEF DistillDone, PutBuf, ListTypes
  <2>6. OtherTypes'
    BY Zenon, <1>26 DEF DistillDone, OtherTypes, zvars
  <2>7. ASSUME NEW u \in Thread
        PROVE  Reserved(u)' /\ (pc'[u] = "io" <=> pc[u] = "io")
    BY ZenonT(30), <1>26, ReservedFrame DEF ThreadTypes, Wakes, DistillDone, locals, Woken,
                                PutBufWakes, Waiters
  <2>8. Writer'
    <3>1. writelock \in Thread \/ writelock = NoThread
      BY Zenon DEF SlotTypes
    <3>2. pj_pendingxids' # <<>> =>
            /\ pj_pendingxids # <<>>
            /\ Len(pj_pendingxids) \in DOMAIN pj_pendingxids
      BY <2>1, <2>3
    <3>3. pj_pendingxids' # <<>> =>
            /\ pj_pendingxids'[Len(pj_pendingxids')].slot =
                 pj_pendingxids[Len(pj_pendingxids)].slot
            /\ pj_pendingxids'[Len(pj_pendingxids')].xid =
                 pj_pendingxids[Len(pj_pendingxids)].xid
      BY Zenon, <2>2, <2>3, <3>2
    <3>4. UNCHANGED << writelock, slot, xid, pj_nextwrite >>
      BY Zenon, <1>26 DEF DistillDone, locks, locals
    <3> QED BY Zenon, <2>7, <3>1, <3>2, <3>3, <3>4 DEF Writer, Wrap
  <2>9. Window' /\ Promise' /\ LiveEntriesOnDisk'
    BY ZenonT(30), <1>26, <2>1, <2>2, <2>3 DEF DistillDone, Window, Promise, Tokens,
         LiveEntriesOnDisk, locks, locals, Wrap
  <2> QED BY Zenon, <2>4, <2>5, <2>6, <2>7, <2>8, <2>9 DEF IInv, TypeOK
<1> QED BY Zenon, <1>26

\* The distill thread frees the entries that are committed.
LEMMA StepDistillReclaim ==
  ASSUME SlotTypes, ListTypes, ThreadTypes, OtherTypes, Window, Promise,
         Writer, LiveEntriesOnDisk, \A u \in Thread : Reserved(u),
         TokenFacts
  PROVE  DistillReclaim => IInv'
<1> USE ThreadAssumption, TotalAssumption
<1>27. ASSUME DistillReclaim PROVE IInv'
  <2>1. PICK n \in 0 .. Len(pj_pendingxids) :
          /\ pj_pendingxids' = SubSeq(pj_pendingxids, n + 1, Len(pj_pendingxids))
          /\ pj_inuse' = pj_inuse - n
          /\ LET blocked == IF n < Len(pj_pendingxids)
                               /\ pj_pendingxids[n + 1].txg > synced
                            THEN pj_pendingxids[n + 1].txg ELSE 0
                 rec == dist.reclaimed \/ n > 0
             IN dist' = [dist EXCEPT !.at = "sync", !.reclaimed = rec,
                           !.txg = SyncTxg(rec, blocked)]
    BY <1>27, Zenon DEF DistillReclaim
  <2>2. /\ pj_pendingxids \in Seq(Handle) /\ Len(pj_pendingxids) \in Nat
        /\ \A i \in 1 .. Len(pj_pendingxids) : pj_pendingxids[i] \in Handle
    BY SeqElement DEF SlotTypes
  <2>3. /\ pj_pendingxids' \in Seq(Handle)
        /\ Len(pj_pendingxids') = Len(pj_pendingxids) - n
        /\ \A i \in 1 .. Len(pj_pendingxids') :
             pj_pendingxids'[i] = pj_pendingxids[i + n]
    <3>1. Len(pj_pendingxids') = Len(pj_pendingxids) - n
      BY Zenon, <2>1, <2>2, SeqDrop
    <3> QED BY <2>1, <2>2, <3>1, SeqDrop
  <2>4. /\ pj_inuse' \in Nat
        /\ Window' /\ Promise' /\ Writer' /\ LiveEntriesOnDisk'
    BY Zenon, <1>27, <2>1, <2>3, DropEntries DEF DistillReclaim, locks, locals
  <2>5. SlotTypes'
    BY Zenon, <1>27, <2>3, <2>4 DEF DistillReclaim, SlotTypes, locks
  <2>6. OtherTypes'
    <3>1. PICK b \in BOOLEAN, w \in Nat :
            dist' = [dist EXCEPT !.at = "sync", !.reclaimed = b, !.txg = w]
      <4>1. (dist.reclaimed \/ n > 0) \in BOOLEAN BY Zenon
      <4>2. n < Len(pj_pendingxids) => pj_pendingxids[n + 1].txg \in Nat
        BY SMTT(30), <2>2 DEF Handle
      <4>3. \A r, b : b \in Nat => SyncTxg(r, b) \in Nat
        BY Zenon DEF SyncTxg
      <4> HIDE DEF SyncTxg
      <4> QED BY Zenon, <2>1, <4>1, <4>2, <4>3
    <3> QED BY Zenon, <1>27, <3>1 DEF DistillReclaim, OtherTypes, zvars
  <2>7. ThreadTypes' /\ ListTypes'
    BY Zenon, <1>27 DEF DistillReclaim, ThreadTypes, locals, ListTypes, bvars
  <2>8. \A u \in Thread : Reserved(u)'
    BY Zenon, <1>27 DEF DistillReclaim, Reserved, locals
  <2> QED BY Zenon, <2>4, <2>5, <2>6, <2>7, <2>8 DEF IInv, TypeOK
<1> QED BY <1>27
==============================================================================
