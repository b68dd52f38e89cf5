---------------------------- MODULE RecoveryInv -------------------------------
(***************************************************************************)
(* Write-ahead logging works in JournalRecovery: whatever the number of    *)
(* operations, slots, groups and crashes, an operation that was logged     *)
(* inside its ZFS transaction and has been answered survives, as long as   *)
(* the write of an entry is not torn and no crash interrupts a recovery.   *)
(* The invariant follows an entry from its operation to the slot on disk,  *)
(* through the list of entries in use and over a restart to its replay.    *)
(***************************************************************************)
EXTENDS JournalRecovery, FiniteSetTheorems, WellFoundedInduction, TLAPS

EntryRec == [type : {"normal", "format"}, xid : Nat, txg : Nat,
             op : Op \cup {NoOp}, distill : BOOLEAN]
Handle == [op : Op, xid : Nat, txg : Nat, distill : BOOLEAN]
Cur == [commit_txg : Nat, replay_xid : Nat]
Positions == {"idle", "check", "hold", "xnew", "logwrite", "io", "commit",
              "acked", "dead"}
Busy == {"dcheck", "dhold", "rcheck", "rhold", "advance"}

DiskTypes ==
  /\ disk \in [Slot -> EntryRec] /\ done \in [Op -> Nat]
  /\ \A r \in recl : r.xid \in Nat
  /\ \A c \in curfile : c.txg \in Nat /\ c.cur \in Cur
ZfsTypes ==
  /\ synced \in Nat /\ open_txg \in Nat /\ mds_cursor \in Cur
  /\ cursor \in [at : {"idle", "opening", "assigned", "open"}, txg : Nat]
JournalTypes ==
  /\ pj_lastxid \in Nat /\ pj_nextwrite \in Slot /\ pj_current_txg \in Nat
  /\ pj_pendingxids \in Seq(Handle) /\ pj_distillxids \in Seq(Op)
  /\ pj_commit_txg \in Nat /\ pj_replay_xid \in Nat
  /\ dist \in [at : {"scan", "hold", "done"}, xid : Nat, op : Op \cup {NoOp}]
OpTypes ==
  /\ pc \in [Op -> Positions] /\ kind \in [Op -> AllKinds \cup {"none"}]
  /\ txg \in [Op -> Nat] /\ xid \in [Op -> Nat] /\ etxg \in [Op -> Nat]
  /\ slot \in [Op -> Slot]
RepTypes ==
  rep \in [at : Busy \cup {"off", "next", "wait"}, todo : SUBSET EntryRec,
           e : EntryRec, txg : Nat]

\* What is open has not been synced.
Groups ==
  /\ synced < open_txg
  /\ cursor.at \in {"assigned", "open"} => cursor.txg > synced
  /\ \A o \in Op : done[o] <= open_txg /\ (txg[o] # 0 => txg[o] > synced)

\* The cursor file claims no more than is synced once it is itself.
CursorFile ==
  /\ \A c \in curfile : c.cur.commit_txg <= c.txg
  /\ \E c \in curfile : c.txg <= synced
  /\ pj_commit_txg <= synced
  /\ REPLAYINPROG => mds_cursor.commit_txg <= synced

\* Where an operation is tells what it has done.
Place(o) ==
  /\ pc[o] \notin {"idle", "dead"} => kind[o] # "none"
  /\ InTx(o) /\ pc[o] \in {"xnew", "logwrite", "io", "commit"} =>
       txg[o] = done[o] /\ done[o] # 0
  /\ InTx(o) /\ pc[o] \in {"logwrite", "io", "commit", "acked"} /\ xid[o] # 0 =>
       etxg[o] = done[o] /\ done[o] # 0
  /\ pc[o] \in {"logwrite", "io", "commit"} => xid[o] # 0
  /\ REPLAYINPROG => pc[o] \in {"idle", "acked", "dead"} /\ xid[o] = 0

\* The entries in use lie in consecutive slots that end before the next one to
\* write, and there is room for the entries still to be logged.
Wrap(n) == IF n < Total THEN n ELSE n - Total
ToLog == {o \in Op : \/ pc[o] \in {"xnew", "logwrite"}
                     \/ pc[o] \in {"check", "hold"} /\ kind[o] # "free"}
Window ==
  \A i \in 1 .. Len(pj_pendingxids) :
    pj_nextwrite = Wrap(slot[pj_pendingxids[i].op] + (Len(pj_pendingxids) - i + 1))
Room == Cardinality(ToLog) + Len(pj_pendingxids) <= Total

\* One operation at a time writes its entry, the newest.
Writer ==
  \A o \in Op : pc[o] = "io" =>
    /\ \A p \in Op : pc[p] = "io" => p = o
    /\ pj_nextwrite = Wrap(slot[o] + 1)
    /\ pj_pendingxids # <<>> => pj_pendingxids[Len(pj_pendingxids)].op = o
    /\ \A s \in Slot : s < slot[o] => disk[s].type # "format"

\* Slots are first written in order.
FormatLast(dk) ==
  \A s, u \in Slot : s <= u /\ dk[s].type = "format" => dk[u].type = "format"
Fresh ==
  \A s \in Slot : s < pj_nextwrite /\ disk[s].type = "format" =>
    \E o \in Op : pc[o] = "io" /\ slot[o] = s

\* An entry in use is on disk once written, and stays in use until the group of
\* its operation is synced.
HasLogged(o) == \/ pc[o] \in {"io", "commit", "acked"}
                \/ pc[o] \in {"check", "hold"} /\ kind[o] = "free"
OnDisk ==
  \A i \in 1 .. Len(pj_pendingxids) :
    LET o == pj_pendingxids[i].op IN
    /\ HasLogged(o)
    /\ pc[o] # "io" => disk[slot[o]] = Logged(o)
    /\ etxg[o] <= pj_pendingxids[i].txg
IsPending(o) == \E i \in 1 .. Len(pj_pendingxids) : pj_pendingxids[i].op = o
InUse ==
  \A o \in Op : InTx(o) /\ pc[o] \in {"io", "commit", "acked"} /\ xid[o] # 0 =>
    etxg[o] <= synced \/ IsPending(o)

\* Transaction ids go up, also over restarts: an id that has been replayed is
\* not above all entries on disk, and it is below every entry logged since.
Seen(dk, x) == x = 0 \/ \E s \in Slot : dk[s].type = "normal" /\ x <= dk[s].xid
DiskXids(dk) == \A s \in Slot : /\ dk[s].xid <= pj_lastxid
                                /\ dk[s].type = "format" => dk[s].xid = 0
Xids ==
  /\ DiskXids(disk)
  /\ \A r \in recl : r.xid <= pj_lastxid
  /\ \A o \in Op : xid[o] <= pj_lastxid
  /\ dist.xid <= pj_lastxid
Replayed ==
  /\ \A c \in curfile : Seen(disk, c.cur.replay_xid)
  /\ Seen(disk, mds_cursor.replay_xid)
  /\ REPLAYINPROG => Seen(disk, pj_replay_xid)
  /\ \A o \in Op : xid[o] # 0 =>
       /\ mds_cursor.replay_xid < xid[o]
       /\ \A c \in curfile : c.cur.replay_xid < xid[o]

\* A replay has before it the entries of what the crash took away.
Answered(o) == pc[o] = "acked" /\ InTx(o)
Redoes(e, o) == e.op = o /\ e.txg > pj_commit_txg
OfDisk(e) == e.type = "normal" /\ \E s \in Slot : disk[s] = e
Replay ==
  /\ REPLAYINPROG => pj_pendingxids = <<>>
  /\ REPLAYINPROG => \A e \in rep.todo : OfDisk(e)
  /\ rep.at \in Busy => OfDisk(rep.e)
  /\ REPLAYINPROG => \A o \in Op : Answered(o) =>
       \/ done[o] # 0
       \/ \E e \in rep.todo : Redoes(e, o)
       \/ rep.at \in Busy \ {"advance"} /\ Redoes(rep.e, o)
  /\ rep.at = "wait" => rep.todo = {} /\ \A o \in Op : done[o] <= rep.txg
Settled ==
  ~REPLAYINPROG =>
    \A o \in Op : Answered(o) /\ xid[o] = 0 => done[o] \in 1 .. synced

Types == DiskTypes /\ ZfsTypes /\ JournalTypes /\ OpTypes /\ RepTypes
LogInv == Window /\ Room /\ Writer /\ FormatLast(disk) /\ Fresh /\ OnDisk /\ InUse
IInv == /\ Types /\ Groups /\ CursorFile /\ (\A o \in Op : Place(o)) /\ LogInv
        /\ Xids /\ Replayed /\ Replay /\ Settled

------------------------------------------------------------------------------
\* Sets of numbers: the least, and the greatest of a bounded one.
LEMMA Least ==
  ASSUME NEW S \in SUBSET Nat, S # {}
  PROVE  \E x \in S : \A y \in S : x <= y
<1> DEFINE R == OpToRel(<, Nat)
<1>1. IsWellFoundedOn(R, Nat) BY Zenon, NatLessThanWellFounded
<1>2. \A x, y \in Nat : x < y => <<x, y>> \in R BY Zenon DEF OpToRel
<1> HIDE DEF R
<1>3. \E x \in S : \A y \in S : ~ (<<y, x>> \in R) BY Zenon, <1>1, WFMin
<1>4. PICK x \in S : \A y \in S : ~ (<<y, x>> \in R) BY Zenon, <1>3
<1>5. \A y \in S : ~ (y < x) BY Zenon, <1>2, <1>4
<1>6. \A y \in S : x <= y BY <1>5
<1> QED BY Zenon, <1>6

LEMMA Greatest ==
  ASSUME NEW S \in SUBSET Nat, S # {}, NEW b \in Nat, \A x \in S : x <= b
  PROVE  MaxOf(S) \in S /\ \A x \in S : x <= MaxOf(S)
<1> DEFINE T == {b - x : x \in S}
<1>1. T \in SUBSET Nat /\ T # {}
  <2>1. \A x \in S : b - x \in Nat OBVIOUS
  <2>2. PICK x \in S : TRUE BY Zenon
  <2>3. b - x \in T BY Zenon
  <2> QED BY Zenon, <2>1, <2>3
<1>2. PICK t \in T : \A u \in T : t <= u BY Zenon, <1>1, Least
<1>3. PICK x \in S : t = b - x BY Zenon, <1>2
<1>4. \A y \in S : y <= x BY SMTT(30), <1>2, <1>3
<1> QED BY Zenon, <1>4 DEF MaxOf

LEMMA MaxOfTwo ==
  ASSUME NEW a \in Nat, NEW b \in Nat
  PROVE  MaxOf({a, b}) \in Nat /\ a <= MaxOf({a, b})
<1> DEFINE S == {a, b}
<1>1. S \in SUBSET Nat /\ S # {} /\ a + b \in Nat /\ \A x \in S : x <= a + b
  OBVIOUS
<1>2. PICK c \in Nat : c = a + b BY Zenon, <1>1
<1>3. MaxOf(S) \in S /\ \A x \in S : x <= MaxOf(S) BY Zenon, <1>1, <1>2, Greatest
<1> QED BY Zenon, <1>1, <1>3

\* Going round the journal.
LEMMA NextIsWrap ==
  ASSUME NEW n \in Slot
  PROVE  (n + 1) % Total = Wrap(n + 1) /\ (n + 1) % Total \in Slot
BY SizesAssumption DEF Slot, Wrap

LEMMA WrapNext ==
  ASSUME NEW s \in Slot, NEW k \in Nat, k < Total
  PROVE  Wrap(Wrap(s + k) + 1) = Wrap(s + (k + 1))
BY SizesAssumption DEF Wrap, Slot

LEMMA WrapDistinct ==
  ASSUME NEW s \in Slot, NEW j \in Nat, NEW k \in Nat,
         j < k, k < j + Total, k <= Total
  PROVE  Wrap(s + j) # Wrap(s + k)
BY SizesAssumption DEF Wrap, Slot

\* Sequences.
LEMMA SeqElement ==
  ASSUME NEW S, NEW s \in Seq(S), NEW i \in 1 .. Len(s)
  PROVE  s[i] \in S
OBVIOUS

LEMMA SeqAppend ==
  ASSUME NEW S, NEW s \in Seq(S), NEW e \in S
  PROVE  /\ Append(s, e) \in Seq(S) /\ Append(s, e) # <<>>
         /\ Len(Append(s, e)) = Len(s) + 1
         /\ \A i \in 1 .. Len(s) : Append(s, e)[i] = s[i]
         /\ Append(s, e)[Len(s) + 1] = e
OBVIOUS

LEMMA SeqTail ==
  ASSUME NEW S, NEW s \in Seq(S), s # <<>>
  PROVE  /\ Tail(s) \in Seq(S) /\ Len(Tail(s)) = Len(s) - 1
         /\ \A i \in 1 .. Len(Tail(s)) : Tail(s)[i] = s[i + 1]
         /\ Head(s) \in S /\ Head(s) = s[1] /\ Len(s) \in Nat \ {0}
OBVIOUS

LEMMA PendingOp ==
  ASSUME JournalTypes, NEW i \in 1 .. Len(pj_pendingxids)
  PROVE  pj_pendingxids[i] \in Handle /\ pj_pendingxids[i].op \in Op
<1>1. pj_pendingxids[i] \in Handle BY Zenon, SeqElement DEF JournalTypes
<1> QED BY Zenon, <1>1 DEF Handle

\* What a restart reads: the newest synced contents of the cursor file, ...
LEMMA SyncedCursorIs ==
  ASSUME DiskTypes, ZfsTypes, CursorFile
  PROVE  \E c \in curfile : c.txg <= synced /\ SyncedCursor = c.cur
<1> DEFINE C == {c \in curfile : c.txg <= synced}
           S == {c.txg : c \in C}
           Newest(c) == /\ c.txg <= synced
                        /\ \A d \in curfile : d.txg <= synced => d.txg <= c.txg
<1>1. /\ S \in SUBSET Nat /\ S # {} /\ synced \in Nat
      /\ \A x \in S : x <= synced
  BY DEF DiskTypes, ZfsTypes, CursorFile
<1>2. MaxOf(S) \in S /\ \A x \in S : x <= MaxOf(S)
  BY Zenon, <1>1, Greatest
<1>3. PICK c \in C : c.txg = MaxOf(S) BY Zenon, <1>2
<1>4. c \in curfile /\ Newest(c) BY Zenon, <1>2, <1>3
<1>5. SyncedCursor = (CHOOSE d \in curfile : Newest(d)).cur
  BY Zenon DEF SyncedCursor
<1> HIDE DEF Newest
<1>6. /\ (CHOOSE d \in curfile : Newest(d)) \in curfile
      /\ Newest(CHOOSE d \in curfile : Newest(d))
  BY Zenon, <1>4
<1> QED BY Zenon, <1>5, <1>6 DEF Newest

\* ... the last xid distilled, ...
LEMMA LastDistillXidIs ==
  ASSUME DiskTypes, JournalTypes, Xids
  PROVE  /\ LastDistillXid \in Nat /\ LastDistillXid <= pj_lastxid
         /\ \A r \in SyncedRecl : r.xid <= LastDistillXid
<1> DEFINE S == {r.xid : r \in SyncedRecl} \union {0}
<1>1. /\ S \in SUBSET Nat /\ S # {} /\ pj_lastxid \in Nat
      /\ \A x \in S : x <= pj_lastxid
  BY DEF DiskTypes, JournalTypes, Xids, SyncedRecl
<1>2. MaxOf(S) \in S /\ \A x \in S : x <= MaxOf(S)
  BY Zenon, <1>1, Greatest
<1>3. LastDistillXid = MaxOf(S) BY Zenon DEF LastDistillXid
<1> QED BY Zenon, <1>1, <1>2, <1>3

\* ... all entries ever written, and the greatest xid.
LEMMA ScannedAll ==
  ASSUME NEW dk \in [Slot -> EntryRec], FormatLast(dk)
  PROVE  /\ \A s \in Slot : dk[s].type = "normal" => dk[s] \in Scanned(dk)
         /\ \A e \in Scanned(dk) : e.type = "normal" /\ \E s \in Slot : dk[s] = e
<1>1. ASSUME NEW s \in Slot, dk[s].type = "normal"
      PROVE  \A u \in 0 .. s : dk[u].type # "format"
  BY <1>1, SizesAssumption DEF FormatLast, Slot
<1> QED BY Zenon, <1>1 DEF Scanned

LEMMA LastXidIs ==
  ASSUME DiskTypes, JournalTypes, Xids,
         NEW dk \in [Slot -> EntryRec], FormatLast(dk), DiskXids(dk)
  PROVE  /\ LastXid(dk) \in Nat /\ LastDistillXid <= LastXid(dk)
         /\ \A s \in Slot : dk[s].xid <= LastXid(dk)
<1> DEFINE S == {e.xid : e \in Scanned(dk)} \union {LastDistillXid}
<1>1. /\ \A s \in Slot : dk[s].type = "normal" => dk[s] \in Scanned(dk)
      /\ \A e \in Scanned(dk) : e.type = "normal" /\ \E s \in Slot : dk[s] = e
  BY Zenon, ScannedAll
<1>2. LastDistillXid \in Nat /\ LastDistillXid <= pj_lastxid
  BY Zenon, LastDistillXidIs
<1>3. \A s \in Slot : /\ dk[s].xid \in Nat /\ dk[s].xid <= pj_lastxid
                      /\ dk[s].type = "normal" \/ dk[s].xid = 0
  BY Zenon DEF DiskXids, EntryRec
<1>4. \A e \in Scanned(dk) : e.xid \in Nat /\ e.xid <= pj_lastxid
  BY Zenon, <1>1, <1>3
<1>5. /\ S \in SUBSET Nat /\ S # {} /\ pj_lastxid \in Nat
      /\ \A x \in S : x <= pj_lastxid
  BY Zenon, <1>2, <1>4 DEF JournalTypes
<1>6. MaxOf(S) \in S /\ \A x \in S : x <= MaxOf(S)
  BY Zenon, <1>5, Greatest
<1>7. LastXid(dk) = MaxOf(S) BY Zenon DEF LastXid
<1>8. MaxOf(S) \in Nat /\ LastDistillXid <= MaxOf(S)
  BY Zenon, <1>5, <1>6
<1>9. ASSUME NEW s \in Slot PROVE dk[s].xid <= MaxOf(S)
  <2>1. CASE dk[s].type = "normal" BY Zenon, <1>1, <1>6, <2>1
  <2>2. CASE dk[s].xid = 0 BY <1>8, <2>2
  <2> QED BY Zenon, <1>3, <2>1, <2>2
<1> QED BY Zenon, <1>7, <1>8, <1>9

\* The entry being written has a slot of its own.
LEMMA Apart ==
  ASSUME JournalTypes, OpTypes, Window, Room, Writer, NEW o \in Op, pc[o] = "io",
         NEW i \in 1 .. Len(pj_pendingxids), pj_pendingxids[i].op # o
  PROVE  slot[pj_pendingxids[i].op] # slot[o]
<1> DEFINE n == Len(pj_pendingxids)
<1>1. n \in Nat /\ i \in 1 .. n /\ n <= Total
  <2>1. IsFiniteSet(ToLog) BY Zenon, OpAssumption, FS_Subset DEF ToLog
  <2>2. Cardinality(ToLog) \in Nat BY Zenon, <2>1, FS_CardinalityType
  <2> QED BY <2>2, SizesAssumption DEF JournalTypes, Room
<1>2. i # n
  BY <1>1 DEF Writer, JournalTypes
<1>3. pj_nextwrite = Wrap(slot[o] + 1) BY Zenon DEF Writer
<1>4. pj_nextwrite = Wrap(slot[pj_pendingxids[i].op] + (n - i + 1))
  BY Zenon DEF Window
<1>5. n - i + 1 \in Nat /\ 1 < n - i + 1 /\ n - i + 1 <= Total
  BY <1>1, <1>2, SizesAssumption
<1>6. slot[o] \in Slot BY Zenon DEF OpTypes
<1> HIDE DEF n
<1>7. Wrap(slot[o] + 1) # Wrap(slot[o] + (n - i + 1))
  BY SMTT(30), <1>5, <1>6, WrapDistinct, SizesAssumption
<1> QED BY Zenon, <1>3, <1>4, <1>7

\* The disk with the entry that is being written.
LEMMA WrittenDisk ==
  ASSUME Types, LogInv, Xids, NEW o \in Op, pc[o] = "io", Place(o),
         NEW dk, dk = [disk EXCEPT ![slot[o]] = Logged(o)]
  PROVE  /\ dk \in [Slot -> EntryRec] /\ FormatLast(dk) /\ DiskXids(dk)
         /\ dk[slot[o]] = Logged(o) /\ \A s \in Slot : s # slot[o] => dk[s] = disk[s]
         /\ \A x \in Nat : Seen(disk, x) /\ x < xid[o] => Seen(dk, x)
<1>1. Logged(o) \in EntryRec /\ Logged(o).type = "normal" /\ Logged(o).xid = xid[o]
  BY Zenon DEF Types, OpTypes, Logged, Entry, EntryRec
<1>2. slot[o] \in Slot /\ xid[o] \in Nat /\ xid[o] <= pj_lastxid
  BY Zenon DEF Types, OpTypes, Xids
<1>3. disk \in [Slot -> EntryRec] BY Zenon DEF Types, DiskTypes
<1> HIDE DEF Logged
<1>4. /\ dk \in [Slot -> EntryRec] /\ dk[slot[o]] = Logged(o)
      /\ \A s \in Slot : s # slot[o] => dk[s] = disk[s]
  BY Zenon, <1>1, <1>2, <1>3
<1>5. FormatLast(dk)
  <2>1. \A s \in Slot : s < slot[o] => disk[s].type # "format"
    BY Zenon DEF LogInv, Writer
  <2> QED BY <1>1, <1>2, <1>4, <2>1 DEF LogInv, FormatLast, Slot
<1>6. DiskXids(dk)
  BY Zenon, <1>1, <1>2, <1>4 DEF Xids, DiskXids
<1>7. ASSUME NEW x \in Nat, Seen(disk, x), x < xid[o]
      PROVE  Seen(dk, x)
  BY <1>1, <1>2, <1>4, <1>7 DEF Seen, Types, DiskTypes, EntryRec
<1> QED BY Zenon, <1>4, <1>5, <1>6, <1>7

LEMMA SeenBelow ==
  ASSUME DiskTypes, JournalTypes, DiskXids(disk), NEW x \in Nat, Seen(disk, x)
  PROVE  x <= pj_lastxid
BY DEF DiskTypes, JournalTypes, EntryRec, DiskXids, Seen

\* What a crash may leave on disk, and that it has the entries in use.
CrashDisk(dk) ==
  dk = disk \/ \E o \in Op : pc[o] = "io" /\ dk = [disk EXCEPT ![slot[o]] = Logged(o)]

LEMMA CrashDiskHas ==
  ASSUME Types, LogInv, Xids, Replayed, \A o \in Op : Place(o),
         NEW dk, CrashDisk(dk)
  PROVE  /\ dk \in [Slot -> EntryRec] /\ FormatLast(dk) /\ DiskXids(dk)
         /\ \A c \in curfile : Seen(dk, c.cur.replay_xid)
         /\ \A i \in 1 .. Len(pj_pendingxids) :
              pc[pj_pendingxids[i].op] # "io" =>
                dk[slot[pj_pendingxids[i].op]] = Logged(pj_pendingxids[i].op)
<1>1. CASE dk = disk
  BY Zenon, <1>1 DEF Types, DiskTypes, LogInv, Xids, Replayed, OnDisk
<1>2. CASE dk # disk
  <2>1. PICK o \in Op : pc[o] = "io" /\ dk = [disk EXCEPT ![slot[o]] = Logged(o)]
    BY Zenon, <1>2 DEF CrashDisk
  <2>2. /\ dk \in [Slot -> EntryRec] /\ FormatLast(dk) /\ DiskXids(dk)
        /\ \A s \in Slot : s # slot[o] => dk[s] = disk[s]
        /\ \A x \in Nat : Seen(disk, x) /\ x < xid[o] => Seen(dk, x)
    BY Zenon, <2>1, WrittenDisk
  <2>3. ASSUME NEW c \in curfile PROVE Seen(dk, c.cur.replay_xid)
    <3>1. c.cur.replay_xid \in Nat BY Zenon DEF Types, DiskTypes, Cur
    <3>2. xid[o] # 0 BY Zenon, <2>1 DEF Place
    <3>3. Seen(disk, c.cur.replay_xid) /\ c.cur.replay_xid < xid[o]
      BY Zenon, <3>2 DEF Replayed
    <3> QED BY Zenon, <2>2, <3>1, <3>3
  <2>4. ASSUME NEW i \in 1 .. Len(pj_pendingxids), pc[pj_pendingxids[i].op] # "io"
        PROVE  dk[slot[pj_pendingxids[i].op]] = Logged(pj_pendingxids[i].op)
    <3>1. pj_pendingxids[i].op \in Op BY Zenon, PendingOp DEF Types
    <3>2. slot[pj_pendingxids[i].op] # slot[o]
      BY Zenon, <2>1, <2>4, Apart DEF Types, LogInv
    <3>3. slot[pj_pendingxids[i].op] \in Slot BY Zenon, <3>1 DEF Types, OpTypes
    <3>4. disk[slot[pj_pendingxids[i].op]] = Logged(pj_pendingxids[i].op)
      BY Zenon, <2>4 DEF LogInv, OnDisk
    <3> QED BY Zenon, <2>2, <3>2, <3>3, <3>4
  <2> QED BY Zenon, <2>2, <2>3, <2>4
<1> QED BY Zenon, <1>1, <1>2

\* Outside recovery, what has been answered is synced or would be replayed.
LEMMA CrashDurable ==
  ASSUME IInv, ~REPLAYINPROG, NEW dk, CrashDisk(dk), NEW o \in Op, Answered(o)
  PROVE  \/ done[o] \in 1 .. synced
         \/ \E e \in Kept(dk) : e.op = o /\ e.txg > SyncedCursor.commit_txg
<1> USE DEF IInv
<1>1. CASE xid[o] = 0 BY Zenon, <1>1 DEF Settled
<1>2. CASE xid[o] # 0
  <2>1. etxg[o] = done[o] /\ done[o] # 0 /\ InTx(o) /\ pc[o] = "acked"
    BY Zenon, <1>2 DEF Place, Answered
  <2>2. done[o] \in Nat /\ etxg[o] \in Nat /\ xid[o] \in Nat /\ synced \in Nat
    BY Zenon DEF Types, DiskTypes, OpTypes, ZfsTypes
  <2>3. CASE etxg[o] <= synced BY <2>1, <2>2, <2>3
  <2>4. CASE etxg[o] > synced
    <3>1. PICK i \in 1 .. Len(pj_pendingxids) : pj_pendingxids[i].op = o
      BY <1>2, <2>1, <2>2, <2>4 DEF LogInv, InUse, IsPending
    <3>2. /\ dk \in [Slot -> EntryRec] /\ FormatLast(dk)
          /\ dk[slot[o]] = Logged(o)
      BY Zenon, <2>1, <3>1, CrashDiskHas
    <3>3. Logged(o).type = "normal" /\ Logged(o).xid = xid[o]
          /\ Logged(o).txg = etxg[o] /\ Logged(o).op = o
      BY Zenon DEF Logged, Entry
    <3>4. Logged(o) \in Scanned(dk)
      <4>1. slot[o] \in Slot BY Zenon DEF Types, OpTypes
      <4> QED BY Zenon, <3>2, <3>3, <4>1, ScannedAll
    <3>5. PICK c \in curfile : c.txg <= synced /\ SyncedCursor = c.cur
      BY Zenon, SyncedCursorIs DEF Types
    <3>6. /\ c.cur.replay_xid < xid[o] /\ c.cur.commit_txg <= c.txg
          /\ c.txg \in Nat /\ c.cur.commit_txg \in Nat /\ c.cur.replay_xid \in Nat
      BY Zenon, <1>2 DEF Replayed, CursorFile, Types, DiskTypes, Cur
    <3>7. etxg[o] > SyncedCursor.commit_txg /\ xid[o] > SyncedCursor.replay_xid
      BY SMTT(30), <2>2, <2>4, <3>5, <3>6
    <3>8. SyncedCursor.commit_txg \in Nat BY Zenon, <3>5, <3>6
    <3> HIDE DEF Logged
    <3>9. Logged(o) \in Kept(dk)
      BY SMTT(30), <2>2, <3>3, <3>4, <3>7, <3>8 DEF Kept
    <3> QED BY Zenon, <3>3, <3>7, <3>9
  <2> QED BY <2>2, <2>3, <2>4
<1> QED BY Zenon, <1>1, <1>2

------------------------------------------------------------------------------
\* Steps that leave the log alone.
LEMMA LogFrame ==
  ASSUME OpTypes, ZfsTypes, ZfsTypes', LogInv, synced <= synced',
         UNCHANGED << disk, pj_nextwrite, pj_pendingxids, ovars >>
  PROVE  LogInv'
<1> USE DEF ovars
<1>1. ToLog' = ToLog BY Zenon DEF ToLog
<1>2. Window' BY Zenon DEF LogInv, Window, Wrap
<1>3. Room' BY Zenon, <1>1 DEF LogInv, Room
<1>4. Writer' BY Zenon DEF LogInv, Writer, Wrap
<1>5. FormatLast(disk)' /\ Fresh' BY Zenon DEF LogInv, FormatLast, Fresh
<1>6. OnDisk' BY Zenon DEF LogInv, OnDisk, HasLogged, Logged, Entry
<1>7. InUse' BY SMTT(30) DEF LogInv, InUse, IsPending, InTx, OpTypes, ZfsTypes
<1> QED BY Zenon, <1>2, <1>3, <1>4, <1>5, <1>6, <1>7 DEF LogInv

\* Steps of the cursor thread, the distill thread and ZFS that change neither
\* what a restart reads of the cursor file nor the operations.
LEMMA QuietFrame ==
  ASSUME IInv, ZfsTypes',
         UNCHANGED << disk, done, curfile, synced, mds_cursor, pj_nextwrite,
                      pj_pendingxids, pj_commit_txg, pj_replay_xid, rep, ovars >>
  PROVE  /\ CursorFile' /\ (\A o \in Op : Place(o))' /\ LogInv'
         /\ Replayed' /\ Replay' /\ Settled' /\ OpTypes' /\ RepTypes'
<1> USE DEF IInv, REPLAYINPROG, ovars
<1>1. CursorFile' BY Zenon DEF CursorFile
<1>2. (\A o \in Op : Place(o))' BY Zenon DEF Place, InTx
<1>3. synced <= synced' BY DEF Types, ZfsTypes
<1>4. LogInv' BY Zenon, <1>3, LogFrame DEF Types
<1>5. Replayed' BY Zenon DEF Replayed, Seen
<1>6. Replay' BY Zenon DEF Replay, Redoes, Answered, InTx, OfDisk
<1>7. Settled' BY Zenon DEF Settled, Answered, InTx
<1>8. OpTypes' /\ RepTypes' BY Zenon DEF Types, OpTypes, RepTypes
<1> QED BY Zenon, <1>1, <1>2, <1>4, <1>5, <1>6, <1>7, <1>8

LEMMA StepDistillTake == ASSUME IInv, DistillTake PROVE IInv'
<1> USE DEF DistillTake, DistillReady, zvars, dvars, ovars, IInv
<1>1. DiskTypes' /\ ZfsTypes' BY Zenon DEF Types, DiskTypes, ZfsTypes
<1>2. /\ Head(pj_distillxids) \in Op /\ Tail(pj_distillxids) \in Seq(Op)
  BY Zenon, SeqTail DEF Types, JournalTypes
<1>3. xid[Head(pj_distillxids)] \in Nat BY Zenon, <1>2 DEF Types, OpTypes
<1>4. JournalTypes' BY Zenon, <1>2, <1>3 DEF Types, JournalTypes
<1>5. Groups' BY Zenon DEF Groups
<1>6. Xids' BY Zenon, <1>2 DEF Xids, DiskXids
<1> QED BY Zenon, <1>1, <1>4, <1>5, <1>6, QuietFrame DEF Types

LEMMA StepDistillHandler == ASSUME IInv, DistillHandler PROVE IInv'
<1> USE DEF DistillHandler, WriteLogentry, zvars, dvars, ovars, IInv
<1>1. dist.xid \in Nat /\ dist.xid <= pj_lastxid BY Zenon DEF Types, JournalTypes, Xids
<1>2. DiskTypes' /\ ZfsTypes' BY <1>1 DEF Types, DiskTypes, ZfsTypes
<1>3. JournalTypes' BY Zenon DEF Types, JournalTypes
<1>4. Groups' BY Zenon DEF Groups
<1>5. dist'.xid = dist.xid BY Zenon DEF Types, JournalTypes
<1>6. Xids' BY <1>1, <1>5 DEF Xids, DiskXids
<1> QED BY Zenon, <1>2, <1>3, <1>4, <1>6, QuietFrame DEF Types

LEMMA StepCursor ==
  ASSUME IInv, CursorAssign \/ CursorHold \/ CursorStart PROVE IInv'
<1> USE DEF CursorAssign, CursorHold, CursorStart, dvars, jvars, ovars, IInv
<1>1. DiskTypes' /\ ZfsTypes' BY DEF Types, DiskTypes, ZfsTypes
<1>2. JournalTypes' BY Zenon DEF Types, JournalTypes, ZfsTypes
<1>3. Groups' BY DEF Groups, Types, ZfsTypes
<1>4. Xids' BY Zenon DEF Xids, DiskXids
<1>5. UNCHANGED << disk, done, curfile, synced, mds_cursor, pj_nextwrite,
        pj_pendingxids, pj_commit_txg, pj_replay_xid, rep, ovars >>
  BY Zenon
<1> QED BY Zenon, <1>1, <1>2, <1>3, <1>4, <1>5, QuietFrame DEF Types

LEMMA StepTxgQuiesce == ASSUME IInv, TxgQuiesce PROVE IInv'
<1> USE DEF TxgQuiesce, dvars, jvars, ovars, IInv
<1>1. DiskTypes' /\ ZfsTypes' BY DEF Types, DiskTypes, ZfsTypes
<1>2. JournalTypes' BY Zenon DEF Types, JournalTypes
<1>3. Groups' BY DEF Groups, Types, ZfsTypes, DiskTypes
<1>4. Xids' BY Zenon DEF Xids, DiskXids
<1> QED BY Zenon, <1>1, <1>2, <1>3, <1>4, QuietFrame DEF Types

LEMMA StepStutter == ASSUME IInv, UNCHANGED vars PROVE IInv'
<1> USE DEF vars, dvars, zvars, jvars, ovars, IInv
<1>1. DiskTypes' /\ ZfsTypes' BY Zenon DEF Types, DiskTypes, ZfsTypes
<1>2. JournalTypes' BY Zenon DEF Types, JournalTypes
<1>3. Groups' BY Zenon DEF Groups
<1>4. Xids' BY Zenon DEF Xids, DiskXids
<1> QED BY Zenon, <1>1, <1>2, <1>3, <1>4, QuietFrame DEF Types

\* mds_update_cursor: outside a replay the file gets the group that has been
\* closed, in one the xid replayed last.
LEMMA StepCursorEnd == ASSUME IInv, CursorEnd PROVE IInv'
<1> USE DEF CursorEnd, jvars, ovars, IInv
<1> DEFINE new == [txg |-> cursor.txg, cur |-> mds_cursor']
<1>1. /\ cursor.txg \in Nat /\ synced \in Nat /\ cursor.txg > synced
      /\ mds_cursor \in Cur /\ pj_replay_xid \in Nat
  BY Zenon DEF Types, ZfsTypes, JournalTypes, Groups
<1>2. /\ mds_cursor' \in Cur
      /\ REPLAYINPROG => /\ mds_cursor'.replay_xid = pj_replay_xid
                         /\ mds_cursor'.commit_txg = mds_cursor.commit_txg
      /\ ~REPLAYINPROG => /\ mds_cursor'.replay_xid = mds_cursor.replay_xid
                          /\ mds_cursor'.commit_txg = cursor.txg
  BY Zenon, <1>1 DEF Cur
<1>3. mds_cursor'.commit_txg <= cursor.txg
  BY <1>1, <1>2 DEF CursorFile, Cur
<1>4. new.txg = cursor.txg /\ new.cur = mds_cursor' BY Zenon
<1>5. curfile' = curfile \union {new} BY Zenon
<1> HIDE DEF new
<1>6. DiskTypes'
  BY Zenon, <1>1, <1>2, <1>4, <1>5 DEF Types, DiskTypes
<1>7. ZfsTypes' BY Zenon, <1>2 DEF Types, ZfsTypes
<1>8. JournalTypes' /\ OpTypes' /\ RepTypes'
  BY Zenon DEF Types, JournalTypes, OpTypes, RepTypes
<1>9. Groups' BY Zenon DEF Groups
<1>10. CursorFile'
  BY Zenon, <1>2, <1>3, <1>4, <1>5 DEF CursorFile, REPLAYINPROG
<1>11. (\A o \in Op : Place(o))' BY Zenon DEF Place, InTx, REPLAYINPROG
<1>12. LogInv' BY <1>1, <1>7, LogFrame DEF Types
<1>13. Xids' BY Zenon DEF Xids, DiskXids
<1>14. Seen(disk, mds_cursor'.replay_xid)
  BY Zenon, <1>2 DEF Replayed
<1>15. \A o \in Op : xid[o] # 0 => mds_cursor'.replay_xid < xid[o]
  BY Zenon, <1>2 DEF Replayed, Place
<1>16. Replayed'
  BY Zenon, <1>4, <1>5, <1>14, <1>15 DEF Replayed, Seen, REPLAYINPROG
<1>17. Replay' BY DEF Replay, Redoes, Answered, InTx, OfDisk, REPLAYINPROG
<1>18. Settled' BY Zenon DEF Settled, Answered, InTx, REPLAYINPROG
<1> QED BY Zenon, <1>6, <1>7, <1>8, <1>9, <1>10, <1>11, <1>12, <1>13, <1>16, <1>17, <1>18
        DEF Types

\* The oldest group is synced; the cursor file has contents for it or keeps
\* what it had.
LEMMA StepTxgSync == ASSUME IInv, TxgSync PROVE IInv'
<1> USE DEF TxgSync, jvars, ovars, IInv
<1>1. /\ synced \in Nat /\ synced' = synced + 1 /\ synced' < open_txg
      /\ open_txg \in Nat
  BY Zenon DEF Types, ZfsTypes
<1>2. curfile' \subseteq curfile BY Zenon
<1>3. DiskTypes' BY Zenon, <1>2 DEF Types, DiskTypes
<1>4. ZfsTypes' BY <1>1 DEF Types, ZfsTypes
<1>5. JournalTypes' /\ OpTypes' /\ RepTypes'
  BY Zenon DEF Types, JournalTypes, OpTypes, RepTypes
<1>6. Groups'
  <2>1. cursor'.at \in {"assigned", "open"} => cursor'.txg > synced'
    BY <1>1 DEF Groups, Types, ZfsTypes
  <2>2. \A o \in Op : txg[o] # 0 => txg[o] > synced'
    BY <1>1 DEF Groups, Types, OpTypes
  <2> QED BY Zenon, <1>1, <2>1, <2>2 DEF Groups
<1>7. CursorFile'
  <2>1. \E c \in curfile' : c.txg <= synced'
    <3>1. CASE \E c \in curfile : c.txg = synced + 1
      BY <1>1, <3>1
    <3>2. CASE ~ \E c \in curfile : c.txg = synced + 1
      <4>1. PICK c \in curfile : c.txg <= synced BY Zenon DEF CursorFile
      <4> QED BY <1>1, <3>2, <4>1 DEF Types, DiskTypes
    <3> QED BY Zenon, <3>1, <3>2
  <2>2. pj_commit_txg <= synced' /\ (REPLAYINPROG => mds_cursor.commit_txg <= synced')
    BY SMTT(30), <1>1 DEF CursorFile, Types, JournalTypes, ZfsTypes, Cur
  <2> QED BY Zenon, <1>2, <2>1, <2>2 DEF CursorFile, REPLAYINPROG
<1>8. (\A o \in Op : Place(o))' BY Zenon DEF Place, InTx, REPLAYINPROG
<1>9. LogInv' BY <1>1, <1>4, LogFrame DEF Types
<1>10. Xids' BY Zenon DEF Xids, DiskXids
<1>11. Replayed' BY Zenon, <1>2 DEF Replayed, Seen, REPLAYINPROG
<1>12. Replay' BY Zenon DEF Replay, Redoes, Answered, InTx, OfDisk, REPLAYINPROG
<1>13. Settled' BY <1>1 DEF Settled, Answered, InTx, REPLAYINPROG
<1> QED BY Zenon, <1>3, <1>4, <1>5, <1>6, <1>7, <1>8, <1>9, <1>10, <1>11, <1>12, <1>13
        DEF Types

\* Steps of the distill thread that change the list of entries in use only.
LEMMA PendingFrame ==
  ASSUME IInv, JournalTypes', LogInv', dist'.xid <= pj_lastxid,
         pj_pendingxids = <<>> => pj_pendingxids' = <<>>,
         UNCHANGED << dvars, zvars, pj_lastxid, pj_commit_txg, pj_replay_xid, rep,
                      ovars >>
  PROVE  IInv'
<1> USE DEF dvars, zvars, ovars, IInv, REPLAYINPROG
<1>1. DiskTypes' /\ ZfsTypes' /\ OpTypes' /\ RepTypes'
  BY Zenon DEF Types, DiskTypes, ZfsTypes, OpTypes, RepTypes
<1>2. Groups' BY Zenon DEF Groups
<1>3. CursorFile' BY Zenon DEF CursorFile
<1>4. (\A o \in Op : Place(o))' BY Zenon DEF Place, InTx
<1>5. Xids' BY Zenon DEF Xids, DiskXids
<1>6. Replayed' BY Zenon DEF Replayed, Seen
<1>7. Replay' BY Zenon DEF Replay, Redoes, Answered, InTx, OfDisk
<1>8. Settled' BY Zenon DEF Settled, Answered, InTx
<1> QED BY Zenon, <1>1, <1>2, <1>3, <1>4, <1>5, <1>6, <1>7, <1>8 DEF Types

\* A distilled entry is in use until the group of its record is synced too.
LEMMA StepDistillDone == ASSUME IInv, DistillDone PROVE IInv'
<1> USE DEF IInv
<1> DEFINE n == Len(pj_pendingxids)
           Up(h) == [h EXCEPT !.txg = MaxOf({h.txg, pj_current_txg + 1}),
                              !.distill = FALSE]
<1>1. pj_pendingxids \in Seq(Handle) /\ n \in Nat /\ DOMAIN pj_pendingxids = 1 .. n
      /\ pj_current_txg \in Nat /\ pj_lastxid \in Nat
  BY DEF Types, JournalTypes
<1>2. ASSUME NEW h \in Handle
      PROVE  Up(h) \in Handle /\ Up(h).op = h.op /\ h.txg <= Up(h).txg
  <2>1. h.txg \in Nat /\ pj_current_txg + 1 \in Nat BY <1>1 DEF Handle
  <2> DEFINE m == MaxOf({h.txg, pj_current_txg + 1})
  <2>2. m \in Nat /\ h.txg <= m BY Zenon, <2>1, MaxOfTwo
  <2> HIDE DEF m
  <2>3. Up(h) = [h EXCEPT !.txg = m, !.distill = FALSE] BY Zenon DEF m
  <2> QED BY Zenon, <2>2, <2>3 DEF Handle
<1>3. \A i \in 1 .. n : pj_pendingxids[i] \in Handle
  BY Zenon, <1>1, SeqElement
<1>4. pj_pendingxids' = [i \in 1 .. n |->
         IF pj_pendingxids[i].xid # dist.xid THEN pj_pendingxids[i]
         ELSE Up(pj_pendingxids[i])]
  BY Zenon, <1>1 DEF DistillDone
<1>0. /\ dist' = Idle
      /\ UNCHANGED << dvars, zvars, pj_lastxid, pj_nextwrite, pj_current_txg,
           pj_distillxids, pj_distill_xid, pj_commit_txg, pj_replay_xid, rep, ovars,
           crashes >>
  BY Zenon DEF DistillDone
<1> HIDE DEF Up
<1>5. /\ pj_pendingxids' \in [1 .. n -> Handle]
      /\ \A i \in 1 .. n : /\ pj_pendingxids'[i].op = pj_pendingxids[i].op
                           /\ pj_pendingxids[i].txg <= pj_pendingxids'[i].txg
  <2>1. ASSUME NEW i \in 1 .. n
        PROVE  /\ pj_pendingxids'[i] \in Handle
               /\ pj_pendingxids'[i].op = pj_pendingxids[i].op
               /\ pj_pendingxids[i].txg <= pj_pendingxids'[i].txg
    <3>1. pj_pendingxids[i].txg \in Nat BY Zenon, <1>3 DEF Handle
    <3> QED BY <1>2, <1>3, <1>4, <3>1
  <2> HIDE DEF n
  <2> QED BY Zenon, <1>4, <2>1
<1>6. pj_pendingxids' \in Seq(Handle) /\ Len(pj_pendingxids') = n
  BY <1>1, <1>5
<1> HIDE DEF n
<1>7. JournalTypes' /\ dist'.xid <= pj_lastxid
  BY <1>0, <1>1, <1>6 DEF Types, JournalTypes, Idle
<1>8. LogInv'
  <2> USE <1>0 DEF dvars, zvars, ovars, LogInv, n
  <2>1. Window' BY <1>5, <1>6 DEF Window, Wrap
  <2>2. ToLog' = ToLog BY Zenon DEF ToLog
  <2>3. Room' BY Zenon, <1>6, <2>2 DEF Room
  <2>4. pj_pendingxids' # <<>> => pj_pendingxids # <<>> /\ n \in 1 .. n
    BY <1>1, <1>6 DEF Types, JournalTypes
  <2>5. Writer' BY Zenon, <1>5, <1>6, <2>4 DEF Writer, Wrap
  <2>6. FormatLast(disk)' /\ Fresh' BY Zenon DEF FormatLast, Fresh
  <2>7. OnDisk'
    <3> SUFFICES ASSUME NEW i \in 1 .. n, NEW o \in Op, o = pj_pendingxids[i].op
                 PROVE  /\ HasLogged(o)' /\ (pc[o] # "io" => disk[slot[o]] = Logged(o)')
                        /\ etxg[o] <= pj_pendingxids'[i].txg
      BY Zenon, <1>3, <1>5, <1>6 DEF OnDisk, Handle
    <3>1. /\ pj_pendingxids[i].txg \in Nat /\ pj_pendingxids'[i].txg \in Nat
          /\ etxg[o] \in Nat
      BY Zenon, <1>3, <1>5 DEF Handle, Types, OpTypes
    <3>2. /\ HasLogged(o) /\ (pc[o] # "io" => disk[slot[o]] = Logged(o))
          /\ etxg[o] <= pj_pendingxids[i].txg
      BY Zenon DEF OnDisk
    <3>3. HasLogged(o)' /\ Logged(o)' = Logged(o)
      BY Zenon, <3>2 DEF HasLogged, Logged, Entry
    <3> QED BY <1>5, <3>1, <3>2, <3>3
  <2>8. InUse' BY Zenon, <1>5, <1>6 DEF InUse, IsPending, InTx
  <2> QED BY Zenon, <2>1, <2>3, <2>5, <2>6, <2>7, <2>8
<1>9. pj_pendingxids = <<>> => pj_pendingxids' = <<>>
  BY <1>1, <1>6 DEF n
<1> QED BY Zenon, <1>0, <1>7, <1>8, <1>9, PendingFrame

\* The oldest entry in use is given up: its group is synced.
LEMMA StepReclaim == ASSUME IInv, Reclaim PROVE IInv'
<1> USE DEF IInv
<1> DEFINE n == Len(pj_pendingxids)
           s == pj_pendingxids
           t == pj_pendingxids'
<1>1. /\ s \in Seq(Handle) /\ n \in Nat /\ t \in Seq(Handle) /\ Len(t) = n - 1
      /\ \A i \in 1 .. n - 1 : t[i] = s[i + 1]
      /\ Head(s) = s[1] /\ n \in Nat \ {0}
  BY Zenon, SeqTail DEF Types, JournalTypes, Reclaim
<1>2. JournalTypes' /\ dist'.xid <= pj_lastxid
  BY Zenon, <1>1 DEF Types, JournalTypes, Reclaim, Xids
<1>3. LogInv'
  <2> USE DEF Reclaim, dvars, zvars, ovars, LogInv
  <2>1. Window'
    <3>1. ASSUME NEW i \in 1 .. n - 1
          PROVE  pj_nextwrite = Wrap(slot[t[i].op] + (n - 1 - i + 1))
      <4>1. i + 1 \in 1 .. n /\ n - (i + 1) + 1 = n - 1 - i + 1 BY <1>1
      <4>2. pj_nextwrite = Wrap(slot[s[i + 1].op] + (n - (i + 1) + 1))
        BY Zenon, <4>1 DEF Window
      <4> QED BY Zenon, <1>1, <4>1, <4>2
    <3> QED BY Zenon, <1>1, <3>1 DEF Window, Wrap
  <2>2. ToLog' = ToLog BY Zenon DEF ToLog
  <2>3. Room'
    <3>1. IsFiniteSet(ToLog) BY Zenon, OpAssumption, FS_Subset DEF ToLog
    <3>2. Cardinality(ToLog) \in Nat BY Zenon, <3>1, FS_CardinalityType
    <3> HIDE DEF ToLog
    <3> QED BY <1>1, <2>2, <3>2, SizesAssumption DEF Room
  <2>4. t # <<>> => n - 1 \in 1 .. n - 1 /\ t[Len(t)] = s[n] /\ s # <<>>
    BY <1>1
  <2>5. Writer' BY Zenon, <2>4 DEF Writer, Wrap
  <2>6. FormatLast(disk)' /\ Fresh' BY Zenon DEF FormatLast, Fresh
  <2>7. OnDisk'
    <3>1. \A i \in 1 .. n - 1 : i + 1 \in 1 .. n /\ t[i] = s[i + 1] BY <1>1
    <3> QED BY SMTT(30), <1>1, <3>1 DEF OnDisk, HasLogged, Logged, Entry
  <2>8. InUse'
    <3> SUFFICES ASSUME NEW o \in Op, InTx(o), pc[o] \in {"io", "commit", "acked"},
                        xid[o] # 0
                 PROVE  etxg[o] <= synced \/ \E i \in 1 .. n - 1 : t[i].op = o
      BY Zenon, <1>1 DEF InUse, IsPending, InTx
    <3>1. CASE etxg[o] <= synced BY Zenon, <3>1
    <3>2. CASE IsPending(o)
      <4>1. PICK i \in 1 .. n : s[i].op = o BY Zenon, <3>2 DEF IsPending
      <4>2. CASE i = 1
        <5>1. etxg[o] <= s[1].txg /\ s[1].txg <= synced
          BY Zenon, <1>1, <4>1, <4>2 DEF OnDisk, Reclaimable
        <5>2. s[1] \in Handle BY <1>1, SeqElement
        <5>3. s[1].txg \in Nat /\ etxg[o] \in Nat /\ synced \in Nat
          BY Zenon, <5>2 DEF Handle, Types, OpTypes, ZfsTypes
        <5> QED BY <5>1, <5>3
      <4>3. CASE i # 1
        <5>1. i - 1 \in 1 .. n - 1 /\ t[i - 1] = s[i] BY <1>1, <4>3
        <5> QED BY Zenon, <4>1, <5>1
      <4> QED BY Zenon, <4>2, <4>3
    <3> QED BY Zenon, <3>1, <3>2 DEF InUse
  <2> QED BY Zenon, <2>1, <2>3, <2>5, <2>6, <2>7, <2>8
<1> QED BY Zenon, <1>2, <1>3, PendingFrame DEF Reclaim

------------------------------------------------------------------------------
\* The operations.  One that has not logged yet is not on the list.
LEMMA NotPending ==
  ASSUME OnDisk, NEW o \in Op, ~HasLogged(o) PROVE ~IsPending(o)
BY Zenon DEF OnDisk, IsPending

\* Logging needs room that was there, or that the operation found at its start.
LEMMA RoomKept ==
  ASSUME JournalTypes, Room, ToLog' \subseteq ToLog, pj_pendingxids' = pj_pendingxids
  PROVE  Room'
<1>1. IsFiniteSet(ToLog) BY Zenon, OpAssumption, FS_Subset DEF ToLog
<1>2. /\ Cardinality(ToLog) \in Nat /\ IsFiniteSet(ToLog')
      /\ Cardinality(ToLog') <= Cardinality(ToLog)
  BY Zenon, <1>1, FS_Subset, FS_CardinalityType
<1>3. Cardinality(ToLog') \in Nat BY Zenon, <1>2, FS_CardinalityType
<1> HIDE DEF ToLog
<1> QED BY <1>2, <1>3, SizesAssumption DEF Room, JournalTypes

LEMMA RoomTaken ==
  ASSUME JournalTypes, NEW o \in Op, ToLog' \subseteq ToLog \cup {o},
         Cardinality(Running) + Len(pj_pendingxids) < Total,
         pj_pendingxids' = pj_pendingxids
  PROVE  Room'
<1>1. IsFiniteSet(Running) BY Zenon, OpAssumption, FS_Subset DEF Running
<1>2. ToLog' \subseteq Running \cup {o} BY Zenon DEF ToLog, Running
<1>3. /\ IsFiniteSet(Running \cup {o}) /\ Cardinality(Running) \in Nat
      /\ Cardinality(Running \cup {o}) <= Cardinality(Running) + 1
  <2>1. Cardinality(Running) \in Nat BY Zenon, <1>1, FS_CardinalityType
  <2>2. /\ IsFiniteSet(Running \cup {o})
        /\ Cardinality(Running \cup {o}) =
             IF o \in Running THEN Cardinality(Running) ELSE Cardinality(Running) + 1
    BY Zenon, <1>1, FS_AddElement
  <2> HIDE DEF Running
  <2> QED BY <2>1, <2>2
<1>4. IsFiniteSet(ToLog') /\ Cardinality(ToLog') <= Cardinality(Running \cup {o})
  BY Zenon, <1>2, <1>3, FS_Subset
<1>5. Cardinality(ToLog') \in Nat /\ Cardinality(Running \cup {o}) \in Nat
  BY Zenon, <1>3, <1>4, FS_CardinalityType
<1> HIDE DEF ToLog, Running
<1> QED BY <1>3, <1>4, <1>5, SizesAssumption DEF Room, JournalTypes

\* A step of one operation that is not one of its log write.
LEMMA LogMove ==
  ASSUME IInv, NEW o \in Op, Room', pc[o] # "io", pc'[o] # "io",
         UNCHANGED << disk, pj_nextwrite, pj_pendingxids, slot, synced >>,
         \A p \in Op : p # o => /\ pc'[p] = pc[p] /\ kind'[p] = kind[p]
                                /\ xid'[p] = xid[p] /\ etxg'[p] = etxg[p],
         IsPending(o) => /\ HasLogged(o)' /\ kind'[o] = kind[o]
                         /\ xid'[o] = xid[o] /\ etxg'[o] = etxg[o],
         InTx(o)' /\ pc'[o] \in {"commit", "acked"} /\ xid'[o] # 0 =>
           /\ InTx(o) /\ pc[o] \in {"commit", "acked"}
           /\ xid[o] # 0 /\ etxg'[o] = etxg[o]
  PROVE  LogInv'
<1> USE DEF IInv, LogInv
<1>1. Window' BY ZenonT(30) DEF Window, Wrap
<1>2. Writer' BY DEF Writer, Wrap
<1>3. FormatLast(disk)' BY Zenon DEF FormatLast
<1>4. Fresh' BY DEF Fresh
<1>5. OnDisk'
  <2> SUFFICES ASSUME NEW i \in 1 .. Len(pj_pendingxids), NEW p \in Op,
                      p = pj_pendingxids[i].op
               PROVE  /\ HasLogged(p)' /\ (pc'[p] # "io" => disk[slot[p]] = Logged(p)')
                      /\ etxg'[p] <= pj_pendingxids[i].txg
    BY PendingOp DEF OnDisk, Types
  <2>1. /\ HasLogged(p) /\ (pc[p] # "io" => disk[slot[p]] = Logged(p))
        /\ etxg[p] <= pj_pendingxids[i].txg
    BY Zenon DEF OnDisk
  <2>2. p = o => IsPending(o) BY Zenon DEF IsPending
  <2>3. HasLogged(p)'
    <3>1. CASE p = o BY Zenon, <2>2, <3>1
    <3>2. CASE p # o BY Zenon, <2>1, <3>2 DEF HasLogged
    <3> QED BY Zenon, <3>1, <3>2
  <2>4. Logged(p)' = Logged(p) /\ etxg'[p] = etxg[p]
    BY Zenon, <2>2 DEF Logged, Entry
  <2> QED BY Zenon, <2>1, <2>3, <2>4
<1>6. InUse'
  <2> SUFFICES ASSUME NEW p \in Op, InTx(p)', pc'[p] \in {"io", "commit", "acked"},
                      xid'[p] # 0
               PROVE  etxg'[p] <= synced \/ IsPending(p)
    BY Zenon DEF InUse, IsPending
  <2>1. /\ InTx(p) /\ pc[p] \in {"io", "commit", "acked"} /\ xid[p] # 0
        /\ etxg'[p] = etxg[p]
    <3>1. CASE p = o BY Zenon, <3>1
    <3>2. CASE p # o BY Zenon, <3>2 DEF InTx
    <3> QED BY Zenon, <3>1, <3>2
  <2> QED BY Zenon, <2>1 DEF InUse
<1> QED BY Zenon, <1>1, <1>2, <1>3, <1>4, <1>5, <1>6

\* An operation runs only outside a replay, which it leaves so.
LEMMA OutsideReplay ==
  ASSUME IInv, NEW o \in Op, pc[o] \notin {"idle", "acked", "dead"}
  PROVE  ~REPLAYINPROG
BY Zenon DEF IInv, Place

LEMMA ReplayFrame ==
  ASSUME ~REPLAYINPROG, RepTypes, UNCHANGED rep
  PROVE  RepTypes' /\ Replay' /\ ~REPLAYINPROG'
BY Zenon DEF REPLAYINPROG, Replay, RepTypes, Busy

LEMMA StepStart ==
  ASSUME IInv, NEW o \in Op, NEW k \in Kinds, Start(o, k) PROVE IInv'
<1> USE DEF Start, dvars, zvars, jvars, IInv
<1>1. DiskTypes' /\ ZfsTypes' BY Zenon DEF Types, DiskTypes, ZfsTypes
<1>2. JournalTypes' BY Zenon DEF Types, JournalTypes
<1>3. pc'[o] \in {"check", "xnew"} /\ kind'[o] = k /\ k \in AllKinds
      /\ (pc'[o] = "xnew" => k = "free")
      /\ \A p \in Op : p # o => pc'[p] = pc[p] /\ kind'[p] = kind[p]
  BY Zenon, KindsAssumption DEF Types, OpTypes
<1>4. OpTypes' BY Zenon, KindsAssumption DEF Types, OpTypes, Positions
<1>5. RepTypes' /\ Replay' /\ ~REPLAYINPROG' BY Zenon, ReplayFrame DEF Types
<1>6. Groups' /\ CursorFile' BY ZenonT(30), <1>5 DEF Groups, CursorFile
<1>7. (\A p \in Op : Place(p))' BY <1>3, <1>5 DEF Place, InTx, AllKinds
<1>8. LogInv'
  <2>1. ToLog' \subseteq ToLog \cup {o} BY Zenon, <1>3 DEF ToLog
  <2>2. Room' BY Zenon, <2>1, RoomTaken DEF Types
  <2>3. ~IsPending(o) BY Zenon, NotPending DEF LogInv, HasLogged
  <2> QED BY Zenon, <1>3, <2>2, <2>3, LogMove
<1>9. Xids' BY Zenon DEF Xids, DiskXids
<1>10. Replayed' BY Zenon, <1>5 DEF Replayed, Seen
<1>11. Settled' BY Zenon, <1>3, <1>5 DEF Settled, Answered, InTx
<1> QED BY Zenon, <1>1, <1>2, <1>4, <1>5, <1>6, <1>7, <1>8, <1>9, <1>10, <1>11 DEF Types

LEMMA StepTxCheck == ASSUME IInv, NEW o \in Op, TxCheck(o) PROVE IInv'
<1> USE DEF TxCheck, dvars, zvars, jvars, IInv
<1>0. ~REPLAYINPROG BY Zenon, OutsideReplay
<1>1. DiskTypes' /\ ZfsTypes' BY Zenon DEF Types, DiskTypes, ZfsTypes
<1>2. JournalTypes' BY Zenon DEF Types, JournalTypes
<1>3. pc'[o] = "hold" /\ \A p \in Op : p # o => pc'[p] = pc[p]
  BY Zenon DEF Types, OpTypes
<1>4. OpTypes' BY Zenon DEF Types, OpTypes, Positions
<1>5. RepTypes' /\ Replay' /\ ~REPLAYINPROG' BY Zenon, <1>0, ReplayFrame DEF Types
<1>6. Groups' /\ CursorFile' BY Zenon, <1>5 DEF Groups, CursorFile
<1>7. (\A p \in Op : Place(p))' BY Zenon, <1>3, <1>5 DEF Place, InTx
<1>8. LogInv'
  <2>1. ToLog' \subseteq ToLog BY Zenon, <1>3 DEF ToLog
  <2>2. Room' BY Zenon, <2>1, RoomKept DEF Types, LogInv
  <2>3. IsPending(o) => HasLogged(o)' BY Zenon, <1>3, NotPending DEF LogInv, HasLogged
  <2> QED BY Zenon, <1>3, <2>2, <2>3, LogMove
<1>9. Xids' BY Zenon DEF Xids, DiskXids
<1>10. Replayed' BY Zenon, <1>5 DEF Replayed, Seen
<1>11. Settled' BY Zenon, <1>0, <1>3, <1>5 DEF Settled, Answered, InTx
<1> QED BY Zenon, <1>1, <1>2, <1>4, <1>5, <1>6, <1>7, <1>8, <1>9, <1>10, <1>11 DEF Types

LEMMA StepTxHold == ASSUME IInv, NEW o \in Op, TxHold(o) PROVE IInv'
<1> USE DEF IInv
<1>0. /\ pc[o] = "hold" /\ done' = [done EXCEPT ![o] = open_txg]
      /\ txg' = [txg EXCEPT ![o] = IF InTx(o) THEN open_txg ELSE 0]
      /\ pc' = [pc EXCEPT ![o] = IF kind[o] = "free" THEN "acked" ELSE "xnew"]
  BY Zenon DEF TxHold
<1>1. UNCHANGED << disk, recl, curfile, synced, open_txg, cursor, mds_cursor,
        pj_lastxid, pj_nextwrite, pj_current_txg, pj_pendingxids, pj_distillxids,
        pj_commit_txg, pj_replay_xid, dist, rep, kind, xid, etxg, slot >>
  BY Zenon DEF TxHold, zvars, jvars
<1>2. ~REPLAYINPROG BY Zenon, <1>0, OutsideReplay
<1>3. /\ pc'[o] = IF kind[o] = "free" THEN "acked" ELSE "xnew"
      /\ done'[o] = open_txg /\ txg'[o] = IF InTx(o) THEN open_txg ELSE 0
      /\ open_txg \in Nat /\ synced \in Nat /\ synced < open_txg
      /\ \A p \in Op : p # o => /\ pc'[p] = pc[p] /\ done'[p] = done[p]
                                /\ txg'[p] = txg[p]
  BY Zenon, <1>0 DEF Types, OpTypes, DiskTypes, ZfsTypes, Groups
<1>4. done' \in [Op -> Nat] /\ txg' \in [Op -> Nat] /\ pc' \in [Op -> Positions]
  BY <1>0, <1>3 DEF Types, OpTypes, DiskTypes, Positions
<1>5. DiskTypes' /\ ZfsTypes' BY Zenon, <1>1, <1>4 DEF Types, DiskTypes, ZfsTypes
<1>6. JournalTypes' /\ OpTypes'
  BY Zenon, <1>1, <1>4 DEF Types, JournalTypes, OpTypes
<1>7. RepTypes' /\ Replay' /\ ~REPLAYINPROG'
  BY ZenonT(30), <1>1, <1>2, ReplayFrame DEF Types
<1>8. Groups'
  BY <1>1, <1>3 DEF Groups
<1>9. CursorFile' BY Zenon, <1>1, <1>7 DEF CursorFile
<1>10. (\A p \in Op : Place(p))' BY <1>0, <1>1, <1>3, <1>7 DEF Place, InTx
<1>11. LogInv'
  <2>1. ToLog' \subseteq ToLog BY <1>0, <1>1, <1>3 DEF ToLog
  <2>2. Room' BY Zenon, <1>1, <2>1, RoomKept DEF Types, LogInv
  <2>3. IsPending(o) => HasLogged(o)'
    BY Zenon, <1>0, <1>1, <1>3, NotPending DEF LogInv, HasLogged
  <2>4. pc'[o] # "io" /\ ~(InTx(o)' /\ pc'[o] \in {"commit", "acked"} /\ xid'[o] # 0)
    BY Zenon, <1>1, <1>3 DEF InTx
  <2> QED BY Zenon, <1>0, <1>1, <1>3, <2>2, <2>3, <2>4, LogMove
<1>12. Xids' BY Zenon, <1>1 DEF Xids, DiskXids
<1>13. Replayed' BY Zenon, <1>1, <1>7 DEF Replayed, Seen
<1>14. Settled'
  <2>1. ~Answered(o)' BY Zenon, <1>1, <1>3 DEF Answered, InTx
  <2> QED BY Zenon, <1>1, <1>2, <1>3, <1>7, <2>1 DEF Settled, Answered, InTx
<1> QED BY Zenon, <1>5, <1>6, <1>7, <1>8, <1>9, <1>10, <1>11, <1>12, <1>13, <1>14 DEF Types

\* pjournal_xnew: the new xid is above all that have been replayed.
LEMMA StepXnew == ASSUME IInv, NEW o \in Op, Xnew(o) PROVE IInv'
<1> USE DEF IInv
<1>0. /\ pc[o] = "xnew" /\ pj_lastxid' = pj_lastxid + 1
      /\ xid' = [xid EXCEPT ![o] = pj_lastxid + 1]
      /\ etxg' = [etxg EXCEPT ![o] = EntryTxg(o)]
      /\ pc' = [pc EXCEPT ![o] = "logwrite"]
      /\ pj_distillxids' \in {pj_distillxids, Append(pj_distillxids, o)}
  BY Zenon DEF Xnew
<1>1. UNCHANGED << disk, done, recl, curfile, synced, open_txg, cursor, mds_cursor,
        pj_nextwrite, pj_current_txg, pj_pendingxids, pj_commit_txg, pj_replay_xid,
        dist, rep, kind, txg, slot >>
  BY Zenon DEF Xnew, dvars, zvars
<1>2. ~REPLAYINPROG BY Zenon, <1>0, OutsideReplay
<1>3. EntryTxg(o) \in Nat /\ pj_lastxid \in Nat /\ pj_lastxid + 1 \in Nat
  BY DEF Types, OpTypes, JournalTypes, EntryTxg
<1>4. /\ pc'[o] = "logwrite" /\ xid'[o] = pj_lastxid + 1 /\ etxg'[o] = EntryTxg(o)
      /\ \A p \in Op : p # o => /\ pc'[p] = pc[p] /\ xid'[p] = xid[p]
                                /\ etxg'[p] = etxg[p]
  BY Zenon, <1>0 DEF Types, OpTypes
<1>5. DiskTypes' /\ ZfsTypes' BY Zenon, <1>1 DEF Types, DiskTypes, ZfsTypes
<1>6. JournalTypes'
  <2>1. pj_distillxids' \in Seq(Op)
    <3>1. pj_distillxids \in Seq(Op) BY Zenon DEF Types, JournalTypes
    <3>2. Append(pj_distillxids, o) \in Seq(Op) BY SMTT(30), <3>1, SeqAppend
    <3> QED BY Zenon, <1>0, <3>1, <3>2
  <2> QED BY Zenon, <1>0, <1>1, <1>3, <2>1 DEF Types, JournalTypes
<1>7. OpTypes' BY SMTT(30), <1>0, <1>1, <1>3 DEF Types, OpTypes, Positions
<1>8. RepTypes' /\ Replay' /\ ~REPLAYINPROG'
  BY Zenon, <1>1, <1>2, ReplayFrame DEF Types
<1>9. Groups' /\ CursorFile' BY Zenon, <1>1, <1>8 DEF Groups, CursorFile
<1>10. (\A p \in Op : Place(p))'
  <2>1. xid'[o] # 0 BY <1>3, <1>4
  <2>2. InTx(o) => EntryTxg(o) = done[o] /\ done[o] # 0
    BY Zenon, <1>0 DEF Place, EntryTxg
  <2>3. Place(o)' BY Zenon, <1>0, <1>1, <1>4, <1>8, <2>1, <2>2 DEF Place, InTx
  <2>4. ASSUME NEW p \in Op, p # o PROVE Place(p)'
    BY Zenon, <1>1, <1>4, <1>8, <2>4 DEF Place, InTx
  <2> QED BY ZenonT(30), <2>3, <2>4
<1>11. LogInv'
  <2>1. ToLog' \subseteq ToLog BY Zenon, <1>0, <1>1, <1>4 DEF ToLog
  <2>2. Room' BY Zenon, <1>1, <2>1, RoomKept DEF Types, LogInv
  <2>3. ~IsPending(o) BY Zenon, <1>0, NotPending DEF LogInv, HasLogged
  <2>4. pc'[o] \notin {"io", "commit", "acked"} BY Zenon, <1>4
  <2> QED BY Zenon, <1>0, <1>1, <1>4, <2>2, <2>3, <2>4, LogMove
<1>12. Xids'
  <2>1. /\ \A s \in Slot : disk[s].xid \in Nat
        /\ \A r \in recl : r.xid \in Nat
        /\ \A p \in Op : xid[p] \in Nat
        /\ dist.xid \in Nat
    BY SMTT(30) DEF Types, DiskTypes, EntryRec, OpTypes, JournalTypes
  <2>2. \A n \in Nat : n <= pj_lastxid => n <= pj_lastxid' BY <1>0, <1>3
  <2>3. \A p \in Op : xid'[p] <= pj_lastxid'
    <3>1. xid'[o] <= pj_lastxid' BY <1>0, <1>3, <1>4
    <3> QED BY Zenon, <1>4, <2>1, <2>2, <3>1 DEF Xids
  <2> QED BY Zenon, <1>1, <2>1, <2>2, <2>3 DEF Xids, DiskXids
<1>13. Replayed'
  <2>1. mds_cursor.replay_xid \in Nat /\ \A c \in curfile : c.cur.replay_xid \in Nat
    BY SMTT(30) DEF Types, DiskTypes, ZfsTypes, Cur
  <2>2. mds_cursor.replay_xid <= pj_lastxid
        /\ \A c \in curfile : c.cur.replay_xid <= pj_lastxid
    BY SMTT(30), <2>1, SeenBelow DEF Types, Xids, Replayed
  <2>3. mds_cursor.replay_xid < xid'[o] /\ \A c \in curfile : c.cur.replay_xid < xid'[o]
    BY <1>3, <1>4, <2>1, <2>2
  <2> QED BY Zenon, <1>1, <1>4, <1>8, <2>3 DEF Replayed, Seen
<1>14. Settled'
  BY Zenon, <1>0, <1>1, <1>2, <1>4, <1>8 DEF Settled, Answered, InTx
<1> QED BY Zenon, <1>5, <1>6, <1>7, <1>8, <1>9, <1>10, <1>11, <1>12, <1>13, <1>14 DEF Types


LEMMA StepCommit == ASSUME IInv, NEW o \in Op, Commit(o) PROVE IInv'
<1> USE DEF Commit, dvars, zvars, jvars, IInv
<1>0. ~REPLAYINPROG BY Zenon, OutsideReplay
<1>1. DiskTypes' /\ ZfsTypes' BY Zenon DEF Types, DiskTypes, ZfsTypes
<1>2. JournalTypes' BY Zenon DEF Types, JournalTypes
<1>3. /\ pc'[o] = "acked" /\ txg'[o] = 0
      /\ \A p \in Op : p # o => pc'[p] = pc[p] /\ txg'[p] = txg[p]
  BY Zenon DEF Types, OpTypes
<1>4. OpTypes' BY Zenon DEF Types, OpTypes, Positions
<1>5. RepTypes' /\ Replay' /\ ~REPLAYINPROG' BY Zenon, <1>0, ReplayFrame DEF Types
<1>6. Groups' /\ CursorFile' BY ZenonT(30), <1>3, <1>5 DEF Groups, CursorFile
<1>7. (\A p \in Op : Place(p))' BY ZenonT(30), <1>3, <1>5 DEF Place, InTx
<1>8. LogInv'
  <2>1. ToLog' \subseteq ToLog BY Zenon, <1>3 DEF ToLog
  <2>2. Room' BY Zenon, <2>1, RoomKept DEF Types, LogInv
  <2>3. HasLogged(o)' BY Zenon, <1>3 DEF HasLogged
  <2>4. InTx(o)' => InTx(o) BY Zenon DEF InTx
  <2> QED BY Zenon, <1>3, <2>2, <2>3, <2>4, LogMove
<1>9. Xids' BY Zenon DEF Xids, DiskXids
<1>10. Replayed' BY Zenon, <1>5 DEF Replayed, Seen
<1>11. Settled'
  <2>1. xid[o] # 0 BY Zenon DEF Place
  <2> QED BY Zenon, <1>0, <1>3, <1>5, <2>1 DEF Settled, Answered, InTx
<1> QED BY Zenon, <1>1, <1>2, <1>4, <1>5, <1>6, <1>7, <1>8, <1>9, <1>10, <1>11 DEF Types
===============================================================================
