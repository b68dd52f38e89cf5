----------------------------- MODULE ReclaimInv ------------------------------
(***************************************************************************)
(* Garbage reclamation is right in ReclaimLog, whatever the number of      *)
(* servers, transactions and faults and the size of a log file: progress   *)
(* is never ahead of the work, nothing that was distilled is forgotten,    *)
(* and batches and transactions advance together.  The invariant says that *)
(* the files tell the transactions in order, that what is gone from them   *)
(* every server has reclaimed, and that a crash finds files and progress   *)
(* that belong together.                                                   *)
(***************************************************************************)
EXTENDS ReclaimLog, FiniteSetTheorems, WellFoundedInduction, TLAPS

Place == [xid : Nat, batch : Nat]
Resting == [pc : {"wait", "loop", "down", "abort"}, batch : Nat, cleanup : BOOLEAN]
Sending == [pc : {"rpc", "remove"}, batch : Nat, cleanup : BOOLEAN, full : BOOLEAN,
            xid : Nat, rq : [IOS -> SUBSET Nat], ndone : Nat, record : BOOLEAN,
            next : Nat \cup {None}]

Types ==
  /\ plan \in Plan /\ cur \in Nat /\ nextxid \in Nat \ {0} /\ hdl \in BOOLEAN
  /\ si \in [IOS -> Place] /\ prog \in [IOS -> Place] /\ disk.prog \in [IOS -> Place]
  /\ done \in [IOS -> SUBSET Nat] /\ gcoff \subseteq IOS /\ online \subseteq IOS
  /\ thr \in Resting \cup Sending

\* What nobody needs any more.
Gone(y) == \A i \in IOS : y \in done[i] \cup lost

\* The files of L hold what came before each of their transactions, up to what is gone.
InOrder(L) ==
  \A b \in DOMAIN L : \A x \in Range(L[b]) : \A y \in 1 .. x - 1 :
      Gone(y) \/ \E c \in DOMAIN L : c <= b /\ y \in Range(L[c])
Sized(L) ==
  \A b \in DOMAIN L : b \in 0 .. cur /\ L[b] \in Seq(1 .. plan.xids) /\ Len(L[b]) <= PerFile

\* Nobody is ahead of what they have reclaimed.
XidsDone(p) == \A i \in IOS : 1 .. p[i].xid - 1 \subseteq done[i] \cup lost
FilesDone(L, p) ==
  \A i \in IOS : \A b \in DOMAIN L : b < p[i].batch => Range(L[b]) \subseteq done[i] \cup lost
Reached(p) ==
  /\ XidsDone(p) /\ FilesDone(log, p) /\ FilesDone(disk.log, p)
  /\ \A i \in IOS : p[i].batch <= cur

Kept ==
  Running => \A y \in 1 .. nextxid - 1 : Gone(y) \/ \E c \in DOMAIN log : y \in Range(log[c])

\* From the furthest progress on no file is missing, and the current one has room.
Contiguous ==
  Running => \A k \in 0 .. cur - 1 : (\A i \in IOS : prog[i].batch <= k) => k \in DOMAIN log
Current ==
  Running => /\ hdl => cur \in DOMAIN log
             /\ cur \in DOMAIN log => Len(log[cur]) < PerFile

\* What a crash would leave.
OnDisk ==
  /\ \A b \in DOMAIN disk.log :
        \/ b \in DOMAIN log /\ Range(disk.log[b]) \subseteq Range(log[b])
        \/ b \notin DOMAIN log /\ b < cur /\ \A x \in Range(disk.log[b]) : Gone(x)
  /\ \A b \in DOMAIN disk.log : \A k \in 0 .. b :
        (\A i \in IOS : disk.prog[i].batch <= k) => k \in DOMAIN disk.log
  /\ thr.pc = "down" => log = disk.log /\ prog = disk.prog /\ hdl = FALSE

\* A plan with a crash: every server has progress to begin with, no file is damaged and
\* no collection disabled.
Restartful(p) == "crash" \in p.may => p.begun = 1 /\ "odd" \notin p.may /\ "gc" \notin p.may
Planned ==
  /\ Restartful(plan)
  /\ "crash" \in plan.may =>
        /\ odd = {} /\ gcoff = {}
        /\ \A i \in IOS : si[i].xid > 0 /\ prog[i].xid > 0 /\ disk.prog[i].xid > 0
  /\ "crash" \notin plan.may =>
        /\ thr.pc # "down"
        /\ thr.pc = "wait" /\ thr.cleanup => \A i \in IOS : si[i].batch = 0

OddFiles ==
  \A b \in odd : b \in 0 .. cur - 1 /\ (b \in DOMAIN log => Range(log[b]) \subseteq lost)

\* The progress file is behind the servers only while an answer is not recorded.
Synced ==
  Running => /\ ~(thr.pc = "rpc" /\ thr.record) => prog = si
             /\ \A i \in IOS : prog[i].batch <= si[i].batch

\* The servers that are counted as done with the file that is sent, and what is asked
\* of the others.
Finished == {i \in IOS : si[i].batch >= thr.batch /\ thr.rq[i] = {}}
Counting == thr.pc \in {"rpc", "remove"} => thr.ndone <= Cardinality(Finished)
Asking ==
  thr.pc = "rpc" =>
    /\ thr.batch \in DOMAIN log
    /\ thr.full => thr.batch < cur
    /\ \A i \in IOS : thr.rq[i] # {} =>
         /\ si[i].batch = thr.batch
         /\ 1 .. thr.xid \subseteq thr.rq[i] \cup (done[i] \cup lost)
         /\ thr.full => Range(log[thr.batch]) \subseteq thr.rq[i] \cup (done[i] \cup lost)

\* Without crashes, transaction k of file b is b * PerFile + k.
Layout ==
  "crash" \notin plan.may =>
    /\ \A b \in DOMAIN log : \A k \in 1 .. Len(log[b]) : log[b][k] = b * PerFile + k
    /\ cur \in DOMAIN log => nextxid = cur * PerFile + Len(log[cur]) + 1
    /\ cur \notin DOMAIN log => nextxid = cur * PerFile + 1
    /\ \A i \in IOS : si[i].xid <= si[i].batch * PerFile + PerFile
    /\ thr.pc = "rpc" => IF thr.full THEN thr.xid = thr.batch * PerFile + PerFile
                                     ELSE thr.xid < thr.batch * PerFile + PerFile
IInv ==
  /\ Types /\ Sized(log) /\ Sized(disk.log) /\ InOrder(log) /\ InOrder(disk.log)
  /\ Reached(si) /\ Reached(prog) /\ Reached(disk.prog)
  /\ Kept /\ Contiguous /\ Current /\ OnDisk /\ Planned /\ OddFiles
  /\ Synced /\ Counting /\ Asking /\ Layout

-----------------------------------------------------------------------------
(* Least and greatest elements *)

LEMMA Least ==
  ASSUME NEW S \in SUBSET Nat, S # {}
  PROVE  Min(S) \in S /\ \A y \in S : Min(S) <= y
<1> DEFINE R == OpToRel(<, Nat)
<1>1. IsWellFoundedOn(R, Nat) BY Zenon, NatLessThanWellFounded
<1>2. \A x, y \in Nat : x < y => <<x, y>> \in R BY Zenon DEF OpToRel
<1> HIDE DEF R
<1>3. \E x \in S : \A y \in S : ~ (<<y, x>> \in R) BY Zenon, <1>1, WFMin
<1>4. PICK x \in S : \A y \in S : ~ (<<y, x>> \in R) BY Zenon, <1>3
<1>5. \A y \in S : ~ (y < x) BY Zenon, <1>2, <1>4
<1>6. \A y \in S : x <= y BY <1>5
<1> QED BY Zenon, <1>6 DEF Min

LEMMA Greatest ==
  ASSUME NEW S \in SUBSET Nat, S # {}, NEW b \in Nat, \A x \in S : x <= b
  PROVE  Max(S) \in S /\ \A x \in S : Max(S) >= x
<1> DEFINE T == {b - x : x \in S}
<1>1. T \in SUBSET Nat /\ T # {}
  <2>1. \A x \in S : b - x \in Nat OBVIOUS
  <2>2. PICK x \in S : TRUE BY Zenon
  <2>3. b - x \in T BY Zenon
  <2> QED BY Zenon, <2>1, <2>3
<1>2. Min(T) \in T /\ \A u \in T : Min(T) <= u BY Zenon, <1>1, Least
<1>3. PICK x \in S : Min(T) = b - x BY Zenon, <1>2
<1>4. \A y \in S : x >= y
  <2>1. SUFFICES ASSUME NEW y \in S PROVE x >= y BY Zenon
  <2>2. b - y \in T BY Zenon
  <2>3. b - x <= b - y BY Zenon, <1>2, <1>3, <2>2
  <2> QED BY <2>3
<1> QED BY Zenon, <1>4 DEF Max

LEMMA TimesMonotonic ==
  ASSUME NEW a \in Nat, NEW b \in Nat, NEW n \in Nat, a <= b
  PROVE  a * n <= b * n
<1>1. PICK d \in Nat : b = a + d
  <2>1. b - a \in Nat /\ b = a + (b - a) OBVIOUS
  <2> QED BY Zenon, <2>1
<1>2. d * n \in Nat /\ a * n \in Nat /\ b * n = a * n + d * n BY <1>1
<1> QED BY <1>2

-----------------------------------------------------------------------------
(* What does not change *)

\* What a server has reclaimed stays reclaimed.
Grow == \A i \in IOS : done[i] \cup lost \subseteq done'[i] \cup lost'

LEMMA GoneStays ==
  ASSUME Grow, NEW y, Gone(y)
  PROVE  Gone(y)'
BY Zenon DEF Grow, Gone

\* A step that leaves the files and the position of the distill thread alone.
SameFiles ==
  /\ UNCHANGED <<log, hdl, cur, nextxid, disk>> /\ Grow
  /\ plan'.xids = plan.xids /\ plan'.may = plan.may /\ plan'.begun = plan.begun

LEMMA FilesFrame ==
  ASSUME IInv, SameFiles
  PROVE  /\ Sized(log)' /\ Sized(disk.log)' /\ InOrder(log)' /\ InOrder(disk.log)'
         /\ Reached(disk.prog)'
<1>1. Sized(log)' /\ Sized(disk.log)' BY Zenon DEF IInv, SameFiles, Sized
<1>2. \A y : Gone(y) => Gone(y)' BY Zenon, GoneStays DEF SameFiles
<1>3. InOrder(log)' /\ InOrder(disk.log)' BY Zenon, <1>2 DEF IInv, SameFiles, InOrder
<1>4. Reached(disk.prog)'
  BY Zenon DEF IInv, SameFiles, Grow, Reached, XidsDone, FilesDone
<1> QED BY Zenon, <1>1, <1>3, <1>4

LEMMA SiFrame ==
  ASSUME IInv, SameFiles, si' = si
  PROVE  Reached(si)'
BY Zenon DEF IInv, SameFiles, Grow, Reached, XidsDone, FilesDone

LEMMA ProgFrame ==
  ASSUME IInv, SameFiles, prog' = prog
  PROVE  Reached(prog)'
BY Zenon DEF IInv, SameFiles, Grow, Reached, XidsDone, FilesDone

LEMMA ThreadFrame ==
  ASSUME IInv, SameFiles, prog' = prog, Running' => Running, thr'.pc = "down" => thr.pc = "down"
  PROVE  Kept' /\ Contiguous' /\ Current' /\ OnDisk'
<1>1. \A y : Gone(y) => Gone(y)' BY Zenon, GoneStays DEF SameFiles
<1>2. Kept' BY Zenon, <1>1 DEF IInv, SameFiles, Kept
<1>3. Contiguous' BY Zenon DEF IInv, SameFiles, Contiguous
<1>4. Current' BY Zenon DEF IInv, SameFiles, Current
<1>5. OnDisk' BY Zenon, <1>1 DEF IInv, SameFiles, OnDisk
<1> QED BY Zenon, <1>2, <1>3, <1>4, <1>5

LEMMA OddFrame ==
  ASSUME IInv, odd' = odd, log' = log, cur' = cur, lost \subseteq lost'
  PROVE  OddFiles'
BY Zenon DEF IInv, OddFiles

\* A fault uses up one of those the plan allows, and changes nothing else of it.
LEMMA FaultPlan ==
  ASSUME Types, NEW f, Fault(f)
  PROVE  plan' \in Plan /\ plan'.xids = plan.xids /\ plan'.may = plan.may
         /\ plan'.begun = plan.begun /\ f \in plan.may
BY SMTT(30) DEF Types, Fault, Plan

\* A step that leaves the progress alone, too.
LEMMA Frame ==
  ASSUME IInv, SameFiles, UNCHANGED <<odd, si, prog>>, lost \subseteq lost',
         Running' => Running, thr'.pc = "down" => thr.pc = "down"
  PROVE  /\ Sized(log)' /\ Sized(disk.log)' /\ InOrder(log)' /\ InOrder(disk.log)'
         /\ Reached(si)' /\ Reached(prog)' /\ Reached(disk.prog)'
         /\ Kept' /\ Contiguous' /\ Current' /\ OnDisk' /\ OddFiles'
<1>1. odd' = odd /\ si' = si /\ prog' = prog BY Zenon
<1>2. log' = log /\ cur' = cur BY Zenon DEF SameFiles
<1> QED BY Zenon, <1>1, <1>2, FilesFrame, SiFrame, ProgFrame, ThreadFrame, OddFrame

-----------------------------------------------------------------------------
(* Steps around the log *)

Still == UNCHANGED <<log, odd, lost, hdl, cur, nextxid, si, prog, disk, done>>

LEMMA StillFrame ==
  ASSUME Still, plan'.xids = plan.xids, plan'.may = plan.may, plan'.begun = plan.begun
  PROVE  SameFiles /\ UNCHANGED <<odd, si, prog>> /\ lost \subseteq lost'
BY Zenon DEF Still, SameFiles, Grow

LEMMA StepWorld ==
  ASSUME IInv, Still, thr' = thr, gcoff' \subseteq IOS, online' \subseteq IOS, plan' \in Plan,
         plan'.xids = plan.xids, plan'.may = plan.may, plan'.begun = plan.begun,
         "crash" \in plan.may => gcoff' = {}
  PROVE  IInv'
<1>1. SameFiles /\ UNCHANGED <<odd, si, prog>> /\ lost \subseteq lost' BY Zenon, StillFrame
<1>2. Running' => Running BY Zenon DEF Running
<1>3. /\ Sized(log)' /\ Sized(disk.log)' /\ InOrder(log)' /\ InOrder(disk.log)'
      /\ Reached(si)' /\ Reached(prog)' /\ Reached(disk.prog)'
      /\ Kept' /\ Contiguous' /\ Current' /\ OnDisk' /\ OddFiles'
  BY Zenon, <1>1, <1>2, Frame
<1>4. Types' BY Zenon DEF IInv, Types, Still
<1>5. Planned' BY Zenon DEF IInv, Planned, Restartful, Still
<1>6. Synced' BY Zenon, <1>2 DEF IInv, Synced, Still
<1>7. Finished' = Finished BY Zenon DEF Finished, Still
<1>8. Counting' BY Zenon, <1>7 DEF IInv, Counting
<1>9. Asking' BY Zenon DEF IInv, Asking, Still
<1>10. Layout' BY Zenon DEF IInv, Layout, Still
<1> QED BY Zenon, <1>3, <1>4, <1>5, <1>6, <1>8, <1>9, <1>10 DEF IInv

LEMMA StepOffline ==
  ASSUME IInv, NEW i \in IOS, Offline(i)
  PROVE  IInv'
<1>1. Still /\ thr' = thr /\ gcoff' = gcoff /\ Fault("down") /\ online' = online \ {i}
  BY Zenon DEF Offline, mdsvars, Still
<1>2. Types BY Zenon DEF IInv
<1>3. gcoff \subseteq IOS /\ online \subseteq IOS /\ ("crash" \in plan.may => gcoff = {}) BY Zenon DEF IInv, Types, Planned
<1> QED BY Zenon, <1>1, <1>2, <1>3, FaultPlan, StepWorld

LEMMA StepOnline ==
  ASSUME IInv, NEW i \in IOS, Online(i)
  PROVE  IInv'
<1>1. Still /\ thr' = thr /\ gcoff' = gcoff /\ plan' = plan /\ online' = online \cup {i}
  BY Zenon DEF Online, mdsvars, Still
<1>2. gcoff \subseteq IOS /\ online \subseteq IOS /\ plan \in Plan /\ ("crash" \in plan.may => gcoff = {})
  BY Zenon DEF IInv, Types, Planned
<1> QED BY Zenon, <1>1, <1>2, StepWorld

LEMMA StepDisableGc ==
  ASSUME IInv, NEW i \in IOS, DisableGc(i)
  PROVE  IInv'
<1>1. Still /\ thr' = thr /\ gcoff' = gcoff \cup {i} /\ Fault("gc") /\ online' = online
  BY Zenon DEF DisableGc, mdsvars, Still
<1>2. Types BY DEF IInv
<1>3. /\ plan' \in Plan /\ plan'.xids = plan.xids /\ plan'.may = plan.may
      /\ plan'.begun = plan.begun /\ "gc" \in plan.may
  BY Zenon, <1>1, <1>2, FaultPlan
<1>4. gcoff' \subseteq IOS /\ online' \subseteq IOS BY Zenon, <1>1, <1>2 DEF Types
<1>5. "crash" \notin plan.may BY Zenon, <1>3 DEF IInv, Planned, Restartful
<1> QED BY Zenon, <1>1, <1>3, <1>4, <1>5, StepWorld

LEMMA StepEnableGc ==
  ASSUME IInv, NEW i \in IOS, EnableGc(i)
  PROVE  IInv'
<1>1. Still /\ thr' = thr /\ gcoff' = gcoff \ {i} /\ plan' = plan /\ i \in gcoff
      /\ online' = online
  BY Zenon DEF EnableGc, mdsvars, Still
<1>2. gcoff \subseteq IOS /\ online \subseteq IOS /\ plan \in Plan /\ ("crash" \in plan.may => gcoff = {})
  BY DEF IInv, Types, Planned
<1> QED BY Zenon, <1>1, <1>2, StepWorld

\* The reclaim thread moves on without a change of the log.
LEMMA StepRest ==
  ASSUME IInv, Still, UNCHANGED <<gcoff, online, plan>>, Running, thr' \in Resting,
         thr'.pc # "down", thr.pc # "rpc", thr'.pc = "wait" => ~thr'.cleanup
  PROVE  IInv'
<1>1. SameFiles /\ UNCHANGED <<odd, si, prog>> /\ lost \subseteq lost' BY Zenon, StillFrame
<1>3. /\ Sized(log)' /\ Sized(disk.log)' /\ InOrder(log)' /\ InOrder(disk.log)'
      /\ Reached(si)' /\ Reached(prog)' /\ Reached(disk.prog)'
      /\ Kept' /\ Contiguous' /\ Current' /\ OnDisk' /\ OddFiles'
  BY Zenon, <1>1, Frame
<1>4. Types' BY Zenon DEF IInv, Types, Still
<1>5. Planned' BY Zenon DEF IInv, Planned, Restartful, Still
<1>6. Synced' BY Zenon DEF IInv, Synced, Still
<1>7. thr'.pc \in {"wait", "loop", "down", "abort"} BY Zenon DEF Resting
<1>8. Counting' /\ Asking' BY Zenon, <1>7 DEF Counting, Asking
<1>9. Layout' BY Zenon, <1>7 DEF IInv, Layout, Still
<1> QED BY Zenon, <1>3, <1>4, <1>5, <1>6, <1>8, <1>9 DEF IInv

LEMMA StepLwmAbort ==
  ASSUME IInv, LwmAbort
  PROVE  IInv'
<1>1. Still /\ UNCHANGED <<gcoff, online, plan>> BY Zenon DEF LwmAbort, mdsvars, Still
<1>2. thr' = [pc |-> "abort", batch |-> 0, cleanup |-> TRUE] BY Zenon DEF LwmAbort, Idle
<1>3. thr' \in Resting /\ thr'.pc = "abort" BY Zenon, <1>2 DEF Resting
<1>4. Running /\ thr.pc # "rpc" BY Zenon DEF LwmAbort, Running
<1> QED BY Zenon, <1>1, <1>3, <1>4, StepRest

LEMMA StepRoundDone ==
  ASSUME IInv, RoundDone
  PROVE  IInv'
<1>1. Still /\ UNCHANGED <<gcoff, online, plan>> BY Zenon DEF RoundDone, mdsvars, Still
<1>2. thr' = [pc |-> "wait", batch |-> 0, cleanup |-> FALSE] BY Zenon DEF RoundDone, Idle
<1>3. thr' \in Resting /\ thr'.pc = "wait" /\ ~thr'.cleanup BY Zenon, <1>2 DEF Resting
<1>4. Running /\ thr.pc # "rpc" BY Zenon DEF RoundDone, Running
<1> QED BY Zenon, <1>1, <1>3, <1>4, StepRest

-----------------------------------------------------------------------------
(* Sending a file *)

LEMMA Member ==
  ASSUME NEW S, NEW s \in Seq(S), NEW k \in DOMAIN s
  PROVE  s[k] \in S
OBVIOUS

LEMMA EntryOf ==
  ASSUME Sized(log), NEW b \in DOMAIN log, NEW x \in Range(log[b])
  PROVE  x \in 1 .. plan.xids /\ x \in Nat \ {0}
<1>1. log[b] \in Seq(1 .. plan.xids) BY Zenon DEF Sized
<1>2. PICK k \in DOMAIN log[b] : x = log[b][k] BY Zenon DEF Range
<1>3. x \in 1 .. plan.xids BY Zenon, <1>1, <1>2, Member
<1> QED BY <1>3

\* What is not sent of a file, the server has reclaimed before.
LEMMA UnsentRest ==
  ASSUME NEW i \in IOS, NEW b \in DOMAIN log, log[b] \in Seq(1 .. plan.xids), log[b] # <<>>,
         si[i].xid \in Nat
  PROVE  /\ Unsent(i, b) \subseteq Range(log[b])
         /\ \A x \in Range(log[b]) : x \in Unsent(i, b) \/ x < si[i].xid
<1> DEFINE ents == log[b]
           xid == si[i].xid
           First(k) == ents[k] >= xid /\ \A j \in 1 .. k - 1 : ents[j] < xid
           from == CHOOSE k \in DOMAIN ents : First(k)
<1>1. Len(ents) \in Nat \ {0} /\ DOMAIN ents = 1 .. Len(ents) /\ xid \in Nat
  OBVIOUS
<1>2. \A k \in DOMAIN ents : ents[k] \in Int
  <2>1. \A k \in DOMAIN ents : ents[k] \in 1 .. plan.xids BY Zenon, Member
  <2>2. \A x \in 1 .. plan.xids : x \in Int OBVIOUS
  <2> QED BY Zenon, <2>1, <2>2
<1>3. Unsent(i, b) = IF xid <= ents[Len(ents)] THEN {ents[k] : k \in from .. Len(ents)}
                                               ELSE Range(ents)
  BY Zenon DEF Unsent, Entries, Range
<1> HIDE DEF ents, xid
<1>4. CASE ~(xid <= ents[Len(ents)]) BY Zenon, <1>3, <1>4 DEF ents
<1>5. CASE xid <= ents[Len(ents)]
  <2> DEFINE K == {k \in DOMAIN ents : ents[k] >= xid}
  <2>1. K \in SUBSET Nat /\ K # {}
    <3>1. Len(ents) \in DOMAIN ents /\ ents[Len(ents)] >= xid BY <1>1, <1>2, <1>5
    <3>2. DOMAIN ents \subseteq Nat BY <1>1
    <3> QED BY Zenon, <3>1, <3>2
  <2>2. Min(K) \in K /\ \A k \in K : Min(K) <= k BY Zenon, <2>1, Least
  <2>3. PICK m \in DOMAIN ents : ents[m] >= xid /\ \A k \in DOMAIN ents : ents[k] >= xid => m <= k
    BY Zenon, <2>2
  <2>4. ASSUME NEW j \in 1 .. m - 1 PROVE ents[j] < xid
    <3>1. j \in DOMAIN ents /\ ~(m <= j) BY <1>1
    <3>2. ~(ents[j] >= xid) BY Zenon, <2>3, <3>1
    <3> QED BY <1>1, <1>2, <3>1, <3>2
  <2>5. First(m) BY Zenon, <2>3, <2>4
  <2>6. from \in DOMAIN ents /\ First(from) BY Zenon, <2>5
  <2>7. Unsent(i, b) = {ents[k] : k \in from .. Len(ents)} BY Zenon, <1>3, <1>5
  <2>8. from \in 1 .. Len(ents) /\ \A j \in 1 .. from - 1 : ents[j] < xid BY Zenon, <1>1, <2>6
  <2> HIDE DEF from, K
  <2>9. from .. Len(ents) \subseteq DOMAIN ents BY <1>1, <2>8
  <2>10. Unsent(i, b) \subseteq Range(ents) BY Zenon, <2>7, <2>9 DEF Range
  <2>11. ASSUME NEW x \in Range(ents) PROVE x \in Unsent(i, b) \/ x < xid
    <3>1. PICK k \in DOMAIN ents : x = ents[k] BY Zenon DEF Range
    <3>2. k \in from .. Len(ents) \/ k \in 1 .. from - 1 BY <1>1, <2>8
    <3> QED BY Zenon, <2>7, <2>8, <3>1, <3>2
  <2> QED BY Zenon, <2>10, <2>11 DEF ents, xid
<1> QED BY Zenon, <1>4, <1>5

\* Everything up to a transaction of the file a server is at, the server has reclaimed
\* or finds in that file.
LEMMA UpTo ==
  ASSUME IInv, NEW i \in IOS, si[i].batch \in DOMAIN log,
         NEW x \in Range(log[si[i].batch]), NEW y \in 1 .. x
  PROVE  y \in done[i] \cup lost \/ y \in Range(log[si[i].batch])
<1>1. CASE y = x BY Zenon, <1>1
<1>2. CASE y # x
  <2>1. x \in Nat BY Zenon, EntryOf DEF IInv
  <2>2. y \in 1 .. x - 1 BY <1>2, <2>1
  <2>3. Gone(y) \/ \E c \in DOMAIN log : c <= si[i].batch /\ y \in Range(log[c])
    BY Zenon, <2>2 DEF IInv, InOrder
  <2>4. CASE Gone(y) BY Zenon, <2>4 DEF Gone
  <2>5. ASSUME NEW c \in DOMAIN log, c <= si[i].batch, y \in Range(log[c])
        PROVE  y \in done[i] \cup lost \/ y \in Range(log[si[i].batch])
    <3>1. CASE c = si[i].batch BY Zenon, <2>5, <3>1
    <3>2. CASE c # si[i].batch
      <4>1. c \in Nat /\ si[i].batch \in Nat BY DEF IInv, Sized
      <4>2. c < si[i].batch BY <2>5, <3>2, <4>1
      <4> QED BY Zenon, <2>5, <4>2 DEF IInv, Reached, FilesDone
    <3> QED BY Zenon, <3>1, <3>2
  <2> QED BY Zenon, <2>3, <2>4, <2>5
<1> QED BY Zenon, <1>1, <1>2

LEMMA StepSendBatch ==
  ASSUME IInv, SendBatch
  PROVE  IInv'
<1> DEFINE b == thr.batch
           full == Len(log[b]) = PerFile
           last == log[b][Len(log[b])]
           may == online \ gcoff
           past == {i \in may : si[i].batch > b \/ (si[i].batch = b /\ ~full /\ si[i].xid > last)}
           to == {i \in may : si[i].batch = b} \ past
           rq == [i \in IOS |-> IF i \in to THEN Unsent(i, b) ELSE {}]
           next == IF may = {} THEN None ELSE Min({si[i].batch : i \in may})
<1>1. /\ thr.pc = "loop" /\ b \in DOMAIN log /\ log[b] # <<>>
      /\ thr' = [pc |-> "rpc", batch |-> b, cleanup |-> FALSE, full |-> full, xid |-> last,
                 rq |-> rq, ndone |-> Cardinality(past), record |-> FALSE, next |-> next]
  BY Zenon DEF SendBatch
<1>2. Still /\ UNCHANGED <<gcoff, online, plan>> BY Zenon DEF SendBatch, mdsvars, Still
<1>3. /\ log[b] \in Seq(1 .. plan.xids) /\ Len(log[b]) \in Nat \ {0} /\ last \in Nat
      /\ last \in Range(log[b]) /\ b \in Nat /\ b <= cur
  <2>1. log[b] \in Seq(1 .. plan.xids) /\ b \in 0 .. cur /\ cur \in Nat
    BY Zenon, <1>1 DEF IInv, Sized, Types
  <2>2. Len(log[b]) \in Nat \ {0} /\ Len(log[b]) \in DOMAIN log[b] BY <1>1, <2>1
  <2>3. last \in Range(log[b]) BY Zenon, <2>2 DEF Range
  <2>4. last \in Nat BY Zenon, <1>1, <2>3, EntryOf DEF IInv
  <2>5. b \in Nat /\ b <= cur BY <2>1
  <2> QED BY Zenon, <2>1, <2>2, <2>3, <2>4, <2>5
<1>4. \A i \in IOS : si[i].xid \in Nat /\ si[i].batch \in Nat BY Zenon DEF IInv, Types, Place
<1>5. \A i \in IOS : /\ Unsent(i, b) \subseteq Range(log[b])
                     /\ \A x \in Range(log[b]) : x \in Unsent(i, b) \/ x < si[i].xid
  BY Zenon, <1>1, <1>3, <1>4, UnsentRest
<1>6. Range(log[b]) \subseteq Nat BY Zenon, <1>1, EntryOf DEF IInv
<1>7. past \in SUBSET IOS /\ to \in SUBSET IOS BY Zenon DEF IInv, Types
<1>8. IsFiniteSet(past) /\ Cardinality(past) \in Nat BY Zenon, <1>7, Servers, FS_Subset, FS_CardinalityType
<1>9. rq \in [IOS -> SUBSET Nat] BY Zenon, <1>5, <1>6
<1>10. next \in Nat \cup {None}
  <2>1. CASE may = {} BY Zenon, <2>1
  <2>2. CASE may # {}
    <3> DEFINE S == {si[i].batch : i \in may}
    <3>1. S \in SUBSET Nat /\ S # {} BY Zenon, <1>4, <2>2 DEF IInv, Types
    <3>2. Min(S) \in Nat BY Zenon, <3>1, Least
    <3> QED BY Zenon, <2>2, <3>2
  <2> QED BY Zenon, <2>1, <2>2
<1>11. full \in BOOLEAN BY Zenon
<1>12. \A i \in past : si[i].batch >= b /\ rq[i] = {} BY <1>3, <1>4, <1>7
<1>13. ASSUME NEW i \in IOS, rq[i] # {}
       PROVE  /\ si[i].batch = b
              /\ 1 .. last \subseteq rq[i] \cup (done[i] \cup lost)
              /\ Range(log[b]) \subseteq rq[i] \cup (done[i] \cup lost)
  <2>1. i \in to /\ rq[i] = Unsent(i, b) BY Zenon, <1>13
  <2>2. si[i].batch = b BY Zenon, <2>1
  <2>3. ASSUME NEW x \in Range(log[b]) PROVE x \in rq[i] \cup (done[i] \cup lost)
    <3>1. x \in rq[i] \/ x < si[i].xid BY Zenon, <1>5, <2>1
    <3>2. x \in Nat \ {0} BY Zenon, <1>1, EntryOf DEF IInv
    <3>3. CASE x < si[i].xid
      <4>1. x \in 1 .. si[i].xid - 1 BY <1>4, <3>2, <3>3
      <4> QED BY Zenon, <4>1 DEF IInv, Reached, XidsDone
    <3> QED BY Zenon, <3>1, <3>3
  <2>4. ASSUME NEW y \in 1 .. last PROVE y \in rq[i] \cup (done[i] \cup lost)
    <3>1. y \in done[i] \cup lost \/ y \in Range(log[b]) BY Zenon, <1>1, <1>3, <2>2, UpTo
    <3> QED BY Zenon, <2>3, <3>1
  <2> QED BY Zenon, <2>2, <2>3, <2>4
<1>14. full => b < cur
  <2>1. Running BY Zenon, <1>1 DEF Running
  <2>2. full => b # cur BY <1>1, <1>3, <2>1, Sizes DEF IInv, Current
  <2>3. cur \in Nat BY Zenon DEF IInv, Types
  <2> QED BY <1>3, <2>2, <2>3
<1> HIDE DEF b, full, last, may, past, to, rq, next
<1>15. /\ thr'.pc = "rpc" /\ thr'.batch = b /\ thr'.full = full /\ thr'.xid = last
       /\ thr'.rq = rq /\ thr'.ndone = Cardinality(past) /\ thr'.record = FALSE
  BY Zenon, <1>1
<1>16. thr' \in Sending BY Zenon, <1>1, <1>3, <1>8, <1>9, <1>10, <1>11 DEF Sending
<1>17. SameFiles /\ UNCHANGED <<odd, si, prog>> /\ lost \subseteq lost' BY Zenon, <1>2, StillFrame
<1>18. Running BY Zenon, <1>1 DEF Running
<1>19. /\ Sized(log)' /\ Sized(disk.log)' /\ InOrder(log)' /\ InOrder(disk.log)'
       /\ Reached(si)' /\ Reached(prog)' /\ Reached(disk.prog)'
       /\ Kept' /\ Contiguous' /\ Current' /\ OnDisk' /\ OddFiles'
  BY Zenon, <1>15, <1>17, <1>18, Frame
<1>20. Types' BY Zenon, <1>2, <1>16 DEF IInv, Types, Still
<1>21. Planned' BY Zenon, <1>2, <1>15 DEF IInv, Planned, Restartful, Still
<1>22. Synced' BY Zenon, <1>1, <1>2, <1>18 DEF IInv, Synced, Still
<1>23. Counting'
  <2>1. past \subseteq Finished' BY Zenon, <1>2, <1>7, <1>12, <1>15 DEF Finished, Still
  <2>2. Finished' \in SUBSET IOS BY Zenon DEF Finished
  <2>3. IsFiniteSet(Finished') BY Zenon, <2>2, Servers, FS_Subset
  <2>4. Cardinality(past) <= Cardinality(Finished') BY Zenon, <2>1, <2>3, FS_Subset
  <2> QED BY Zenon, <1>15, <2>4 DEF Counting
<1>24. Asking' BY Zenon, <1>1, <1>2, <1>13, <1>14, <1>15 DEF Asking, Still
<1>25. Layout'
  <2>1. SUFFICES ASSUME "crash" \notin plan.may PROVE Layout' BY Zenon, <1>2 DEF Layout
  <2>2. last = b * PerFile + Len(log[b]) BY SMTT(30), <1>1, <1>3, <2>1 DEF IInv, Layout, last
  <2>3. Len(log[b]) <= PerFile /\ PerFile \in Nat /\ b * PerFile \in Nat BY <1>1, <1>3, Sizes DEF IInv, Sized
  <2>4. IF full THEN last = b * PerFile + PerFile ELSE last < b * PerFile + PerFile
    <3>1. PICK n \in Nat : n = b * PerFile BY Zenon, <2>3
    <3>2. PICK l \in Nat : l = Len(log[b]) BY Zenon, <1>3
    <3>3. last = n + l /\ l <= PerFile /\ PerFile \in Nat BY Zenon, <2>2, <2>3, <3>1, <3>2
    <3>4. IF l = PerFile THEN last = n + PerFile ELSE last < n + PerFile BY <3>3
    <3> QED BY Zenon, <3>1, <3>2, <3>4 DEF full
  <2> QED BY Zenon, <1>2, <1>15, <2>4 DEF IInv, Layout, Still
<1> QED BY Zenon, <1>19, <1>20, <1>21, <1>22, <1>23, <1>24, <1>25 DEF IInv

-----------------------------------------------------------------------------
(* The answers *)

LEMMA AskedOne ==
  ASSUME IInv, NEW i \in Asked
  PROVE  /\ i \in IOS /\ thr.pc = "rpc" /\ thr \in Sending /\ thr.rq[i] # {} /\ Running
         /\ si[i].batch = thr.batch /\ thr.batch \in DOMAIN log
<1>1. i \in IOS /\ thr.pc = "rpc" /\ thr.rq[i] # {} BY Zenon DEF Asked
<1>2. thr \in Sending BY Zenon, <1>1 DEF IInv, Types, Resting
<1>3. Running BY Zenon, <1>1 DEF Running
<1>4. si[i].batch = thr.batch /\ thr.batch \in DOMAIN log BY Zenon, <1>1 DEF IInv, Asking
<1> QED BY Zenon, <1>1, <1>2, <1>3, <1>4

\* An answer that moves nobody on: the request failed, or an unlink did.
LEMMA StepRefused ==
  ASSUME IInv, NEW i \in Asked, UNCHANGED <<log, odd, lost, hdl, cur, nextxid, si, prog, disk, gcoff, online>>,
         plan' \in Plan, plan'.xids = plan.xids, plan'.may = plan.may, plan'.begun = plan.begun,
         done' \in [IOS -> SUBSET Nat], \A j \in IOS : done[j] \subseteq done'[j],
         thr' = [thr EXCEPT !.rq[i] = {}]
  PROVE  IInv'
<1>1. /\ i \in IOS /\ thr.pc = "rpc" /\ thr \in Sending /\ thr.rq[i] # {} /\ Running
      /\ si[i].batch = thr.batch /\ thr.batch \in DOMAIN log
  BY Zenon, AskedOne
<1>2. /\ thr' \in Sending /\ thr'.pc = "rpc" /\ thr'.batch = thr.batch /\ thr'.full = thr.full
      /\ thr'.xid = thr.xid /\ thr'.ndone = thr.ndone /\ thr'.record = thr.record
      /\ thr'.rq[i] = {} /\ \A j \in IOS \ {i} : thr'.rq[j] = thr.rq[j]
  BY Zenon, <1>1 DEF Sending
<1>3. SameFiles /\ UNCHANGED <<odd, si, prog>> /\ lost \subseteq lost' BY Zenon DEF SameFiles, Grow
<1>4. /\ Sized(log)' /\ Sized(disk.log)' /\ InOrder(log)' /\ InOrder(disk.log)'
      /\ Reached(si)' /\ Reached(prog)' /\ Reached(disk.prog)'
      /\ Kept' /\ Contiguous' /\ Current' /\ OnDisk' /\ OddFiles'
  BY Zenon, <1>1, <1>2, <1>3, Frame
<1>5. Types' BY Zenon, <1>2 DEF IInv, Types
<1>6. Planned' BY Zenon, <1>2 DEF IInv, Planned, Restartful
<1>7. Synced' BY Zenon, <1>1, <1>2 DEF IInv, Synced
<1>8. Counting'
  <2>1. Finished \subseteq Finished' BY Zenon, <1>2 DEF Finished
  <2>2. Finished' \in SUBSET IOS BY Zenon DEF Finished
  <2>3. IsFiniteSet(Finished') BY Zenon, <2>2, Servers, FS_Subset
  <2>4. /\ Cardinality(Finished) <= Cardinality(Finished') /\ IsFiniteSet(Finished)
    BY Zenon, <2>1, <2>3, FS_Subset
  <2>5. Cardinality(Finished) \in Nat /\ Cardinality(Finished') \in Nat
    BY Zenon, <2>3, <2>4, FS_CardinalityType
  <2>6. thr.ndone <= Cardinality(Finished) /\ thr.ndone \in Nat
    BY Zenon, <1>1 DEF IInv, Counting, Sending
  <2>7. thr.ndone <= Cardinality(Finished') BY SMTT(30), <2>4, <2>5, <2>6
  <2> QED BY Zenon, <1>2, <2>7 DEF Counting
<1>9. Asking' BY <1>1, <1>2 DEF IInv, Asking
<1>10. Layout' BY Zenon, <1>1, <1>2 DEF IInv, Layout
<1> QED BY Zenon, <1>4, <1>5, <1>6, <1>7, <1>8, <1>9, <1>10 DEF IInv

LEMMA StepReclaimFail ==
  ASSUME IInv, NEW i \in Asked, ReclaimFail(i)
  PROVE  IInv'
<1>1. i \in IOS /\ thr \in Sending BY Zenon, AskedOne
<1>2. Fault("net") /\ Types BY Zenon DEF ReclaimFail, IInv
<1>3. done' \in [IOS -> SUBSET Nat] /\ \A j \in IOS : done[j] \subseteq done'[j]
  <2>1. thr.rq[i] \in SUBSET Nat /\ done \in [IOS -> SUBSET Nat] BY Zenon, <1>1 DEF Sending, IInv, Types
  <2>2. CASE done' = done BY Zenon, <2>1, <2>2
  <2>3. CASE done' = [done EXCEPT ![i] = @ \cup (thr.rq[i] \ plan.stuck)] BY Zenon, <1>1, <2>1, <2>3
  <2> QED BY Zenon, <2>2, <2>3 DEF ReclaimFail
<1>4. UNCHANGED <<log, odd, lost, hdl, cur, nextxid, si, prog, disk, gcoff, online>>
      /\ thr' = [thr EXCEPT !.rq[i] = {}]
  BY Zenon DEF ReclaimFail, mdsvars
<1> QED BY Zenon, <1>2, <1>3, <1>4, FaultPlan, StepRefused

LEMMA StepReclaim ==
  ASSUME IInv, NEW i \in Asked, Reclaim(i)
  PROVE  IInv'
<1> DEFINE entries == thr.rq[i]
           ok == entries \cap plan.stuck = {}
<1>1. /\ i \in IOS /\ thr.pc = "rpc" /\ thr \in Sending /\ thr.rq[i] # {} /\ Running
      /\ si[i].batch = thr.batch /\ thr.batch \in DOMAIN log
  BY Zenon, AskedOne
<1>2. /\ UNCHANGED <<log, odd, lost, hdl, cur, nextxid, prog, disk, gcoff, online, plan>>
      /\ done' = [done EXCEPT ![i] = @ \cup (entries \ plan.stuck)]
  BY Zenon DEF Reclaim, mdsvars
<1>3. entries \in SUBSET Nat /\ done \in [IOS -> SUBSET Nat] /\ plan \in Plan
  BY Zenon, <1>1 DEF Sending, IInv, Types
<1>4. done' \in [IOS -> SUBSET Nat] /\ \A j \in IOS : done[j] \subseteq done'[j]
  BY Zenon, <1>1, <1>2, <1>3
<1>5. CASE ~ok
  <2>1. si' = si /\ thr' = [thr EXCEPT !.rq[i] = {}] BY Zenon, <1>5 DEF Reclaim
  <2> QED BY Zenon, <1>2, <1>3, <1>4, <2>1, StepRefused
<1>6. CASE ok
  <2> DEFINE place == [xid |-> thr.xid + 1,
                       batch |-> IF thr.full THEN si[i].batch + 1 ELSE si[i].batch]
  <2>1. /\ si' = [si EXCEPT ![i] = place]
        /\ thr' = [thr EXCEPT !.rq[i] = {}, !.ndone = @ + 1, !.record = TRUE]
    BY Zenon, <1>6 DEF Reclaim
  <2>2. done'[i] = done[i] \cup entries /\ \A j \in IOS \ {i} : done'[j] = done[j]
    BY Zenon, <1>1, <1>2, <1>3, <1>6
  <2>3. si \in [IOS -> Place] /\ cur \in Nat /\ thr.xid \in Nat /\ thr.full \in BOOLEAN
    BY Zenon, <1>1 DEF IInv, Types, Sending
  <2>4. place \in Place /\ place.xid = thr.xid + 1 /\ place.batch >= thr.batch
        /\ (thr.full => place.batch = thr.batch + 1) /\ (~thr.full => place.batch = thr.batch)
    BY <1>1, <2>3 DEF Place
  <2> HIDE DEF place
  <2>5. si' \in [IOS -> Place] /\ si'[i] = place /\ \A j \in IOS \ {i} : si'[j] = si[j]
    BY Zenon, <1>1, <2>1, <2>3, <2>4
  <2>6. /\ thr' \in Sending /\ thr'.pc = "rpc" /\ thr'.batch = thr.batch /\ thr'.full = thr.full
        /\ thr'.xid = thr.xid /\ thr'.ndone = thr.ndone + 1 /\ thr'.record = TRUE
        /\ thr'.rq[i] = {} /\ \A j \in IOS \ {i} : thr'.rq[j] = thr.rq[j]
    <3> DEFINE R == [thr.rq EXCEPT ![i] = {}]
    <3>1. thr' = [thr EXCEPT !.rq = R, !.ndone = thr.ndone + 1, !.record = TRUE] BY Zenon, <2>1
    <3>2. R \in [IOS -> SUBSET Nat] /\ R[i] = {} /\ \A j \in IOS \ {i} : R[j] = thr.rq[j]
      BY <1>1 DEF Sending
    <3> HIDE DEF R
    <3>3. /\ thr'.pc = thr.pc /\ thr'.batch = thr.batch /\ thr'.full = thr.full
          /\ thr'.xid = thr.xid /\ thr'.ndone = thr.ndone + 1 /\ thr'.record = TRUE
          /\ thr'.rq = R
      BY <1>1, <3>1 DEF Sending
    <3>4. PICK n \in Nat : n = thr.ndone + 1 BY <1>1 DEF Sending
    <3>5. thr' = [thr EXCEPT !.rq = R, !.ndone = n, !.record = TRUE] BY Zenon, <3>1, <3>4
    <3>6. thr' \in Sending BY Zenon, <1>1, <3>2, <3>5 DEF Sending
    <3> QED BY Zenon, <1>1, <3>2, <3>3, <3>6
  <2>7. SameFiles BY Zenon, <1>2, <1>4 DEF SameFiles, Grow
  <2>8. /\ Sized(log)' /\ Sized(disk.log)' /\ InOrder(log)' /\ InOrder(disk.log)'
        /\ Reached(disk.prog)'
    BY Zenon, <2>7, FilesFrame
  <2>9. Running' BY Zenon, <2>6 DEF Running
  <2>10. Reached(prog)' /\ Kept' /\ Contiguous' /\ Current' /\ OnDisk' /\ OddFiles'
    BY Zenon, <1>1, <1>2, <2>6, <2>7, ProgFrame, ThreadFrame, OddFrame
  <2>11. Types' BY Zenon, <1>2, <1>4, <2>5, <2>6 DEF IInv, Types
  <2>12. Planned'
    <3>1. \A j \in IOS : si'[j].xid > 0 \/ si'[j] = si[j] BY <2>3, <2>4, <2>5
    <3> QED BY Zenon, <1>2, <2>6, <3>1 DEF IInv, Planned, Restartful
  <2>13. Reached(si)'
    <3>1. /\ 1 .. thr.xid \subseteq done'[i] \cup lost
          /\ thr.full => thr.batch < cur /\ Range(log[thr.batch]) \subseteq done'[i] \cup lost
      BY Zenon, <1>1, <2>2 DEF IInv, Asking
    <3>2. XidsDone(si)'
      <4>1. place.xid - 1 = thr.xid BY <2>3, <2>4
      <4> QED BY Zenon, <1>2, <2>2, <2>5, <3>1, <4>1 DEF IInv, Reached, XidsDone
    <3>3. ASSUME NEW c \in DOMAIN log, c < place.batch PROVE Range(log[c]) \subseteq done'[i] \cup lost
      <4>1. c \in Nat /\ thr.batch \in Nat BY <1>1 DEF IInv, Sized
      <4>2. CASE c < thr.batch BY Zenon, <1>1, <2>2, <4>2 DEF IInv, Reached, FilesDone
      <4>3. CASE ~(c < thr.batch)
        <5>1. thr.full /\ c = thr.batch BY SMTT(30), <2>3, <2>4, <3>3, <4>1, <4>3
        <5> QED BY Zenon, <3>1, <5>1
      <4> QED BY Zenon, <4>2, <4>3
    <3>4. FilesDone(log, si)' BY <1>2, <2>2, <2>5, <3>3 DEF IInv, Reached, FilesDone
    <3>5. ASSUME NEW c \in DOMAIN disk.log, c < place.batch
          PROVE  Range(disk.log[c]) \subseteq done'[i] \cup lost
      <4>1. c \in Nat /\ thr.batch \in Nat BY <1>1 DEF IInv, Sized
      <4>2. CASE c < thr.batch BY Zenon, <1>1, <2>2, <4>2 DEF IInv, Reached, FilesDone
      <4>3. CASE ~(c < thr.batch)
        <5>1. thr.full /\ c = thr.batch BY SMTT(30), <2>3, <2>4, <3>5, <4>1, <4>3
        <5>2. Range(disk.log[c]) \subseteq Range(log[c]) BY Zenon, <1>1, <5>1 DEF IInv, OnDisk
        <5> QED BY Zenon, <3>1, <5>1, <5>2
      <4> QED BY Zenon, <4>2, <4>3
    <3>6. FilesDone(disk.log, si)' BY Zenon, <1>2, <2>2, <2>5, <3>5 DEF IInv, Reached, FilesDone
    <3>7. \A j \in IOS : si'[j].batch <= cur'
      <4>1. thr.batch \in Nat /\ thr.batch <= cur BY <1>1 DEF IInv, Sized
      <4>2. place.batch <= cur BY <2>3, <2>4, <3>1, <4>1
      <4> QED BY Zenon, <1>2, <2>5, <4>2 DEF IInv, Reached
    <3> QED BY Zenon, <3>2, <3>4, <3>6, <3>7 DEF Reached
  <2>14. Synced'
    <3>1. \A j \in IOS : si[j].batch <= si'[j].batch /\ si[j].batch \in Nat /\ si'[j].batch \in Nat
      BY <1>1, <2>3, <2>4, <2>5 DEF Place
    <3>2. \A j \in IOS : prog[j].batch <= si[j].batch /\ prog[j].batch \in Nat
      BY Zenon, <1>1 DEF IInv, Synced, Types, Place
    <3>3. \A j \in IOS : prog[j].batch <= si'[j].batch BY <3>1, <3>2
    <3> QED BY Zenon, <1>2, <2>6, <3>3 DEF Synced
  <2>15. Counting'
    <3>1. Finished' = Finished \cup {i} /\ i \notin Finished
      BY Zenon, <1>1, <2>4, <2>5, <2>6 DEF Finished
    <3>2. Finished \in SUBSET IOS BY Zenon DEF Finished
    <3>3. IsFiniteSet(Finished) BY Zenon, <3>2, Servers, FS_Subset
    <3>4. Cardinality(Finished') = Cardinality(Finished) + 1 BY Zenon, <3>1, <3>3, FS_AddElement
    <3>5. Cardinality(Finished) \in Nat BY Zenon, <3>3, FS_CardinalityType
    <3>6. thr.ndone <= Cardinality(Finished) /\ thr.ndone \in Nat
      BY Zenon, <1>1 DEF IInv, Counting, Sending
    <3>7. thr'.ndone <= Cardinality(Finished') BY SMTT(30), <2>6, <3>4, <3>5, <3>6
    <3> QED BY Zenon, <3>7 DEF Counting
  <2>16. Asking' BY SMTT(30), <1>1, <1>2, <2>2, <2>5, <2>6 DEF IInv, Asking
  <2>17. Layout'
    <3>1. SUFFICES ASSUME "crash" \notin plan.may PROVE Layout' BY Zenon, <1>2 DEF Layout
    <3>2. thr.batch \in Nat /\ PerFile \in Nat \ {0} BY Zenon, <1>1, Sizes DEF Sending
    <3>3. /\ thr.batch * PerFile \in Nat
          /\ (thr.batch + 1) * PerFile = thr.batch * PerFile + PerFile
      BY <3>2
    <3>4. IF thr.full THEN thr.xid = thr.batch * PerFile + PerFile
                      ELSE thr.xid < thr.batch * PerFile + PerFile
      BY Zenon, <1>1, <3>1 DEF IInv, Layout
    <3>5. ASSUME thr.full PROVE place.xid <= place.batch * PerFile + PerFile
      <4>1. thr.xid + 1 <= (thr.batch + 1) * PerFile + PerFile BY <2>3, <3>2, <3>3, <3>4, <3>5
      <4>2. place.xid <= place.batch * PerFile + PerFile BY Zenon, <2>4, <3>5, <4>1
      <4> QED BY Zenon, <4>2
    <3>6. ASSUME ~thr.full PROVE place.xid <= place.batch * PerFile + PerFile
      <4>1. thr.xid + 1 <= thr.batch * PerFile + PerFile BY <2>3, <3>2, <3>3, <3>4, <3>6
      <4>2. place.xid <= place.batch * PerFile + PerFile BY Zenon, <2>4, <3>6, <4>1
      <4> QED BY Zenon, <4>2
    <3>7. \A j \in IOS : si'[j].xid <= si'[j].batch * PerFile + PerFile
      <4>1. place.xid <= place.batch * PerFile + PerFile BY Zenon, <3>5, <3>6
      <4>2. \A j \in IOS : si[j].xid <= si[j].batch * PerFile + PerFile BY Zenon, <3>1 DEF IInv, Layout
      <4> QED BY Zenon, <2>5, <4>1, <4>2
    <3> QED BY Zenon, <1>1, <1>2, <2>6, <3>1, <3>4, <3>7 DEF IInv, Layout
  <2> QED BY Zenon, <2>8, <2>10, <2>11, <2>12, <2>13, <2>14, <2>15, <2>16, <2>17 DEF IInv
<1> QED BY Zenon, <1>5, <1>6

LEMMA StepRecordProg ==
  ASSUME IInv, RecordProg
  PROVE  IInv'
<1>1. /\ thr.pc = "rpc" /\ prog' = IF thr.record THEN si ELSE prog
      /\ thr' = [thr EXCEPT !.pc = "remove"]
      /\ UNCHANGED <<log, odd, lost, hdl, cur, nextxid, si, disk, gcoff, online, done, plan>>
  BY Zenon DEF RecordProg, mdsvars
<1>2. thr \in Sending BY Zenon, <1>1 DEF IInv, Types, Resting
<1>3. /\ thr' \in Sending /\ thr'.pc = "remove" /\ thr'.batch = thr.batch /\ thr'.rq = thr.rq
      /\ thr'.ndone = thr.ndone
  BY Zenon, <1>1, <1>2 DEF Sending
<1>4. Running BY Zenon, <1>1 DEF Running
<1>5. prog' = si BY Zenon, <1>1, <1>2, <1>4 DEF IInv, Synced, Sending
<1>6. SameFiles BY Zenon, <1>1 DEF SameFiles, Grow
<1>7. /\ Sized(log)' /\ Sized(disk.log)' /\ InOrder(log)' /\ InOrder(disk.log)'
      /\ Reached(disk.prog)' /\ Reached(si)'
  BY Zenon, <1>1, <1>6, FilesFrame, SiFrame
<1>8. Reached(prog)' BY <1>1, <1>5, <1>7 DEF Reached, XidsDone, FilesDone
<1>9. OddFiles' BY Zenon, <1>1, OddFrame
<1>10. \A y : Gone(y)' = Gone(y) BY Zenon, <1>1 DEF Gone
<1>11. Kept' BY Zenon, <1>1, <1>4, <1>10 DEF IInv, Kept
<1>12. Contiguous'
  <2>1. \A i \in IOS : prog[i].batch <= si[i].batch /\ prog[i].batch \in Nat /\ si[i].batch \in Nat
    BY Zenon, <1>4 DEF IInv, Synced, Types, Place
  <2>2. SUFFICES ASSUME NEW k \in 0 .. cur - 1, \A i \in IOS : si[i].batch <= k
                 PROVE  k \in DOMAIN log
    BY Zenon, <1>1, <1>5 DEF Contiguous
  <2>3. \A i \in IOS : prog[i].batch <= k BY <2>1, <2>2
  <2> QED BY Zenon, <1>4, <2>3 DEF IInv, Contiguous
<1>13. Current' BY Zenon, <1>1, <1>4 DEF IInv, Current
<1>14. OnDisk' BY Zenon, <1>1, <1>3, <1>10 DEF IInv, OnDisk
<1>15. Types' BY Zenon, <1>1, <1>3, <1>5 DEF IInv, Types
<1>16. Planned' BY Zenon, <1>1, <1>3, <1>5 DEF IInv, Planned, Restartful
<1>17. Synced'
  <2>1. \A i \in IOS : si[i].batch <= si[i].batch BY DEF IInv, Types, Place
  <2> QED BY Zenon, <1>1, <1>5, <2>1 DEF Synced
<1>18. Finished' = Finished BY Zenon, <1>1, <1>3 DEF Finished
<1>19. Counting' BY Zenon, <1>1, <1>3, <1>18 DEF IInv, Counting
<1>20. Asking' BY Zenon, <1>3 DEF Asking
<1>21. Layout' BY Zenon, <1>1, <1>3 DEF IInv, Layout
<1> QED BY Zenon, <1>7, <1>8, <1>9, <1>11, <1>12, <1>13, <1>14, <1>15, <1>16, <1>17, <1>19, <1>20, <1>21 DEF IInv

-----------------------------------------------------------------------------
(* Removing files *)

\* Files are removed that every server is past.
LEMMA Removal ==
  ASSUME IInv, UNCHANGED <<odd, lost, hdl, cur, nextxid, disk, done, plan>>, Running,
         NEW S, \A b \in S : \A i \in IOS : b < si[i].batch,
         DOMAIN log' = DOMAIN log \ S, \A b \in DOMAIN log' : log'[b] = log[b]
  PROVE  /\ Sized(log)' /\ Sized(disk.log)' /\ InOrder(log)' /\ InOrder(disk.log)'
         /\ Reached(disk.prog)' /\ Kept' /\ Current' /\ OddFiles'
         /\ \A b \in DOMAIN disk.log :
               \/ b \in DOMAIN log' /\ Range(disk.log[b]) \subseteq Range(log'[b])
               \/ b \notin DOMAIN log' /\ b < cur /\ \A x \in Range(disk.log[b]) : Gone(x)
<1>1. Sized(log)' /\ Sized(disk.log)' BY Zenon DEF IInv, Sized
<1>2. \A y : Gone(y)' = Gone(y) BY Zenon DEF Gone
<1>3. ASSUME NEW b \in S, b \in DOMAIN log, NEW x \in Range(log[b]) PROVE Gone(x)
  BY Zenon, <1>3 DEF IInv, Reached, FilesDone, Gone
<1>4. InOrder(disk.log)' BY Zenon, <1>2 DEF IInv, InOrder
<1>5. InOrder(log)'
  <2>1. SUFFICES ASSUME NEW b \in DOMAIN log', NEW x \in Range(log'[b]), NEW y \in 1 .. x - 1
                 PROVE  Gone(y) \/ \E c \in DOMAIN log' : c <= b /\ y \in Range(log'[c])
    BY Zenon, <1>2 DEF InOrder
  <2>2. b \in DOMAIN log /\ x \in Range(log[b]) BY Zenon
  <2>3. Gone(y) \/ \E c \in DOMAIN log : c <= b /\ y \in Range(log[c]) BY Zenon, <2>2 DEF IInv, InOrder
  <2>4. ASSUME NEW c \in DOMAIN log, c <= b, y \in Range(log[c])
        PROVE  Gone(y) \/ \E d \in DOMAIN log' : d <= b /\ y \in Range(log'[d])
    <3>1. CASE c \in S BY Zenon, <1>3, <2>4, <3>1
    <3>2. CASE c \notin S BY Zenon, <2>4, <3>2
    <3> QED BY Zenon, <3>1, <3>2
  <2> QED BY Zenon, <2>3, <2>4
<1>6. Reached(disk.prog)' BY Zenon DEF IInv, Reached, XidsDone, FilesDone
<1>7. Kept'
  <2>1. SUFFICES ASSUME NEW y \in 1 .. nextxid - 1
                 PROVE  Gone(y) \/ \E c \in DOMAIN log' : y \in Range(log'[c])
    BY Zenon, <1>2 DEF Kept
  <2>2. Gone(y) \/ \E c \in DOMAIN log : y \in Range(log[c]) BY Zenon DEF IInv, Kept
  <2>3. ASSUME NEW c \in DOMAIN log, y \in Range(log[c])
        PROVE  Gone(y) \/ \E d \in DOMAIN log' : y \in Range(log'[d])
    <3>1. CASE c \in S BY Zenon, <1>3, <2>3, <3>1
    <3>2. CASE c \notin S BY Zenon, <2>3, <3>2
    <3> QED BY Zenon, <3>1, <3>2
  <2> QED BY Zenon, <2>2, <2>3
<1>8. \A b \in S : b \in DOMAIN log => b < cur
  <2>1. PICK i \in IOS : TRUE BY Zenon, Servers
  <2>2. si[i].batch \in Nat /\ cur \in Nat /\ si[i].batch <= cur BY Zenon DEF IInv, Types, Place, Reached
  <2>3. \A b \in DOMAIN log : b \in Nat BY <2>2 DEF IInv, Sized
  <2> QED BY <2>2, <2>3
<1>9. Current'
  <2>1. cur \in Nat BY Zenon DEF IInv, Types
  <2>2. cur \in DOMAIN log => cur \notin S BY <1>8, <2>1
  <2> QED BY Zenon, <2>2 DEF IInv, Current
<1>10. OddFiles' BY Zenon DEF IInv, OddFiles
<1>11. ASSUME NEW b \in DOMAIN disk.log
       PROVE  \/ b \in DOMAIN log' /\ Range(disk.log[b]) \subseteq Range(log'[b])
              \/ b \notin DOMAIN log' /\ b < cur /\ \A x \in Range(disk.log[b]) : Gone(x)
  <2>1. \/ b \in DOMAIN log /\ Range(disk.log[b]) \subseteq Range(log[b])
        \/ b \notin DOMAIN log /\ b < cur /\ \A x \in Range(disk.log[b]) : Gone(x)
    BY Zenon DEF IInv, OnDisk
  <2>2. CASE b \notin DOMAIN log BY Zenon, <2>1, <2>2
  <2>3. CASE b \in DOMAIN log /\ b \notin S BY Zenon, <2>1, <2>3
  <2>4. CASE b \in DOMAIN log /\ b \in S BY Zenon, <1>3, <1>8, <2>1, <2>4
  <2> QED BY Zenon, <2>2, <2>3, <2>4
<1> QED BY Zenon, <1>1, <1>4, <1>5, <1>6, <1>7, <1>9, <1>10, <1>11

\* A step of the thread that may remove files and move servers to the next one.
LEMMA StepRemove ==
  ASSUME IInv, UNCHANGED <<odd, lost, hdl, cur, nextxid, disk, gcoff, online, done, plan>>,
         Running, thr.pc # "rpc",
         NEW S, \A b \in S : \A i \in IOS : b < si[i].batch,
         DOMAIN log' = DOMAIN log \ S, \A b \in DOMAIN log' : log'[b] = log[b],
         si' \in [IOS -> Place], prog' = si',
         \A i \in IOS : si'[i].xid = si[i].xid /\ si[i].batch <= si'[i].batch /\ si'[i].batch <= cur,
         FilesDone(log, si'), FilesDone(disk.log, si'),
         thr' \in Resting, thr'.pc \in {"wait", "loop"}, ~thr'.cleanup
  PROVE  IInv'
<1>1. /\ Sized(log)' /\ Sized(disk.log)' /\ InOrder(log)' /\ InOrder(disk.log)'
      /\ Reached(disk.prog)' /\ Kept' /\ Current' /\ OddFiles'
      /\ \A b \in DOMAIN disk.log :
               \/ b \in DOMAIN log' /\ Range(disk.log[b]) \subseteq Range(log'[b])
               \/ b \notin DOMAIN log' /\ b < cur /\ \A x \in Range(disk.log[b]) : Gone(x)
  BY Zenon, Removal
<1>2. prog = si BY Zenon DEF IInv, Synced
<1>3. Types' BY Zenon DEF IInv, Types
<1>4. Reached(si)' BY Zenon DEF IInv, Reached, XidsDone, FilesDone
<1>5. Reached(prog)' BY Zenon, <1>4 DEF Reached, XidsDone, FilesDone
<1>6. \A i \in IOS : si[i].batch \in Nat /\ si'[i].batch \in Nat BY Zenon DEF IInv, Types, Place
<1>7. Contiguous'
  <2>1. SUFFICES ASSUME NEW k \in 0 .. cur - 1, \A i \in IOS : si'[i].batch <= k
                 PROVE  k \in DOMAIN log'
    BY Zenon DEF Contiguous
  <2>2. \A i \in IOS : si[i].batch <= k BY <1>6, <2>1
  <2>3. k \in DOMAIN log BY Zenon, <1>2, <2>2 DEF IInv, Contiguous
  <2>4. PICK i \in IOS : TRUE BY Zenon, Servers
  <2>5. ~(k < si[i].batch) BY <1>6, <2>2
  <2>6. k \notin S BY Zenon, <2>5
  <2> QED BY Zenon, <2>3, <2>6
<1>8. \A y : Gone(y)' = Gone(y) BY Zenon DEF Gone
<1>9. OnDisk' BY Zenon, <1>1, <1>8 DEF IInv, OnDisk
<1>10. Planned' BY Zenon, <1>2 DEF IInv, Planned, Restartful
<1>11. Synced' BY <1>6 DEF Synced
<1>12. Counting' /\ Asking' BY Zenon DEF Counting, Asking
<1>13. Layout'
  <2>1. \A b \in S : b \in DOMAIN log => b # cur
    <3>1. PICK i \in IOS : TRUE BY Zenon, Servers
    <3>2. si[i].batch <= cur /\ cur \in Nat BY Zenon DEF IInv, Reached, Types
    <3> QED BY <1>6, <3>1, <3>2
  <2>2. \A i \in IOS : si[i].batch * PerFile <= si'[i].batch * PerFile
    BY Zenon, <1>6, Sizes, TimesMonotonic
  <2>3. "crash" \notin plan.may => \A i \in IOS : si'[i].xid <= si'[i].batch * PerFile + PerFile
    <3>1. SUFFICES ASSUME "crash" \notin plan.may, NEW i \in IOS
                   PROVE  si'[i].xid <= si'[i].batch * PerFile + PerFile
      BY Zenon
    <3>2. si[i].xid <= si[i].batch * PerFile + PerFile BY Zenon, <3>1 DEF IInv, Layout
    <3>3. /\ si[i].batch * PerFile \in Nat /\ si'[i].batch * PerFile \in Nat /\ PerFile \in Nat
          /\ si[i].xid \in Nat
      BY <1>6, Sizes DEF IInv, Types, Place
    <3> QED BY <2>2, <3>2, <3>3
  <2> QED BY SMTT(30), <2>1, <2>3 DEF IInv, Layout
<1> QED BY Zenon, <1>1, <1>3, <1>4, <1>5, <1>7, <1>9, <1>10, <1>11, <1>12, <1>13 DEF IInv

\* ... and moves nobody.
LEMMA StepRemoveOnly ==
  ASSUME IInv, UNCHANGED <<odd, lost, hdl, cur, nextxid, si, prog, disk, gcoff, online, done, plan>>,
         Running, thr.pc # "rpc",
         NEW S, \A b \in S : \A i \in IOS : b < si[i].batch,
         DOMAIN log' = DOMAIN log \ S, \A b \in DOMAIN log' : log'[b] = log[b],
         thr' \in Resting, thr'.pc \in {"wait", "loop"}, ~thr'.cleanup
  PROVE  IInv'
<1>1. prog' = si' /\ si' = si /\ si \in [IOS -> Place] BY Zenon DEF IInv, Synced, Types
<1>2. \A i \in IOS : si[i].batch <= si[i].batch /\ si[i].batch <= cur BY <1>1 DEF IInv, Reached, Place
<1>3. FilesDone(log, si) /\ FilesDone(disk.log, si) BY Zenon DEF IInv, Reached
<1>4. FilesDone(log, si') /\ FilesDone(disk.log, si') BY Zenon, <1>1, <1>3
<1> QED BY Zenon, <1>1, <1>2, <1>4, StepRemove

LEMMA StepRound ==
  ASSUME IInv, Round
  PROVE  IInv'
<1>1. /\ thr.pc = "wait" /\ gcoff # IOS
      /\ thr' = [pc |-> "loop", batch |-> LwmBatch, cleanup |-> FALSE]
      /\ log' = IF thr.cleanup THEN Without(log, {b \in DOMAIN log : b <= LwmBatch - 2}) ELSE log
      /\ UNCHANGED <<odd, lost, hdl, cur, nextxid, si, prog, disk, gcoff, online, done, plan>>
  BY Zenon DEF Round, mdsvars
<1>2. Running /\ thr.pc # "rpc" BY Zenon, <1>1 DEF Running
<1> DEFINE T == {si[i].batch : i \in IOS \ gcoff}
           S == IF thr.cleanup THEN {b \in DOMAIN log : b <= LwmBatch - 2} ELSE {}
<1>3. \A i \in IOS : si[i].batch \in Nat BY Zenon DEF IInv, Types, Place
<1>4. LwmBatch \in T /\ LwmBatch \in Nat /\ \A y \in T : LwmBatch <= y
  <2>1. T \in SUBSET Nat /\ T # {} BY Zenon, <1>1, <1>3 DEF IInv, Types
  <2>2. LwmBatch = Min(T) BY Zenon DEF LwmBatch
  <2> QED BY Zenon, <2>1, <2>2, Least
<1>5. thr' \in Resting /\ thr'.pc = "loop" /\ ~thr'.cleanup BY Zenon, <1>1, <1>4 DEF Resting
<1>6. ASSUME NEW b \in S, NEW i \in IOS PROVE b < si[i].batch
  <2>1. thr.cleanup /\ b \in DOMAIN log /\ b <= LwmBatch - 2 BY Zenon, <1>6
  <2>2. b \in Nat BY <2>1 DEF IInv, Sized
  <2>3. CASE "crash" \in plan.may
    <3>1. gcoff = {} BY Zenon, <2>3 DEF IInv, Planned
    <3>2. LwmBatch <= si[i].batch BY Zenon, <1>4, <3>1
    <3> QED BY <1>3, <1>4, <2>1, <2>2, <3>2
  <2>4. CASE "crash" \notin plan.may
    <3>1. \A j \in IOS : si[j].batch = 0 BY Zenon, <1>1, <2>1, <2>4 DEF IInv, Planned
    <3>2. LwmBatch = 0 BY Zenon, <1>4, <3>1
    <3> QED BY <2>1, <2>2, <3>2
  <2> QED BY Zenon, <2>3, <2>4
<1>7. DOMAIN log' = DOMAIN log \ S /\ \A b \in DOMAIN log' : log'[b] = log[b]
  BY Zenon, <1>1 DEF Without
<1> HIDE DEF S, T
<1> QED BY Zenon, <1>1, <1>2, <1>5, <1>6, <1>7, StepRemoveOnly

LEMMA StepRemoveLogfile ==
  ASSUME IInv, RemoveLogfile
  PROVE  IInv'
<1> DEFINE all == thr.ndone = Cardinality(IOS) /\ thr.full
           S == IF all THEN {thr.batch - 1} ELSE {}
           b == IF thr.next \in {None, thr.batch} THEN thr.batch + 1 ELSE thr.next
           pc == IF thr.ndone > 0 /\ Hwm(si) >= b THEN "loop" ELSE "wait"
<1>1. /\ thr.pc = "remove"
      /\ log' = IF all THEN Without(log, {thr.batch - 1}) ELSE log
      /\ thr' = [pc |-> pc, batch |-> b, cleanup |-> FALSE]
      /\ UNCHANGED <<odd, lost, hdl, cur, nextxid, si, prog, disk, gcoff, online, done, plan>>
  BY Zenon DEF RemoveLogfile, mdsvars
<1>2. Running /\ thr.pc # "rpc" BY Zenon, <1>1 DEF Running
<1>3. thr \in Sending BY Zenon, <1>1 DEF IInv, Types, Resting
<1>4. b \in Nat BY <1>3 DEF Sending
<1>5. pc \in {"wait", "loop"} BY Zenon
<1>6. DOMAIN log' = DOMAIN log \ S /\ \A c \in DOMAIN log' : log'[c] = log[c]
  BY Zenon, <1>1 DEF Without
<1>7. ASSUME NEW c \in S, NEW i \in IOS PROVE c < si[i].batch
  <2>1. c = thr.batch - 1 /\ thr.ndone = Cardinality(IOS) BY Zenon, <1>7
  <2>2. Finished \in SUBSET IOS BY Zenon DEF Finished
  <2>3. /\ Cardinality(Finished) <= Cardinality(IOS) /\ IsFiniteSet(Finished)
        /\ (Cardinality(IOS) = Cardinality(Finished) => IOS = Finished)
    BY Zenon, <2>2, Servers, FS_Subset
  <2>4. Cardinality(Finished) \in Nat /\ Cardinality(IOS) \in Nat BY Zenon, <2>3, Servers, FS_CardinalityType
  <2>5. Cardinality(IOS) <= Cardinality(Finished) BY Zenon, <1>1, <2>1 DEF IInv, Counting
  <2>6. IOS = Finished BY <2>3, <2>4, <2>5
  <2>7. si[i].batch >= thr.batch BY Zenon, <2>6 DEF Finished
  <2>8. si[i].batch \in Nat /\ thr.batch \in Nat BY Zenon, <1>3 DEF IInv, Types, Place, Sending
  <2> QED BY <2>1, <2>7, <2>8
<1> HIDE DEF S, b, pc, all
<1>8. thr' \in Resting /\ thr'.pc \in {"wait", "loop"} /\ ~thr'.cleanup BY Zenon, <1>1, <1>4, <1>5 DEF Resting
<1> QED BY Zenon, <1>1, <1>2, <1>6, <1>7, <1>8, StepRemoveOnly

LEMMA StepSkipBatch ==
  ASSUME IInv, SkipBatch
  PROVE  IInv'
<1> DEFINE b == thr.batch
           at == {i \in IOS : si[i].batch = b}
           all == \A i \in IOS : si[i].batch >= b
           S == IF all THEN {b - 1} ELSE {}
           pc == IF Hwm(si') > b THEN "loop" ELSE "wait"
<1>1. /\ thr.pc = "loop" /\ b < cur /\ (b \notin DOMAIN log \/ b \in odd)
      /\ si' = [i \in IOS |-> IF i \in at THEN [si[i] EXCEPT !.batch = b + 1] ELSE si[i]]
      /\ prog' = IF at = {} THEN prog ELSE si'
      /\ log' = IF all THEN Without(log, {b - 1}) ELSE log
      /\ thr' = [pc |-> pc, batch |-> b + 1, cleanup |-> FALSE]
      /\ UNCHANGED <<odd, lost, hdl, cur, nextxid, disk, gcoff, online, done, plan>>
  BY Zenon DEF SkipBatch, mdsvars
<1>2. Running /\ thr.pc # "rpc" BY Zenon, <1>1 DEF Running
<1>3. thr \in Resting BY Zenon, <1>1 DEF IInv, Types, Sending
<1>4. b \in Nat /\ cur \in Nat /\ si \in [IOS -> Place] BY Zenon, <1>3 DEF Resting, IInv, Types
<1>5. pc \in {"wait", "loop"} BY Zenon
<1>6. DOMAIN log' = DOMAIN log \ S /\ \A c \in DOMAIN log' : log'[c] = log[c]
  BY Zenon, <1>1 DEF Without
<1>7. ASSUME NEW c \in S, NEW i \in IOS PROVE c < si[i].batch
  <2>1. c = b - 1 /\ si[i].batch >= b BY Zenon, <1>7
  <2>2. si[i].batch \in Nat BY Zenon, <1>4 DEF Place
  <2> QED BY <1>4, <2>1, <2>2
<1>8. \A i \in IOS : si'[i] = IF si[i].batch = b THEN [si[i] EXCEPT !.batch = b + 1] ELSE si[i]
  BY Zenon, <1>1
<1>9. \A i \in IOS : /\ si'[i] \in Place /\ si'[i].xid = si[i].xid
                     /\ si'[i].batch = IF si[i].batch = b THEN b + 1 ELSE si[i].batch
  <2>1. SUFFICES ASSUME NEW i \in IOS
                 PROVE  /\ si'[i] \in Place /\ si'[i].xid = si[i].xid
                        /\ si'[i].batch = IF si[i].batch = b THEN b + 1 ELSE si[i].batch
    BY Zenon
  <2>2. si[i] \in Place /\ b + 1 \in Nat BY <1>4
  <2>3. PICK n \in Nat : n = b + 1 BY Zenon, <2>2
  <2>4. CASE si[i].batch = b
    <3>1. si'[i] = [si[i] EXCEPT !.batch = n] BY Zenon, <1>8, <2>3, <2>4
    <3>2. si'[i] \in Place /\ si'[i].xid = si[i].xid /\ si'[i].batch = n BY <2>2, <3>1 DEF Place
    <3> QED BY Zenon, <2>3, <2>4, <3>2
  <2>5. CASE si[i].batch # b BY Zenon, <1>8, <2>2, <2>5
  <2> QED BY Zenon, <2>4, <2>5
<1>10. si' \in [IOS -> Place] BY Zenon, <1>1, <1>9
<1>11. \A i \in IOS : si[i].batch \in Nat /\ si[i].batch <= cur BY Zenon, <1>4 DEF IInv, Reached, Place
<1>12. \A i \in IOS : si[i].batch <= si'[i].batch /\ si'[i].batch <= cur BY <1>1, <1>4, <1>9, <1>11
<1>13. prog' = si'
  <2>1. CASE at = {}
    <3>1. si' = si BY Zenon, <1>1, <1>4, <2>1
    <3>2. prog = si BY Zenon, <1>2 DEF IInv, Synced
    <3> QED BY Zenon, <1>1, <2>1, <3>1, <3>2
  <2> QED BY Zenon, <1>1, <2>1
<1>14. FilesDone(log, si')
  <2>1. SUFFICES ASSUME NEW i \in IOS, NEW c \in DOMAIN log, c < si'[i].batch
                 PROVE  Range(log[c]) \subseteq done[i] \cup lost
    BY Zenon DEF FilesDone
  <2>2. c \in Nat BY DEF IInv, Sized
  <2>3. CASE c < si[i].batch BY Zenon, <2>3 DEF IInv, Reached, FilesDone
  <2>4. CASE ~(c < si[i].batch)
    <3>1. c = b BY SMTT(30), <1>4, <1>9, <1>11, <2>1, <2>2, <2>4
    <3> QED BY Zenon, <1>1, <3>1 DEF IInv, OddFiles
  <2> QED BY Zenon, <2>3, <2>4
<1>15. FilesDone(disk.log, si')
  <2>1. SUFFICES ASSUME NEW i \in IOS, NEW c \in DOMAIN disk.log, c < si'[i].batch
                 PROVE  Range(disk.log[c]) \subseteq done[i] \cup lost
    BY Zenon DEF FilesDone
  <2>2. c \in Nat BY DEF IInv, Sized
  <2>3. CASE c < si[i].batch BY Zenon, <2>3 DEF IInv, Reached, FilesDone
  <2>4. CASE ~(c < si[i].batch)
    <3>1. c = b BY SMTT(30), <1>4, <1>9, <1>11, <2>1, <2>2, <2>4
    <3>2. CASE c \in DOMAIN log
      <4>1. Range(disk.log[c]) \subseteq Range(log[c]) BY Zenon, <3>2 DEF IInv, OnDisk
      <4>2. Range(log[c]) \subseteq lost BY Zenon, <1>1, <3>1, <3>2 DEF IInv, OddFiles
      <4> QED BY Zenon, <4>1, <4>2
    <3>3. CASE c \notin DOMAIN log BY Zenon, <3>3 DEF IInv, OnDisk, Gone
    <3> QED BY Zenon, <3>2, <3>3
  <2> QED BY Zenon, <2>3, <2>4
<1> HIDE DEF S, b, pc, all, at
<1>16. thr' \in Resting /\ thr'.pc \in {"wait", "loop"} /\ ~thr'.cleanup BY <1>1, <1>4, <1>5 DEF Resting
<1> QED BY Zenon, <1>1, <1>2, <1>6, <1>7, <1>9, <1>10, <1>12, <1>13, <1>14, <1>15, <1>16, StepRemove
===============================================================================
