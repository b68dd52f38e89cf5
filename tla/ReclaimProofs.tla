---------------------------- MODULE ReclaimProofs ----------------------------
(***************************************************************************)
(* Distilling, crashes and restarts keep the invariant of ReclaimInv too;  *)
(* what follows from it: garbage reclamation is right in ReclaimLog.       *)
(***************************************************************************)
EXTENDS ReclaimInv

LEMMA StepOpenLogfile ==
  ASSUME IInv, OpenLogfile
  PROVE  IInv'
<1>1. /\ Running /\ ~hdl /\ hdl' = TRUE
      /\ log' = [b \in DOMAIN log \cup {cur} |-> IF b \in DOMAIN log THEN log[b] ELSE <<>>]
      /\ UNCHANGED <<odd, lost, cur, nextxid, si, prog, disk, gcoff, online, thr, done, plan>>
  BY Zenon DEF OpenLogfile
<1>2. /\ DOMAIN log' = DOMAIN log \cup {cur} /\ \A b \in DOMAIN log : log'[b] = log[b]
      /\ cur \notin DOMAIN log => log'[cur] = <<>>
  BY Zenon, <1>1
<1>3. cur \in Nat /\ PerFile \in Nat \ {0} BY Zenon, Sizes DEF IInv, Types
<1>4. \A b \in DOMAIN log' : b \in DOMAIN log \/ (b = cur /\ log'[b] = <<>>) BY Zenon, <1>2
<1>5. Range(<<>>) = {} /\ Len(<<>>) = 0 /\ <<>> \in Seq(1 .. plan.xids) BY DEF Range
<1>6. \A y : Gone(y)' = Gone(y) BY Zenon, <1>1 DEF Gone
<1>7. Types' BY Zenon, <1>1 DEF IInv, Types
<1>8. Sized(log)' /\ Sized(disk.log)'
  <2>1. Sized(disk.log)' BY Zenon, <1>1 DEF IInv, Sized
  <2>2. cur \in 0 .. cur /\ 0 <= PerFile BY <1>3
  <2>3. Sized(log)' BY Zenon, <1>1, <1>2, <1>4, <1>5, <2>2 DEF IInv, Sized
  <2> QED BY Zenon, <2>1, <2>3
<1>9. InOrder(disk.log)' BY Zenon, <1>1, <1>6 DEF IInv, InOrder
<1>10. InOrder(log)'
  <2>1. SUFFICES ASSUME NEW b \in DOMAIN log', NEW x \in Range(log'[b]), NEW y \in 1 .. x - 1
                 PROVE  Gone(y) \/ \E c \in DOMAIN log' : c <= b /\ y \in Range(log'[c])
    BY Zenon, <1>6 DEF InOrder
  <2>2. b \in DOMAIN log /\ x \in Range(log[b]) BY Zenon, <1>2, <1>4, <1>5
  <2>3. Gone(y) \/ \E c \in DOMAIN log : c <= b /\ y \in Range(log[c]) BY Zenon, <2>2 DEF IInv, InOrder
  <2> QED BY Zenon, <1>2, <2>3
<1>11. Reached(si)' /\ Reached(prog)' /\ Reached(disk.prog)'
  <2>1. ASSUME NEW p, FilesDone(log, p)
        PROVE  \A i \in IOS : \A b \in DOMAIN log' : b < p[i].batch => Range(log'[b]) \subseteq done[i] \cup lost
    BY Zenon, <1>2, <1>4, <1>5, <2>1 DEF FilesDone
  <2>2. Reached(si) /\ Reached(prog) /\ Reached(disk.prog) BY Zenon DEF IInv
  <2>3. XidsDone(si)' /\ XidsDone(prog)' /\ XidsDone(disk.prog)'
    BY Zenon, <1>1, <2>2 DEF Reached, XidsDone
  <2>4. FilesDone(disk.log, si)' /\ FilesDone(disk.log, prog)' /\ FilesDone(disk.log, disk.prog)'
    BY Zenon, <1>1, <2>2 DEF Reached, FilesDone
  <2>5. FilesDone(log, si)' /\ FilesDone(log, prog)' /\ FilesDone(log, disk.prog)'
    <3>1. FilesDone(log, si) /\ FilesDone(log, prog) /\ FilesDone(log, disk.prog)
      BY Zenon, <2>2 DEF Reached
    <3> QED BY Zenon, <1>1, <2>1, <3>1 DEF FilesDone
  <2> QED BY Zenon, <1>1, <2>2, <2>3, <2>4, <2>5 DEF Reached
<1>12. Running' BY Zenon, <1>1 DEF Running
<1>13. Kept' BY Zenon, <1>1, <1>2, <1>6 DEF IInv, Kept
<1>14. Contiguous' BY Zenon, <1>1, <1>2 DEF IInv, Contiguous
<1>15. Current'
  <2>1. Len(log'[cur]) < PerFile BY <1>1, <1>2, <1>3, <1>5 DEF IInv, Current
  <2> QED BY Zenon, <1>1, <1>2, <2>1 DEF Current
<1>16. OnDisk'
  <2>1. ASSUME NEW b \in DOMAIN disk.log
        PROVE  \/ b \in DOMAIN log' /\ Range(disk.log[b]) \subseteq Range(log'[b])
               \/ b \notin DOMAIN log' /\ b < cur /\ \A x \in Range(disk.log[b]) : Gone(x)
    <3>1. b = cur => ~(b < cur) BY <1>3
    <3> QED BY Zenon, <1>2, <3>1 DEF IInv, OnDisk
  <2>2. thr.pc # "down" BY Zenon, <1>1 DEF Running
  <2> QED BY Zenon, <1>1, <1>6, <2>1, <2>2 DEF IInv, OnDisk
<1>17. Planned' BY Zenon, <1>1 DEF IInv, Planned, Restartful
<1>18. OddFiles'
  <2>1. \A b \in odd : b # cur BY <1>3 DEF IInv, OddFiles
  <2> QED BY Zenon, <1>1, <1>2, <2>1 DEF IInv, OddFiles
<1>19. Synced' BY Zenon, <1>1 DEF IInv, Synced
<1>20. Finished' = Finished BY Zenon, <1>1 DEF Finished
<1>21. Counting' BY Zenon, <1>1, <1>20 DEF IInv, Counting
<1>22. Asking' BY Zenon, <1>1, <1>2 DEF IInv, Asking
<1>23. Layout'
  <2>1. cur \notin DOMAIN log => cur * PerFile + 1 = cur * PerFile + Len(log'[cur]) + 1
    BY <1>2, <1>3, <1>5
  <2>2. \A k \in 1 .. Len(<<>>) : FALSE BY <1>5
  <2> QED BY <1>1, <1>2, <1>4, <2>1, <2>2 DEF IInv, Layout
<1> QED BY Zenon, <1>7, <1>8, <1>9, <1>10, <1>11, <1>13, <1>14, <1>15, <1>16, <1>17, <1>18, <1>19,
           <1>21, <1>22, <1>23 DEF IInv

LEMMA StepWriteLogentry ==
  ASSUME IInv, WriteLogentry
  PROVE  IInv'
<1> DEFINE full == Len(log[cur]) + 1 = PerFile
<1>1. /\ Running /\ hdl /\ nextxid <= plan.xids
      /\ log' = [log EXCEPT ![cur] = Append(@, nextxid)] /\ nextxid' = nextxid + 1
      /\ hdl' = ~full /\ cur' = IF full THEN cur + 1 ELSE cur
      /\ UNCHANGED <<odd, lost, si, prog, disk, gcoff, online, thr, done, plan>>
  BY Zenon DEF WriteLogentry
<1>2. /\ cur \in Nat /\ PerFile \in Nat \ {0} /\ nextxid \in Nat \ {0} /\ plan.xids \in Nat
      /\ hdl \in BOOLEAN
  BY Zenon, Sizes DEF IInv, Types, Plan
<1>3. cur \in DOMAIN log /\ Len(log[cur]) < PerFile /\ log[cur] \in Seq(1 .. plan.xids)
      /\ Len(log[cur]) \in Nat
  BY <1>1 DEF IInv, Current, Sized
<1>4. /\ DOMAIN log' = DOMAIN log /\ log'[cur] = Append(log[cur], nextxid)
      /\ \A b \in DOMAIN log \ {cur} : log'[b] = log[b]
  BY Zenon, <1>1, <1>3
<1>5. /\ log'[cur] \in Seq(1 .. plan.xids) /\ Len(log'[cur]) = Len(log[cur]) + 1
      /\ Range(log'[cur]) = Range(log[cur]) \cup {nextxid}
  <2>1. nextxid \in 1 .. plan.xids BY <1>1, <1>2
  <2>2. /\ log'[cur] \in Seq(1 .. plan.xids) /\ Len(log'[cur]) = Len(log[cur]) + 1
        /\ DOMAIN log'[cur] = 1 .. Len(log[cur]) + 1 /\ DOMAIN log[cur] = 1 .. Len(log[cur])
        /\ log'[cur][Len(log[cur]) + 1] = nextxid
        /\ \A k \in 1 .. Len(log[cur]) : log'[cur][k] = log[cur][k]
    BY <1>3, <1>4, <2>1
  <2>3. 1 .. Len(log[cur]) + 1 = (1 .. Len(log[cur])) \cup {Len(log[cur]) + 1} BY <1>3
  <2> QED BY <2>2, <2>3 DEF Range
<1>6. \A b \in DOMAIN log : Range(log[b]) \subseteq Range(log'[b]) BY Zenon, <1>4, <1>5
<1>7. cur' \in Nat /\ cur <= cur' /\ (full => cur' = cur + 1) /\ (~full => cur' = cur) BY <1>1, <1>2
<1>8. \A y : Gone(y)' = Gone(y) BY Zenon, <1>1 DEF Gone
<1>9. nextxid' \in Nat \ {0} BY <1>1, <1>2
<1>10. Types' BY Zenon, <1>1, <1>7, <1>9 DEF IInv, Types
<1>11. \A b \in 0 .. cur : b \in 0 .. cur' BY <1>2, <1>7
<1>12. Sized(log)' /\ Sized(disk.log)'
  <2>1. Sized(disk.log)' BY Zenon, <1>1, <1>11 DEF IInv, Sized
  <2>2. Len(log'[cur]) <= PerFile BY <1>2, <1>3, <1>5
  <2>3. Sized(log)' BY Zenon, <1>1, <1>4, <1>5, <1>11, <2>2 DEF IInv, Sized
  <2> QED BY <2>1, <2>3
<1>13. InOrder(disk.log)' BY Zenon, <1>1, <1>8 DEF IInv, InOrder
<1>14. \A b \in DOMAIN log : b \in Nat /\ b <= cur BY DEF IInv, Sized
<1>15. InOrder(log)'
  <2>1. SUFFICES ASSUME NEW b \in DOMAIN log, NEW x \in Range(log'[b]), NEW y \in 1 .. x - 1
                 PROVE  Gone(y) \/ \E c \in DOMAIN log : c <= b /\ y \in Range(log'[c])
    BY Zenon, <1>4, <1>8 DEF InOrder
  <2>2. CASE x \in Range(log[b])
    <3>1. Gone(y) \/ \E c \in DOMAIN log : c <= b /\ y \in Range(log[c]) BY Zenon, <2>2 DEF IInv, InOrder
    <3> QED BY Zenon, <1>6, <3>1
  <2>3. CASE x \notin Range(log[b])
    <3>1. b = cur /\ x = nextxid BY Zenon, <1>4, <1>5, <2>3
    <3>2. Gone(y) \/ \E c \in DOMAIN log : y \in Range(log[c]) BY Zenon, <1>1, <3>1 DEF IInv, Kept
    <3> QED BY Zenon, <1>6, <1>14, <3>1, <3>2
  <2> QED BY Zenon, <2>2, <2>3
<1>16. Reached(si)' /\ Reached(prog)' /\ Reached(disk.prog)'
  <2>1. ASSUME NEW p \in [IOS -> Place], Reached(p)
        PROVE  /\ \A i \in IOS : \A b \in DOMAIN log' : b < p[i].batch => Range(log'[b]) \subseteq done[i] \cup lost
               /\ \A i \in IOS : p[i].batch <= cur'
    <3>1. \A i \in IOS : p[i].batch \in Nat /\ p[i].batch <= cur BY Zenon, <2>1 DEF Reached, Place
    <3>2. \A i \in IOS : p[i].batch <= cur' BY <1>2, <1>7, <3>1
    <3>3. SUFFICES ASSUME NEW i \in IOS, NEW b \in DOMAIN log, b < p[i].batch
                   PROVE  Range(log'[b]) \subseteq done[i] \cup lost
      BY Zenon, <1>4, <3>2
    <3>4. b # cur BY <1>2, <3>1, <3>3
    <3> QED BY Zenon, <1>4, <2>1, <3>3, <3>4 DEF Reached, FilesDone
  <2>2. Types BY Zenon DEF IInv
  <2>3. si \in [IOS -> Place] /\ prog \in [IOS -> Place] /\ disk.prog \in [IOS -> Place]
    BY Zenon, <2>2 DEF Types
  <2>4. Reached(si) /\ Reached(prog) /\ Reached(disk.prog) BY Zenon DEF IInv
  <2>5. XidsDone(si)' /\ XidsDone(prog)' /\ XidsDone(disk.prog)'
    BY Zenon, <1>1, <2>4 DEF Reached, XidsDone
  <2>6. FilesDone(disk.log, si)' /\ FilesDone(disk.log, prog)' /\ FilesDone(disk.log, disk.prog)'
    BY Zenon, <1>1, <2>4 DEF Reached, FilesDone
  <2>7. FilesDone(log, si)' /\ \A i \in IOS : si'[i].batch <= cur'
    BY Zenon, <1>1, <2>1, <2>3, <2>4 DEF FilesDone
  <2>8. FilesDone(log, prog)' /\ \A i \in IOS : prog'[i].batch <= cur'
    BY Zenon, <1>1, <2>1, <2>3, <2>4 DEF FilesDone
  <2>9. FilesDone(log, disk.prog)' /\ \A i \in IOS : disk'.prog[i].batch <= cur'
    BY Zenon, <1>1, <2>1, <2>3, <2>4 DEF FilesDone
  <2> QED BY Zenon, <2>5, <2>6, <2>7, <2>8, <2>9 DEF Reached
<1>17. Running' BY Zenon, <1>1 DEF Running
<1>18. Kept'
  <2>1. SUFFICES ASSUME NEW y \in 1 .. nextxid
                 PROVE  Gone(y) \/ \E c \in DOMAIN log : y \in Range(log'[c])
    <3>1. nextxid' - 1 = nextxid BY <1>1, <1>2
    <3> QED BY Zenon, <1>4, <1>8, <3>1 DEF Kept
  <2>2. CASE y = nextxid BY Zenon, <1>3, <1>5, <2>2
  <2>3. CASE y # nextxid
    <3>1. y \in 1 .. nextxid - 1 BY <1>2, <2>3
    <3>2. Gone(y) \/ \E c \in DOMAIN log : y \in Range(log[c]) BY Zenon, <1>1, <3>1 DEF IInv, Kept
    <3> QED BY Zenon, <1>6, <3>2
  <2> QED BY Zenon, <2>2, <2>3
<1>19. Contiguous'
  <2>1. SUFFICES ASSUME NEW k \in 0 .. cur' - 1, \A i \in IOS : prog[i].batch <= k
                 PROVE  k \in DOMAIN log
    BY Zenon, <1>1, <1>4 DEF Contiguous
  <2>2. CASE k = cur BY Zenon, <1>3, <2>2
  <2>3. CASE k # cur
    <3>1. cur' = cur \/ cur' = cur + 1 BY Zenon, <1>7
    <3>2. k \in 0 .. cur - 1 BY <1>2, <2>3, <3>1
    <3> QED BY Zenon, <1>1, <2>1, <3>2 DEF IInv, Contiguous
  <2> QED BY Zenon, <2>2, <2>3
<1>20. Current'
  <2>1. CASE full
    <3>1. cur' \notin DOMAIN log BY SMTT(30), <1>2, <1>7, <1>14, <2>1
    <3> QED BY Zenon, <1>1, <1>4, <2>1, <3>1 DEF Current
  <2>2. CASE ~full
    <3>1. Len(log'[cur]) < PerFile BY <1>2, <1>3, <1>5, <2>2
    <3> QED BY Zenon, <1>3, <1>4, <1>7, <2>2, <3>1 DEF Current
  <2> QED BY Zenon, <2>1, <2>2
<1> HIDE DEF full
<1>21. OnDisk'
  <2>1. ASSUME NEW b \in DOMAIN disk.log
        PROVE  \/ b \in DOMAIN log' /\ Range(disk.log[b]) \subseteq Range(log'[b])
               \/ b \notin DOMAIN log' /\ b < cur' /\ \A x \in Range(disk.log[b]) : Gone(x)
    <3>1. b \in Nat BY DEF IInv, Sized
    <3>2. b < cur => b < cur' BY <1>2, <1>7, <3>1
    <3> QED BY Zenon, <1>4, <1>6, <3>2 DEF IInv, OnDisk
  <2>2. thr.pc # "down" BY Zenon, <1>1 DEF Running
  <2> QED BY Zenon, <1>1, <1>8, <2>1, <2>2 DEF IInv, OnDisk
<1>22. Planned' BY Zenon, <1>1 DEF IInv, Planned, Restartful
<1>23. OddFiles'
  <2>1. ASSUME NEW b \in odd
        PROVE  b \in 0 .. cur' - 1 /\ (b \in DOMAIN log => Range(log'[b]) \subseteq lost)
    <3>1. b \in 0 .. cur - 1 /\ (b \in DOMAIN log => Range(log[b]) \subseteq lost) BY Zenon DEF IInv, OddFiles
    <3>2. (cur' = cur \/ cur' = cur + 1) /\ b \in 0 .. cur - 1 BY Zenon, <1>7, <3>1
    <3>3. b \in 0 .. cur' - 1 /\ b # cur BY <1>2, <3>2
    <3> QED BY Zenon, <1>4, <3>1, <3>3
  <2> QED BY Zenon, <1>1, <1>4, <2>1 DEF OddFiles
<1>24. Synced' BY Zenon, <1>1 DEF IInv, Synced
<1>25. Finished' = Finished BY Zenon, <1>1 DEF Finished
<1>26. Counting' BY Zenon, <1>1, <1>25 DEF IInv, Counting
<1>27. Asking'
  <2>1. SUFFICES ASSUME thr.pc = "rpc" PROVE Asking' BY Zenon, <1>1 DEF Asking
  <2>2. thr.batch \in DOMAIN log /\ thr.batch \in Nat BY Zenon, <1>14, <2>1 DEF IInv, Asking
  <2>3. thr.full => thr.batch < cur' /\ log'[thr.batch] = log[thr.batch]
    BY SMTT(30), <1>2, <1>4, <1>7, <2>1, <2>2 DEF IInv, Asking
  <2> QED BY Zenon, <1>1, <1>4, <2>1, <2>2, <2>3 DEF IInv, Asking
<1>28. Layout'
  <2>1. SUFFICES ASSUME "crash" \notin plan.may PROVE Layout' BY Zenon, <1>1 DEF Layout
  <2>2. nextxid = cur * PerFile + Len(log[cur]) + 1 BY Zenon, <1>3, <2>1 DEF IInv, Layout
  <2>3. cur * PerFile \in Nat /\ (cur + 1) * PerFile = cur * PerFile + PerFile BY <1>2
  <2>4. ASSUME NEW k \in 1 .. Len(log'[cur]) PROVE log'[cur][k] = cur * PerFile + k
    <3>1. CASE k = Len(log[cur]) + 1 BY SMTT(30), <1>3, <1>4, <2>2, <2>3, <3>1
    <3>2. CASE k # Len(log[cur]) + 1
      <4>1. k \in 1 .. Len(log[cur]) BY <1>3, <1>5, <3>2
      <4>2. log'[cur][k] = log[cur][k] BY <1>3, <1>4, <4>1
      <4> QED BY Zenon, <1>3, <2>1, <4>1, <4>2 DEF IInv, Layout
    <3> QED BY Zenon, <3>1, <3>2
  <2>5. nextxid' = cur * PerFile + Len(log'[cur]) + 1 BY <1>1, <1>3, <1>5, <2>2, <2>3
  <2>6. cur' \in DOMAIN log => nextxid' = cur' * PerFile + Len(log'[cur']) + 1
    <3>1. CASE cur' = cur BY Zenon, <2>5, <3>1
    <3>2. CASE cur' = cur + 1
      <4>1. ~(cur' <= cur) BY <1>2, <3>2
      <4> QED BY Zenon, <1>14, <4>1
    <3> QED BY Zenon, <1>7, <3>1, <3>2
  <2>7. cur' \notin DOMAIN log => nextxid' = cur' * PerFile + 1
    <3>1. SUFFICES ASSUME cur' \notin DOMAIN log PROVE nextxid' = cur' * PerFile + 1 BY Zenon
    <3>2. full /\ cur' = cur + 1 BY Zenon, <1>3, <1>7, <3>1
    <3>3. Len(log'[cur]) = PerFile BY Zenon, <1>5, <3>2 DEF full
    <3> QED BY Zenon, <1>2, <2>3, <2>5, <3>2, <3>3
  <2> QED BY SMTT(30), <1>1, <1>4, <2>4, <2>6, <2>7 DEF IInv, Layout
<1> QED BY SMTT(30), <1>10, <1>12, <1>13, <1>15, <1>16, <1>18, <1>19, <1>20, <1>21, <1>22, <1>23, <1>24,
           <1>26, <1>27, <1>28 DEF IInv

-----------------------------------------------------------------------------
(* Damage, commit, crash and restart *)

LEMMA StepOdd ==
  ASSUME IInv, NEW b \in DOMAIN log, Odd(b)
  PROVE  IInv'
<1>1. /\ b < cur /\ Fault("odd") /\ odd' = odd \cup {b} /\ lost' = lost \cup Range(log[b])
      /\ UNCHANGED <<log, hdl, cur, nextxid, si, prog, disk, gcoff, online, thr, done>>
  BY Zenon DEF Odd, mdsvars, Entries, Range
<1>2. Types BY Zenon DEF IInv
<1>3. /\ plan' \in Plan /\ plan'.xids = plan.xids /\ plan'.may = plan.may
      /\ plan'.begun = plan.begun /\ "odd" \in plan.may
  BY Zenon, <1>1, <1>2, FaultPlan
<1>4. "crash" \notin plan.may BY Zenon, <1>3 DEF IInv, Planned, Restartful
<1>5. SameFiles BY Zenon, <1>1, <1>3 DEF SameFiles, Grow
<1>6. Running' => Running BY Zenon, <1>1 DEF Running
<1>7. /\ Sized(log)' /\ Sized(disk.log)' /\ InOrder(log)' /\ InOrder(disk.log)'
      /\ Reached(disk.prog)' /\ Reached(si)' /\ Reached(prog)'
      /\ Kept' /\ Contiguous' /\ Current' /\ OnDisk'
  BY Zenon, <1>1, <1>5, <1>6, FilesFrame, SiFrame, ProgFrame, ThreadFrame
<1>8. Types' BY Zenon, <1>1, <1>2, <1>3 DEF Types
<1>9. Planned' BY Zenon, <1>1, <1>3, <1>4 DEF IInv, Planned, Restartful
<1>10. OddFiles'
  <2>1. b \in 0 .. cur /\ cur \in Nat BY Zenon DEF IInv, Sized, Types
  <2>2. b \in 0 .. cur - 1 BY <1>1, <2>1
  <2> QED BY Zenon, <1>1, <2>2 DEF IInv, OddFiles
<1>11. Synced' BY Zenon, <1>1 DEF IInv, Synced, Running
<1>12. Finished' = Finished BY Zenon, <1>1 DEF Finished
<1>13. Counting' BY Zenon, <1>1, <1>12 DEF IInv, Counting
<1>14. Asking' BY Zenon, <1>1 DEF IInv, Asking
<1>15. Layout' BY Zenon, <1>4, <1>1, <1>3 DEF IInv, Layout
<1> QED BY Zenon, <1>7, <1>8, <1>9, <1>10, <1>11, <1>13, <1>14, <1>15 DEF IInv

LEMMA StepCommit ==
  ASSUME IInv, Commit
  PROVE  IInv'
<1>1. /\ Running /\ disk'.log = log /\ disk'.prog = prog
      /\ UNCHANGED <<log, odd, lost, hdl, cur, nextxid, si, prog, gcoff, online, thr, done, plan>>
  BY Zenon DEF Commit, mdsvars
<1>2. Running' /\ thr.pc # "down" BY Zenon, <1>1 DEF Running
<1>3. \A y : Gone(y)' = Gone(y) BY Zenon, <1>1 DEF Gone
<1>4. Types' BY Zenon, <1>1 DEF IInv, Types
<1>5. Sized(log)' /\ Sized(disk.log)' BY Zenon, <1>1 DEF IInv, Sized
<1>6. InOrder(log)' /\ InOrder(disk.log)' BY Zenon, <1>1, <1>3 DEF IInv, InOrder
<1>7. Reached(si)' /\ Reached(prog)' /\ Reached(disk.prog)'
  BY <1>1 DEF IInv, Reached, XidsDone, FilesDone
<1>8. Kept' BY Zenon, <1>1, <1>3 DEF IInv, Kept
<1>9. Contiguous' BY Zenon, <1>1 DEF IInv, Contiguous
<1>10. Current' BY Zenon, <1>1 DEF IInv, Current
<1>11. OnDisk'
  <2>1. ASSUME NEW b \in DOMAIN log, NEW k \in 0 .. b, \A i \in IOS : prog[i].batch <= k
        PROVE  k \in DOMAIN log
    <3>1. CASE k = b BY Zenon, <3>1
    <3>2. CASE k # b
      <4>1. b \in 0 .. cur /\ cur \in Nat BY Zenon DEF IInv, Sized, Types
      <4>2. k \in 0 .. cur - 1 BY <3>2, <4>1
      <4> QED BY Zenon, <1>1, <2>1, <4>2 DEF IInv, Contiguous
    <3> QED BY Zenon, <3>1, <3>2
  <2> QED BY Zenon, <1>1, <1>2, <2>1 DEF OnDisk
<1>12. Planned' BY Zenon, <1>1 DEF IInv, Planned, Restartful
<1>13. OddFiles' BY Zenon, <1>1 DEF IInv, OddFiles
<1>14. Synced' BY Zenon, <1>1 DEF IInv, Synced
<1>15. Finished' = Finished BY Zenon, <1>1 DEF Finished
<1>16. Counting' BY Zenon, <1>1, <1>15 DEF IInv, Counting
<1>17. Asking' BY Zenon, <1>1 DEF IInv, Asking
<1>18. Layout' BY <1>1 DEF IInv, Layout
<1> QED BY SMTT(30), <1>4, <1>5, <1>6, <1>7, <1>8, <1>9, <1>10, <1>11, <1>12, <1>13, <1>14, <1>16, <1>17, <1>18 DEF IInv

LEMMA StepCrash ==
  ASSUME IInv, Crash
  PROVE  IInv'
<1>1. /\ Fault("crash") /\ log' = disk.log /\ prog' = disk.prog
      /\ thr' = [pc |-> "down", batch |-> 0, cleanup |-> TRUE]
      /\ gcoff' = {} /\ hdl' = FALSE
      /\ UNCHANGED <<odd, lost, cur, nextxid, si, disk, online, done>>
  BY Zenon DEF Crash, Idle
<1>2. Types BY DEF IInv
<1>3. /\ plan' \in Plan /\ plan'.xids = plan.xids /\ plan'.may = plan.may
      /\ plan'.begun = plan.begun /\ "crash" \in plan.may
  BY Zenon, <1>1, <1>2, FaultPlan
<1>4. thr' \in Resting /\ thr'.pc = "down" BY Zenon, <1>1 DEF Resting
<1>5. ~Running' BY Zenon, <1>4 DEF Running
<1>6. \A y : Gone(y)' = Gone(y) BY Zenon, <1>1 DEF Gone
<1>7. Types' BY Zenon, <1>1, <1>2, <1>3, <1>4 DEF Types
<1>8. Sized(log)' /\ Sized(disk.log)' BY Zenon, <1>1, <1>3 DEF IInv, Sized
<1>9. InOrder(log)' /\ InOrder(disk.log)' BY ZenonT(30), <1>1, <1>6 DEF IInv, InOrder
<1>10. Reached(si)' /\ Reached(prog)' /\ Reached(disk.prog)'
  BY <1>1 DEF IInv, Reached, XidsDone, FilesDone
<1>11. Kept' /\ Contiguous' /\ Current' /\ Synced' BY Zenon, <1>5 DEF Kept, Contiguous, Current, Synced
<1>12. OnDisk' BY Zenon, <1>1 DEF IInv, OnDisk
<1>13. Planned' BY Zenon, <1>1, <1>3 DEF IInv, Planned, Restartful
<1>14. OddFiles' BY Zenon, <1>1, <1>3 DEF IInv, Planned, OddFiles
<1>15. Counting' /\ Asking' BY Zenon, <1>4 DEF Counting, Asking
<1>16. Layout' BY Zenon, <1>3 DEF Layout
<1> QED BY Zenon, <1>7, <1>8, <1>9, <1>10, <1>11, <1>12, <1>13, <1>14, <1>15, <1>16 DEF IInv

LEMMA StepStartup ==
  ASSUME IInv, Startup
  PROVE  IInv'
<1> DEFINE B == {prog[i].batch : i \in IOS}
           F == {b \in DOMAIN log : \A k \in Hwm(prog) .. b : k \in DOMAIN log}
           last == Max(F)
           lastxid == IF log[last] = <<>> THEN 0 ELSE log[last][Len(log[last])]
           logged == UNION {Entries(b) : b \in DOMAIN log}
<1>1. /\ thr.pc = "down" /\ Hwm(disk.prog) \in DOMAIN disk.log
      /\ cur' = IF Len(log[last]) = PerFile THEN last + 1 ELSE last
      /\ nextxid' \in IF lastxid > 0 THEN {lastxid + 1} ELSE 1 .. Max(logged \cup {0}) + 1
      /\ si' = [i \in IOS |-> IF prog[i] = [xid |-> 0, batch |-> 0]
                              THEN [xid |-> curxid', batch |-> cur'] ELSE prog[i]]
      /\ thr' = [pc |-> "wait", batch |-> 0, cleanup |-> TRUE]
      /\ UNCHANGED <<log, odd, lost, hdl, prog, disk, gcoff, online, done, plan>>
  BY Zenon DEF Startup, Startable, StartupFrom, Idle
<1>2. log = disk.log /\ prog = disk.prog BY Zenon, <1>1 DEF IInv, OnDisk
<1>3. cur \in Nat /\ PerFile \in Nat \ {0} /\ prog \in [IOS -> Place] /\ plan.xids \in Nat
  BY Zenon, Sizes DEF IInv, Types, Plan
<1>4. "crash" \in plan.may BY Zenon, <1>1 DEF IInv, Planned
<1>5. si' = prog
  <2>1. \A i \in IOS : prog[i] # [xid |-> 0, batch |-> 0] BY <1>4 DEF IInv, Planned
  <2> QED BY Zenon, <1>1, <1>3, <2>1
<1>6. Hwm(prog) \in Nat /\ Hwm(prog) \in B /\ \A i \in IOS : prog[i].batch <= Hwm(prog)
  <2>1. B \in SUBSET Nat BY Zenon, <1>3 DEF Place
  <2>2. B # {} BY Zenon, Servers
  <2>3. \A x \in B : x <= cur BY Zenon DEF IInv, Reached
  <2>4. Max(B) \in B /\ \A x \in B : Max(B) >= x BY Zenon, <1>3, <2>1, <2>2, <2>3, Greatest
  <2>5. Hwm(prog) = Max(B) BY Zenon DEF Hwm
  <2>6. \A i \in IOS : prog[i].batch \in B BY Zenon
  <2>7. \A i \in IOS : Hwm(prog) >= prog[i].batch /\ prog[i].batch \in Nat BY Zenon, <2>1, <2>4, <2>5, <2>6
  <2> QED BY Zenon, <2>1, <2>4, <2>5, <2>7
<1> HIDE DEF B
<1>7. \A b \in DOMAIN log : b \in Nat /\ b <= cur BY DEF IInv, Sized
<1>8. Hwm(prog) \in F
  <2>1. \A k \in Hwm(prog) .. Hwm(prog) : k = Hwm(prog) BY <1>6
  <2> QED BY Zenon, <1>1, <1>2, <2>1
<1>9. last \in F /\ \A b \in F : last >= b
  <2>1. F \in SUBSET Nat /\ F # {} /\ \A x \in F : x <= cur BY Zenon, <1>7, <1>8
  <2> QED BY Zenon, <1>3, <2>1, Greatest
<1>10. last \in DOMAIN log /\ last \in Nat /\ Hwm(prog) <= last
  <2>1. last \in DOMAIN log /\ last \in Nat BY Zenon, <1>7, <1>9
  <2>2. last >= Hwm(prog) BY Zenon, <1>8, <1>9
  <2> QED BY Zenon, <1>6, <2>1, <2>2
<1>11. \A k \in Hwm(prog) .. last : k \in DOMAIN log BY Zenon, <1>9
<1>12. ASSUME NEW b \in DOMAIN log PROVE b <= last
  <2>1. ASSUME NEW k \in Hwm(prog) .. b PROVE k \in DOMAIN log
    <3>1. k \in 0 .. b /\ Hwm(prog) <= k BY <1>6, <1>7
    <3>2. \A i \in IOS : prog[i].batch <= k BY <1>3, <1>6, <3>1 DEF Place
    <3> QED BY Zenon, <1>2, <3>1, <3>2 DEF IInv, OnDisk
  <2>2. b \in F BY Zenon, <2>1
  <2>3. last >= b BY Zenon, <1>9, <2>2
  <2> QED BY Zenon, <1>7, <1>10, <2>3
<1>13. log[last] \in Seq(1 .. plan.xids) /\ Len(log[last]) \in Nat /\ Len(log[last]) <= PerFile
  <2>1. log[last] \in Seq(1 .. plan.xids) /\ Len(log[last]) <= PerFile BY Zenon, <1>10 DEF IInv, Sized
  <2> QED BY <2>1
<1> HIDE DEF last, F
<1>14. cur' \in Nat /\ last <= cur' /\ cur' <= last + 1 BY <1>1, <1>10
<1>15. Running' /\ thr' \in Resting BY Zenon, <1>1 DEF Running, Resting
<1>16. \A y : Gone(y)' = Gone(y) BY Zenon, <1>1 DEF Gone
<1>17. \A x \in logged : \A y \in 1 .. x : Gone(y) \/ \E c \in DOMAIN log : y \in Range(log[c])
  <2>1. SUFFICES ASSUME NEW x \in logged, NEW y \in 1 .. x
                 PROVE  Gone(y) \/ \E c \in DOMAIN log : y \in Range(log[c])
    BY Zenon
  <2>2. PICK b \in DOMAIN log : x \in Range(log[b]) BY Zenon DEF Entries, Range
  <2>3. x \in Nat BY Zenon, <2>2, EntryOf DEF IInv
  <2>4. CASE y = x BY Zenon, <2>2, <2>4
  <2>5. CASE y # x
    <3>1. y \in 1 .. x - 1 BY <2>3, <2>5
    <3> QED BY Zenon, <2>2, <3>1 DEF IInv, InOrder
  <2> QED BY Zenon, <2>4, <2>5
<1>18. logged \subseteq 1 .. plan.xids
  <2>1. \A b \in DOMAIN log : Entries(b) = Range(log[b]) BY Zenon DEF Entries, Range
  <2> QED BY Zenon, <2>1, EntryOf DEF IInv
<1>19. lastxid = 0 \/ (lastxid \in logged /\ lastxid > 0)
  <2>1. CASE log[last] = <<>> BY Zenon, <2>1
  <2>2. CASE log[last] # <<>>
    <3>1. Len(log[last]) \in DOMAIN log[last] BY <1>13, <2>2
    <3>2. lastxid = log[last][Len(log[last])] BY Zenon, <2>2
    <3>3. lastxid \in Entries(last) BY Zenon, <3>1, <3>2 DEF Entries
    <3>4. lastxid \in logged BY Zenon, <1>10, <3>3
    <3>5. lastxid \in 1 .. plan.xids BY Zenon, <1>18, <3>4
    <3> QED BY <3>4, <3>5
  <2> QED BY Zenon, <2>1, <2>2
<1> HIDE DEF lastxid, logged
<1>20. nextxid' \in Nat \ {0} /\ (nextxid' = 1 \/ nextxid' - 1 \in logged
                                  \/ \E x \in logged : nextxid' - 1 \in 1 .. x)
  <2>1. CASE lastxid \in logged /\ lastxid > 0
    <3>1. nextxid' = lastxid + 1 /\ lastxid \in 1 .. plan.xids BY Zenon, <1>1, <1>18, <2>1
    <3>2. nextxid' \in Nat \ {0} /\ nextxid' - 1 = lastxid BY <3>1
    <3> QED BY Zenon, <2>1, <3>2
  <2>2. CASE lastxid = 0
    <3> DEFINE G == logged \cup {0}
    <3>1. nextxid' \in 1 .. Max(G) + 1 BY <1>1, <2>2
    <3>2. G \in SUBSET Nat /\ G # {} /\ \A x \in G : x <= plan.xids BY <1>3, <1>18
    <3>3. Max(G) \in G BY Zenon, <1>3, <3>2, Greatest
    <3>4. PICK m \in G : m = Max(G) BY Zenon, <3>3
    <3>5. m \in Nat /\ nextxid' \in 1 .. m + 1 BY Zenon, <3>1, <3>2, <3>4
    <3>6. nextxid' \in Nat \ {0} BY <3>5
    <3>7. CASE m = 0 BY <3>5, <3>6, <3>7
    <3>8. CASE m \in logged
      <4>1. PICK n \in Nat \ {0} : n = nextxid' BY Zenon, <3>6
      <4>2. n \in 1 .. m + 1 /\ m \in Nat BY Zenon, <3>5, <4>1
      <4>3. n = 1 \/ n - 1 \in 1 .. m BY <4>2
      <4>4. nextxid' = 1 \/ nextxid' - 1 \in 1 .. m BY Zenon, <4>1, <4>3
      <4> QED BY Zenon, <3>6, <3>8, <4>4
    <3> QED BY Zenon, <3>4, <3>7, <3>8
  <2> QED BY Zenon, <1>19, <2>1, <2>2
<1>21. Types' BY Zenon, <1>1, <1>3, <1>5, <1>14, <1>15, <1>20 DEF IInv, Types
<1>22. Sized(log)' /\ Sized(disk.log)'
  <2>1. \A b \in DOMAIN log : b \in 0 .. cur' BY <1>7, <1>10, <1>12, <1>14
  <2>2. Sized(log)' BY Zenon, <1>1, <2>1 DEF IInv, Sized
  <2> QED BY Zenon, <1>1, <1>2, <2>2 DEF Sized
<1>23. InOrder(log)' /\ InOrder(disk.log)' BY Zenon, <1>1, <1>16 DEF IInv, InOrder
<1>24. \A i \in IOS : prog[i].batch <= cur' BY SMTT(30), <1>3, <1>6, <1>10, <1>14 DEF Place
<1>25. Reached(prog)' BY Zenon, <1>1, <1>24 DEF IInv, Reached, XidsDone, FilesDone
<1>26. Reached(si)' /\ Reached(disk.prog)' BY <1>1, <1>2, <1>5, <1>25 DEF Reached, XidsDone, FilesDone
<1>27. Kept'
  <2>1. SUFFICES ASSUME NEW y \in 1 .. nextxid' - 1
                 PROVE  Gone(y) \/ \E c \in DOMAIN log : y \in Range(log[c])
    BY Zenon, <1>1, <1>16 DEF Kept
  <2>2. PICK n \in Nat \ {0} : n = nextxid' BY Zenon, <1>20
  <2>3. y \in 1 .. n - 1 BY Zenon, <2>2
  <2>4. n # 1 /\ n - 1 \in 1 .. n - 1 BY <2>3
  <2>5. PICK x \in logged : n - 1 \in 1 .. x BY Zenon, <1>20, <2>2, <2>4
  <2>6. x \in 1 .. plan.xids BY Zenon, <1>18
  <2>7. y \in 1 .. x BY <2>3, <2>5, <2>6
  <2> QED BY Zenon, <1>17, <2>7
<1>28. Contiguous'
  <2>1. SUFFICES ASSUME NEW k \in 0 .. cur' - 1, \A i \in IOS : prog[i].batch <= k
                 PROVE  k \in DOMAIN log
    BY Zenon, <1>1 DEF Contiguous
  <2>2. PICK i \in IOS : prog[i].batch = Hwm(prog) BY Zenon, <1>6 DEF B
  <2>3. Hwm(prog) <= k BY Zenon, <2>1, <2>2
  <2>4. k \in Hwm(prog) .. last BY <1>6, <1>10, <1>14, <2>3
  <2> QED BY Zenon, <1>11, <2>4
<1>29. Current'
  <2>1. hdl = FALSE BY Zenon, <1>1 DEF IInv, Types, OnDisk
  <2>2. cur' \in DOMAIN log => Len(log[cur']) < PerFile
    <3>1. CASE Len(log[last]) = PerFile
      <4>1. cur' = last + 1 BY Zenon, <1>1, <3>1
      <4>2. cur' \notin DOMAIN log BY <1>10, <1>12, <4>1
      <4> QED BY Zenon, <4>2
    <3>2. CASE Len(log[last]) # PerFile
      <4>1. cur' = last BY Zenon, <1>1, <3>2
      <4> QED BY <1>3, <1>13, <3>2, <4>1
    <3> QED BY Zenon, <3>1, <3>2
  <2> QED BY Zenon, <1>1, <2>1, <2>2 DEF Current
<1>30. OnDisk' BY Zenon, <1>1, <1>2 DEF IInv, OnDisk
<1>31. Planned' BY Zenon, <1>1, <1>4, <1>5 DEF IInv, Planned, Restartful
<1>32. OddFiles' BY Zenon, <1>1, <1>4 DEF IInv, Planned, OddFiles
<1>33. Synced'
  <2>1. \A i \in IOS : prog[i].batch <= prog[i].batch BY <1>3 DEF Place
  <2> QED BY Zenon, <1>1, <1>5, <2>1 DEF Synced
<1>34. Counting' /\ Asking' BY Zenon, <1>1 DEF Counting, Asking
<1>35. Layout' BY Zenon, <1>1, <1>4 DEF Layout
<1> QED BY SMTT(30), <1>21, <1>22, <1>23, <1>25, <1>26, <1>27, <1>28, <1>29, <1>30, <1>31, <1>32, <1>33, <1>34, <1>35 DEF IInv

-----------------------------------------------------------------------------
(* The invariant *)

LEMMA InitIInv ==
  ASSUME Init, Restartful(plan)
  PROVE  IInv
<1>1. /\ log = [b \in {0} |-> <<>>] /\ odd = {} /\ lost = {} /\ hdl = FALSE /\ cur = 0 /\ nextxid = 1
      /\ si = [i \in IOS |-> [xid |-> plan.begun, batch |-> 0]]
      /\ prog = si /\ disk.log = log /\ disk.prog = prog
      /\ gcoff = {} /\ online = IOS /\ done = [i \in IOS |-> {}]
      /\ thr = [pc |-> "wait", batch |-> 0, cleanup |-> TRUE]
  BY Zenon DEF Init, Idle
<1>2. PerFile \in Nat \ {0} /\ plan \in Plan /\ plan.begun \in 0 .. 1 BY Zenon, Sizes DEF Init, Plan
<1>3. \A i \in IOS : si[i].xid = plan.begun /\ si[i].batch = 0 /\ si[i] \in Place BY <1>1, <1>2 DEF Place
<1>4. DOMAIN log = {0} /\ log[0] = <<>> /\ Len(<<>>) = 0 /\ <<>> \in Seq(1 .. plan.xids)
  BY <1>1
<1>5. Range(log[0]) = {} BY <1>4 DEF Range
<1>6. thr \in Resting BY Zenon, <1>1 DEF Resting
<1>7. Types
  <2>1. si \in [IOS -> Place] BY <1>1, <1>3
  <2>2. cur \in Nat /\ nextxid \in Nat \ {0} BY <1>1
  <2>3. done \in [IOS -> SUBSET Nat] BY <1>1
  <2> QED BY Zenon, <1>1, <1>2, <1>6, <2>1, <2>2, <2>3 DEF Types
<1>8. Sized(log) /\ Sized(disk.log)
  <2>1. 0 <= PerFile /\ 0 \in 0 .. cur BY <1>1, <1>2
  <2> QED BY Zenon, <1>1, <1>4, <2>1 DEF Sized
<1>9. InOrder(log) /\ InOrder(disk.log) BY Zenon, <1>1, <1>4, <1>5 DEF InOrder
<1>10. Reached(si)
  <2>1. \A i \in IOS : 1 .. si[i].xid - 1 = {} BY <1>2, <1>3
  <2>2. 0 <= cur BY <1>1
  <2> QED BY Zenon, <1>1, <1>3, <1>4, <1>5, <2>1, <2>2 DEF Reached, XidsDone, FilesDone
<1>11. Reached(prog) /\ Reached(disk.prog) BY <1>1, <1>10 DEF Reached, XidsDone, FilesDone
<1>12. Kept
  <2>1. 1 .. nextxid - 1 = {} BY <1>1
  <2> QED BY Zenon, <2>1 DEF Kept
<1>13. Contiguous
  <2>1. 0 .. cur - 1 = {} BY <1>1
  <2> QED BY Zenon, <2>1 DEF Contiguous
<1>14. Current BY <1>1, <1>2, <1>4 DEF Current
<1>15. OnDisk
  <2>1. \A k \in 0 .. 0 : k = 0 OBVIOUS
  <2> QED BY Zenon, <1>1, <1>4, <2>1 DEF OnDisk
<1>16. Planned BY <1>1, <1>3 DEF Planned, Restartful
<1>17. OddFiles BY Zenon, <1>1 DEF OddFiles
<1>18. Synced BY <1>1, <1>3 DEF Synced
<1>19. Counting /\ Asking BY Zenon, <1>1 DEF Counting, Asking
<1>20. Layout
  <2>1. 0 * PerFile = 0 BY <1>2
  <2>2. \A k \in 1 .. Len(<<>>) : FALSE BY <1>4
  <2>3. 1 = 0 + Len(<<>>) + 1 BY <1>4
  <2>4. plan.begun <= 0 + PerFile BY <1>2
  <2> QED BY Zenon, <1>1, <1>3, <1>4, <2>1, <2>2, <2>3, <2>4 DEF Layout
<1> QED BY SMTT(30), <1>7, <1>8, <1>9, <1>10, <1>11, <1>12, <1>13, <1>14, <1>15, <1>16, <1>17, <1>18, <1>19,
           <1>20 DEF IInv

LEMMA StutterIInv ==
  ASSUME IInv, UNCHANGED vars
  PROVE  IInv'
<1>1. Still /\ thr' = thr /\ UNCHANGED <<gcoff, online, plan>> BY Zenon DEF vars, Still
<1>2. gcoff \subseteq IOS /\ online \subseteq IOS /\ plan \in Plan /\ ("crash" \in plan.may => gcoff = {})
  BY Zenon DEF IInv, Types, Planned
<1> QED BY Zenon, <1>1, <1>2, StepWorld

LEMMA NextIInv ==
  ASSUME IInv, [Next]_vars
  PROVE  IInv'
<1>1. CASE OpenLogfile BY Zenon, <1>1, StepOpenLogfile
<1>2. CASE WriteLogentry BY Zenon, <1>2, StepWriteLogentry
<1>3. CASE LwmAbort BY <1>3, StepLwmAbort
<1>4. CASE Round BY SMTT(30), <1>4, StepRound
<1>5. CASE RoundDone BY <1>5, StepRoundDone
<1>6. CASE SkipBatch BY <1>6, StepSkipBatch
<1>7. CASE SendBatch BY <1>7, StepSendBatch
<1>8. CASE \E i \in Asked : Reclaim(i) BY Zenon, <1>8, StepReclaim
<1>9. CASE \E i \in Asked : ReclaimFail(i) BY SMTT(30), <1>9, StepReclaimFail
<1>10. CASE RecordProg BY <1>10, StepRecordProg
<1>11. CASE RemoveLogfile BY <1>11, StepRemoveLogfile
<1>12. CASE Commit BY <1>12, StepCommit
<1>13. CASE Crash BY <1>13, StepCrash
<1>14. CASE Startup BY <1>14, StepStartup
<1>15. CASE \E i \in IOS : Offline(i) BY Zenon, <1>15, StepOffline
<1>16. CASE \E i \in IOS : Online(i) BY Zenon, <1>16, StepOnline
<1>17. CASE \E i \in IOS : DisableGc(i) BY <1>17, StepDisableGc
<1>18. CASE \E i \in IOS : EnableGc(i) BY <1>18, StepEnableGc
<1>19. CASE \E b \in DOMAIN log : Odd(b) BY Zenon, <1>19, StepOdd
<1>20. CASE UNCHANGED vars BY Zenon, <1>20, StutterIInv
<1> QED BY SMTT(30), <1>1, <1>2, <1>3, <1>4, <1>5, <1>6, <1>7, <1>8, <1>9, <1>10, <1>11, <1>12, <1>13, <1>14,
           <1>15, <1>16, <1>17, <1>18, <1>19, <1>20 DEF Next

-----------------------------------------------------------------------------
(* The results *)

\* The circumstances the theorems are about: an MDS that crashes has recorded progress
\* before, none of its files is damaged and no collection is disabled.  Without any one
\* of the three, TLC finds Applied and LogKept violated.
Circumstances == \A p \in Plans : Restartful(p)

\* The invariant holds: the files mds_write_logentry() fills tell the transactions
\* in order, and belong with the progress mds_record_reclaim_prog() writes.
THEOREM ReclaimInvariant == Circumstances /\ Spec => []IInv
<1>1. Circumstances /\ Init => IInv
  <2>1. Circumstances /\ Init => Restartful(plan) BY Zenon DEF Circumstances, Init
  <2> QED BY Zenon, <2>1, InitIInv
<1>2. IInv /\ [Next]_vars => IInv' BY Zenon, NextIInv
<1> QED BY <1>1, <1>2, PTL DEF Spec

\* Progress is never ahead of the work: what mds_record_reclaim_prog() writes, and what
\* si_xid and si_batchno say, covers only transactions the server has reclaimed.
THEOREM ReclaimApplied == Circumstances /\ Spec => []Applied
<1>1. IInv => Applied
  <2>1. SUFFICES ASSUME IInv, NEW i \in IOS, NEW p \in {si, prog, disk.prog}
                 PROVE  /\ 1 .. p[i].xid - 1 \subseteq done[i] \cup lost
                        /\ \A b \in DOMAIN log : b < p[i].batch => Entries(b) \subseteq done[i] \cup lost
    BY Zenon DEF Applied
  <2>2. XidsDone(p) /\ FilesDone(log, p) BY Zenon, <2>1 DEF IInv, Reached
  <2> QED BY Zenon, <2>2 DEF XidsDone, FilesDone, Entries, Range
<1> QED BY <1>1, ReclaimInvariant, PTL

\* Nothing is forgotten: mds_remove_logfile() removes only files every server is done
\* with, and a crash and mds_journal_init() after it lose no distilled transaction.
THEOREM ReclaimLogKept == Circumstances /\ Spec => []LogKept
<1>1. IInv => LogKept BY Zenon DEF IInv, Kept, LogKept, Gone, Entries, Range
<1> QED BY <1>1, ReclaimInvariant, PTL

\* si_batchno and si_xid advance together: a full file that is due for a server ends at
\* or after the transaction the server expects, as mds_send_batch_reclaim() relies on.
THEOREM ReclaimInStep == Circumstances /\ Spec => []InStep
<1>1. IInv => InStep
  <2>1. SUFFICES ASSUME IInv, "crash" \notin plan.may, NEW i \in IOS, NEW b \in DOMAIN log,
                        b = si[i].batch, Len(log[b]) = PerFile
                 PROVE  si[i].xid <= log[b][PerFile]
    BY Zenon DEF InStep
  <2>2. PerFile \in 1 .. Len(log[b]) BY <2>1, Sizes
  <2>3. log[b][PerFile] = b * PerFile + PerFile BY Zenon, <2>1, <2>2 DEF IInv, Layout
  <2> QED BY Zenon, <2>1, <2>3 DEF IInv, Layout
<1> QED BY <1>1, ReclaimInvariant, PTL
=============================================================================
