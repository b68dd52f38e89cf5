----------------------------- MODULE ReclaimLog -----------------------------
(***************************************************************************)
(* Garbage reclamation (slashd/mdslog.c, sliod/rim.c).  The distill thread *)
(* of the MDS appends the id of every transaction that made a file garbage *)
(* to a log that is split into numbered files (batches) of a fixed number  *)
(* of entries.  The reclaim thread sends the files to the I/O servers,     *)
(* keeps the progress of each of them, records it in a progress file, and  *)
(* removes a file once every server is past it.  After a restart the MDS   *)
(* finds its place again from the progress file and the last log file.     *)
(*                                                                         *)
(* Log and progress files live in ZFS: a crash takes both back to the same *)
(* transaction group.  What the log lost is distilled again from the       *)
(* journal, which is assumed to still hold it (module JournalRecovery is   *)
(* about that).                                                            *)
(***************************************************************************)
EXTENDS Integers, Sequences, FiniteSets, FiniteSetsExt

CONSTANTS
    IOS,      \* I/O servers
    PerFile,  \* SLM_RECLAIM_BATCH_NENTS less the header
    Plans     \* what may happen, and the bounds on it (see Plan)

\* begun: 1 when every server has progress to begin with, 0 when none has;
\* stuck: transactions whose file a server cannot unlink; gcmay: servers whose
\* collection may be disabled; xids: bound on transactions; left: bound on faults.
Plan == [begun : 0 .. 1, stuck : SUBSET Nat, gcmay : SUBSET IOS, xids : Nat,
         may : SUBSET {"net", "down", "gc", "crash", "odd"}, left : Nat]

ASSUME Sizes == PerFile \in Nat \ {0} /\ Plans \subseteq Plan
ASSUME Servers == IOS # {} /\ IsFiniteSet(IOS)

VARIABLES
    log,     \* the log files: batch number -> transaction ids
    odd,     \* files with an odd size
    lost,    \* what was in them
    hdl,     \* whether reclaim_prg.log_handle is open
    cur,     \* reclaim_prg.cur_batchno
    curxid,  \* reclaim_prg.cur_xid
    nextxid, \* the next transaction to distill
    si,      \* si_xid and si_batchno of every server
    prog,    \* the progress file
    disk,    \* the log files and the progress file of the last txg
    gcoff,   \* servers with SIF_DISABLE_GC
    online,  \* servers that are connected
    thr,     \* the reclaim thread
    done,    \* what each server has reclaimed
    plan     \* what may still happen

vars == <<log, odd, lost, hdl, cur, curxid, nextxid, si, prog, disk, gcoff, online, thr, done, plan>>
mdsvars == <<hdl, cur, curxid, nextxid>>

None == -1
Idle == [pc |-> "wait", batch |-> 0, cleanup |-> TRUE]
Running == thr.pc \notin {"down", "abort"}
NoRq == [i \in IOS |-> {}]

Fault(f) ==
    /\ f \in plan.may /\ plan.left > 0
    /\ plan' = [plan EXCEPT !.left = @ - 1]

Entries(b) == {log[b][k] : k \in DOMAIN log[b]}
Without(f, S) == [b \in DOMAIN f \ S |-> f[b]]

-----------------------------------------------------------------------------
(* The distill thread *)

OpenLogfile ==
    /\ Running /\ ~hdl /\ nextxid <= plan.xids
    /\ hdl' = TRUE
    /\ log' = [b \in DOMAIN log \cup {cur} |-> IF b \in DOMAIN log THEN log[b] ELSE <<>>]
    /\ UNCHANGED <<odd, lost, cur, curxid, nextxid, si, prog, disk, gcoff, online, thr, done, plan>>

WriteLogentry ==
    /\ Running /\ hdl /\ nextxid <= plan.xids
    /\ log' = [log EXCEPT ![cur] = Append(@, nextxid)]
    /\ curxid' = nextxid
    /\ nextxid' = nextxid + 1
    /\ LET full == Len(log[cur]) + 1 = PerFile IN
        /\ hdl' = ~full
        /\ cur' = IF full THEN cur + 1 ELSE cur
    /\ UNCHANGED <<odd, lost, si, prog, disk, gcoff, online, thr, done, plan>>

-----------------------------------------------------------------------------
(* The reclaim thread *)

LwmBatch == Min({si[i].batch : i \in IOS \ gcoff})
LwmXid == Min({si[i].xid : i \in IOS \ gcoff})
Hwm(s) == Max({s[i].batch : i \in IOS})

\* mds_reclaim_lwm() asserts that some server has its collection enabled.
LwmAbort ==
    /\ thr.pc \in {"wait", "loop"} /\ gcoff = IOS
    /\ thr' = [Idle EXCEPT !.pc = "abort"]
    /\ UNCHANGED <<log, odd, lost, mdsvars, si, prog, disk, gcoff, online, done, plan>>

Round ==
    /\ thr.pc = "wait" /\ gcoff # IOS
    /\ thr' = [pc |-> "loop", batch |-> LwmBatch, cleanup |-> FALSE]
    /\ log' = IF thr.cleanup THEN Without(log, {b \in DOMAIN log : b <= LwmBatch - 2}) ELSE log
    /\ UNCHANGED <<odd, lost, mdsvars, si, prog, disk, gcoff, online, done, plan>>

NothingNew == curxid = 0 \/ LwmXid > curxid

\* The thread goes back to wait for more.
RoundDone ==
    /\ thr.pc = "loop" /\ gcoff # IOS
    /\ \/ NothingNew
       \/ thr.batch \notin DOMAIN log /\ thr.batch >= cur
       \/ thr.batch \in DOMAIN log /\ log[thr.batch] = <<>>
    /\ thr' = [Idle EXCEPT !.cleanup = FALSE]
    /\ UNCHANGED <<log, odd, lost, mdsvars, si, prog, disk, gcoff, online, done, plan>>

\* Mutant: the file is passed over, but nobody's progress is moved past it.
SkipBatchStay ==
    LET b == thr.batch IN
    /\ thr.pc = "loop" /\ gcoff # IOS /\ ~NothingNew
    /\ b < cur /\ (b \notin DOMAIN log \/ b \in odd)
    /\ thr' = [pc |-> IF Hwm(si) > b THEN "loop" ELSE "wait", batch |-> b + 1, cleanup |-> FALSE]
    /\ UNCHANGED <<log, si, prog, odd, lost, mdsvars, disk, gcoff, online, done, plan>>

\* mds_skip_reclaim_batch(): a file that is missing or has an odd size.
SkipBatch ==
    LET b  == thr.batch
        at == {i \in IOS : si[i].batch = b}
    IN
    /\ thr.pc = "loop" /\ gcoff # IOS /\ ~NothingNew
    /\ b < cur /\ (b \notin DOMAIN log \/ b \in odd)
    /\ si' = [i \in IOS |-> IF i \in at THEN [si[i] EXCEPT !.batch = b + 1] ELSE si[i]]
    /\ prog' = IF at = {} THEN prog ELSE si'
    /\ log' = IF \A i \in IOS : si[i].batch >= b THEN Without(log, {b - 1}) ELSE log
    /\ thr' = [pc |-> IF Hwm(si') > b THEN "loop" ELSE "wait", batch |-> b + 1, cleanup |-> FALSE]
    /\ UNCHANGED <<odd, lost, mdsvars, disk, gcoff, online, done, plan>>

\* Mutant: an entry at the recorded transaction is taken for sent.
UnsentAfter(i, b) ==
    LET ents == log[b] IN
    IF si[i].xid <= ents[Len(ents)] THEN {x \in Entries(b) : x > si[i].xid} ELSE Entries(b)

\* What is left to send of a file to a server.
Unsent(i, b) ==
    LET ents == log[b]
        from == CHOOSE k \in DOMAIN ents :
                    ents[k] >= si[i].xid /\ \A j \in 1 .. k - 1 : ents[j] < si[i].xid
    IN IF si[i].xid <= ents[Len(ents)] THEN {ents[k] : k \in from .. Len(ents)} ELSE Entries(b)

SendBatch ==
    LET b    == thr.batch
        full == Len(log[b]) = PerFile
        last == log[b][Len(log[b])]
        may  == online \ gcoff
        past == {i \in may : si[i].batch > b \/ (si[i].batch = b /\ ~full /\ si[i].xid > last)}
        to   == {i \in may : si[i].batch = b} \ past
    IN
    /\ thr.pc = "loop" /\ gcoff # IOS /\ ~NothingNew
    /\ b \in DOMAIN log \ odd /\ log[b] # <<>>
    /\ thr' = [pc |-> "rpc", batch |-> b, cleanup |-> FALSE, full |-> full, xid |-> last,
               rq |-> [i \in IOS |-> IF i \in to THEN Unsent(i, b) ELSE {}],
               ndone |-> Cardinality(past), record |-> FALSE,
               next |-> IF may = {} THEN None ELSE Min({si[i].batch : i \in may})]
    /\ UNCHANGED <<log, odd, lost, mdsvars, si, prog, disk, gcoff, online, done, plan>>

\* Mutant: the end of a full file does not move the server to the next.
ReclaimSame(i) ==
    LET entries == thr.rq[i]
        ok      == entries \cap plan.stuck = {}
    IN
    /\ done' = [done EXCEPT ![i] = @ \cup (entries \ plan.stuck)]
    /\ si' = IF ~ok THEN si ELSE [si EXCEPT ![i].xid = thr.xid + 1]
    /\ thr' = IF ~ok THEN [thr EXCEPT !.rq[i] = {}]
              ELSE [thr EXCEPT !.rq[i] = {}, !.ndone = @ + 1, !.record = TRUE]
    /\ UNCHANGED <<log, odd, lost, mdsvars, prog, disk, gcoff, online, plan>>

\* sli_rim_handle_reclaim() at the server and slm_rim_reclaim_cb() at the MDS: the
\* server unlinks what it can, and answers with the error of an unlink that fails.
Reclaim(i) ==
    LET entries == thr.rq[i]
        ok      == entries \cap plan.stuck = {}
    IN
    /\ done' = [done EXCEPT ![i] = @ \cup (entries \ plan.stuck)]
    /\ si' = IF ~ok THEN si ELSE
             [si EXCEPT ![i] = [xid |-> thr.xid + 1, batch |-> IF thr.full THEN @.batch + 1 ELSE @.batch]]
    /\ thr' = IF ~ok THEN [thr EXCEPT !.rq[i] = {}]
              ELSE [thr EXCEPT !.rq[i] = {}, !.ndone = @ + 1, !.record = TRUE]
    /\ UNCHANGED <<log, odd, lost, mdsvars, prog, disk, gcoff, online, plan>>

\* The RPC fails, before the server has handled it or after.
ReclaimFail(i) ==
    /\ Fault("net")
    /\ done' \in {done, [done EXCEPT ![i] = @ \cup (thr.rq[i] \ plan.stuck)]}
    /\ thr' = [thr EXCEPT !.rq[i] = {}]
    /\ UNCHANGED <<log, odd, lost, mdsvars, si, prog, disk, gcoff, online>>

\* All RPCs are answered: the progress is recorded.
RecordProg ==
    /\ thr.pc = "rpc" /\ thr.rq = NoRq
    /\ prog' = IF thr.record THEN si ELSE prog
    /\ thr' = [thr EXCEPT !.pc = "remove"]
    /\ UNCHANGED <<log, odd, lost, mdsvars, si, disk, gcoff, online, done, plan>>

\* Mutant: one server that is done is enough.
RemoveLogfileAny ==
    /\ thr.pc = "remove"
    /\ log' = IF thr.ndone > 0 /\ thr.full THEN Without(log, {thr.batch - 1}) ELSE log
    /\ LET b == IF thr.next \in {None, thr.batch} THEN thr.batch + 1 ELSE thr.next IN
        thr' = [pc |-> IF thr.ndone > 0 /\ Hwm(si) >= b THEN "loop" ELSE "wait", batch |-> b, cleanup |-> FALSE]
    /\ UNCHANGED <<odd, lost, mdsvars, si, prog, disk, gcoff, online, done, plan>>

RemoveLogfile ==
    /\ thr.pc = "remove"
    /\ log' = IF thr.ndone = Cardinality(IOS) /\ thr.full THEN Without(log, {thr.batch - 1}) ELSE log
    /\ LET b == IF thr.next \in {None, thr.batch} THEN thr.batch + 1 ELSE thr.next IN
        thr' = [pc |-> IF thr.ndone > 0 /\ Hwm(si) >= b THEN "loop" ELSE "wait", batch |-> b, cleanup |-> FALSE]
    /\ UNCHANGED <<odd, lost, mdsvars, si, prog, disk, gcoff, online, done, plan>>

-----------------------------------------------------------------------------
(* The world around *)

\* The txg with the latest changes reaches the disk.
Commit ==
    /\ "crash" \in plan.may /\ Running
    /\ disk # [log |-> log, prog |-> prog]
    /\ disk' = [log |-> log, prog |-> prog]
    /\ UNCHANGED <<log, odd, lost, mdsvars, si, prog, gcoff, online, thr, done, plan>>

Crash ==
    /\ Running /\ Fault("crash")
    /\ log' = disk.log /\ prog' = disk.prog
    /\ thr' = [Idle EXCEPT !.pc = "down"]
    /\ gcoff' = {}
    /\ hdl' = FALSE
    /\ UNCHANGED <<odd, lost, cur, curxid, nextxid, si, disk, online, done>>

\* mds_journal_init() looks for the last log file from the furthest progress on, and
\* gives up when there is no file there.
Startable(d) == Hwm(d.prog) \in DOMAIN d.log

\* The journal is distilled from after the last transaction of the last file on; when
\* that file is empty, from wherever the journal begins.
StartupFrom(last, p) ==
    LET lastxid == IF log[last] = <<>> THEN 0 ELSE log[last][Len(log[last])]
        logged  == UNION {Entries(b) : b \in DOMAIN log}
    IN
    /\ cur' = IF Len(log[last]) = PerFile THEN last + 1 ELSE last
    /\ curxid' = lastxid
    /\ nextxid' \in IF lastxid > 0 THEN {lastxid + 1} ELSE 1 .. Max(logged \cup {0}) + 1
    /\ si' = [i \in IOS |-> IF p[i] = [xid |-> 0, batch |-> 0]
                            THEN [xid |-> curxid', batch |-> cur'] ELSE p[i]]

Startup ==
    /\ thr.pc = "down" /\ Startable(disk)
    /\ LET last == Max({b \in DOMAIN log : \A k \in Hwm(prog) .. b : k \in DOMAIN log}) IN
        StartupFrom(last, prog)
    /\ thr' = Idle
    /\ UNCHANGED <<log, odd, lost, hdl, prog, disk, gcoff, online, done, plan>>

Offline(i) ==
    /\ i \in online /\ Fault("down")
    /\ online' = online \ {i}
    /\ UNCHANGED <<log, odd, lost, mdsvars, si, prog, disk, gcoff, thr, done>>

Online(i) ==
    /\ i \notin online
    /\ online' = online \cup {i}
    /\ UNCHANGED <<log, odd, lost, mdsvars, si, prog, disk, gcoff, thr, done, plan>>

\* slmctl disables the collection of a server, and enables it again.
DisableGc(i) ==
    /\ i \in plan.gcmay \ gcoff /\ Running /\ Fault("gc")
    /\ gcoff' = gcoff \cup {i}
    /\ UNCHANGED <<log, odd, lost, mdsvars, si, prog, disk, online, thr, done>>

EnableGc(i) ==
    /\ i \in gcoff /\ Running
    /\ gcoff' = gcoff \ {i}
    /\ UNCHANGED <<log, odd, lost, mdsvars, si, prog, disk, online, thr, done, plan>>

\* A closed file is found with an odd size.
Odd(b) ==
    /\ b < cur /\ b \notin odd /\ Fault("odd")
    /\ odd' = odd \cup {b}
    /\ lost' = lost \cup Entries(b)
    /\ UNCHANGED <<log, mdsvars, si, prog, disk, gcoff, online, thr, done>>

-----------------------------------------------------------------------------
\* The first start after slmkfs, which makes an empty file 0.
Init ==
    /\ plan \in Plans
    /\ log = [b \in {0} |-> <<>>] /\ odd = {} /\ lost = {}
    /\ hdl = FALSE /\ cur = 0 /\ curxid = 0 /\ nextxid = 1
    /\ si = [i \in IOS |-> [xid |-> plan.begun, batch |-> 0]]
    /\ prog = si /\ disk = [log |-> log, prog |-> prog]
    /\ gcoff = {} /\ online = IOS
    /\ thr = Idle
    /\ done = [i \in IOS |-> {}]

ThreadStep == LwmAbort \/ Round \/ RoundDone \/ SkipBatch \/ SendBatch \/ RecordProg \/ RemoveLogfile
Asked == IF thr.pc = "rpc" THEN {i \in IOS : thr.rq[i] # {}} ELSE {}

Next ==
    \/ OpenLogfile
    \/ WriteLogentry
    \/ LwmAbort
    \/ Round
    \/ RoundDone
    \/ SkipBatch
    \/ SendBatch
    \/ \E i \in Asked : Reclaim(i)
    \/ \E i \in Asked : ReclaimFail(i)
    \/ RecordProg
    \/ RemoveLogfile
    \/ Commit
    \/ Crash
    \/ Startup
    \/ \E i \in IOS : Offline(i)
    \/ \E i \in IOS : Online(i)
    \/ \E i \in IOS : DisableGc(i)
    \/ \E i \in IOS : EnableGc(i)
    \/ \E b \in DOMAIN log : Odd(b)

Spec == Init /\ [][Next]_vars

\* The threads run, RPCs are answered, and a server does not stay away for ever.
FairSpec ==
    /\ Spec
    /\ WF_vars(OpenLogfile) /\ WF_vars(WriteLogentry) /\ WF_vars(ThreadStep)
    /\ \A i \in IOS : /\ WF_vars(i \in Asked /\ Reclaim(i))
                      /\ WF_vars(Online(i))
                      /\ WF_vars(EnableGc(i))

-----------------------------------------------------------------------------
(* Properties *)

\* The state keeps its types: in particular no file exceeds its size.
TypeOK ==
    /\ \A b \in DOMAIN log : b \in Nat /\ Len(log[b]) <= PerFile /\ Entries(b) \subseteq 1 .. plan.xids
    /\ hdl => cur \in DOMAIN log /\ Len(log[cur]) < PerFile
    /\ curxid \in 0 .. plan.xids /\ nextxid \in 1 .. plan.xids + 1
    /\ \A i \in IOS : si[i].xid \in 0 .. plan.xids + 1 /\ si[i].batch \in 0 .. cur
    /\ gcoff \subseteq IOS /\ online \subseteq IOS
    /\ thr.pc \in {"wait", "loop", "rpc", "remove", "down", "abort"}

\* Progress is never ahead of the work: what slm_rim_reclaim_cb() moved a server past,
\* in memory, in the progress file or in what a crash would leave of it, the server has
\* reclaimed (or it was in a file that was unreadable).
Applied ==
    \A i \in IOS, p \in {si, prog, disk.prog} :
        /\ 1 .. p[i].xid - 1 \subseteq done[i] \cup lost
        /\ \A b \in DOMAIN log : b < p[i].batch => Entries(b) \subseteq done[i] \cup lost

\* Nothing is forgotten: what was distilled and a server has not reclaimed is still in
\* some log file, whatever mds_remove_logfile() removed and a crash undid.
LogKept ==
    Running => \A i \in IOS, x \in 1 .. nextxid - 1 :
        x \in done[i] \cup lost \/ \E b \in DOMAIN log : x \in Entries(b)

\* When a full file is due for a server, the transaction the server expects is not past
\* the end of it: batches and transactions advance together, unless a crash takes the
\* last file back to its header.
InStep ==
    "crash" \notin plan.may =>
        \A i \in IOS : \A b \in DOMAIN log \ odd :
            b = si[i].batch /\ Len(log[b]) = PerFile => si[i].xid <= log[b][PerFile]

\* The MDS can find its place in the log after a crash at any time: there is a log file
\* where the furthest progress points.
Restartable == Startable(disk)

\* Some server always bounds the low water mark: mds_reclaim_lwm() does not abort.
LwmDefined == thr.pc # "abort"

\* What is distilled, every server reclaims in the end, whichever of them were away or
\* disabled meanwhile; unless the MDS stopped.
Reclaimed ==
    <>[]("crash" \notin plan.may /\ thr.pc # "abort" =>
            \A i \in IOS : 1 .. plan.xids \subseteq done[i] \cup lost)
=============================================================================
