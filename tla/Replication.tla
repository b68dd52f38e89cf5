----------------------------- MODULE Replication -----------------------------
(***************************************************************************)
(* The replication engine for one bmap: the residency table the metadata   *)
(* server (MDS) keeps for it (slashd/repl_mds.c, bmap_mds.c), the update    *)
(* scheduler that turns queued states into work (slashd/up_sched_res.c),    *)
(* the batch RPCs that carry the work to the I/O servers (IOS), and the     *)
(* copying and hole punching the IOS do (sliod/repl_iod.c, rii.c, rim.c).   *)
(*                                                                         *)
(* An IOS is its position in the inode's replica table.  What it holds of  *)
(* the bmap is a version number: 0 is a hole, and cur is the version of    *)
(* the last write a client made.  A write at an IOS that does not hold cur *)
(* leaves that IOS without cur: it changed a part of something else.       *)
(*                                                                         *)
(* The bmap lock is held from one end of a handler to the other, except    *)
(* where a change of the table waits for BMAPF_REPLMODWR: a handler that   *)
(* meets the flag gives up the lock after its checks and before its change. *)
(***************************************************************************)
EXTENDS Integers, Sequences, FiniteSets, FiniteSetsExt, SequencesExt

CONSTANTS
    NIos,       \* entries of the inode's replica table
    User,       \* threads that serve replication requests of clients
    Upsch,      \* update scheduler threads
    Plans,      \* the circumstances a behaviour may have (below)
    MaxBatch,   \* bound on requests outstanding at a time
    MaxLog      \* bound on journal entries between two syncs

VARIABLES
    repls,      \* bmi_repls: the residency state of the bmap on each IOS
    orepls,     \* bmi_orepls: what the table was before the last change
    bgen,       \* bes_gen as <<incarnation, increments>>
    replmodwr,  \* BMAPF_REPLMODWR: "no", "set", or "rows" once rows are written
    rows,       \* the rows of this bmap in the SQLite table upsch
    updf_list,  \* UPDF_LIST: the bmap is on slm_upsch_queue
    pagein,     \* an upd_pagein_wk() work item is queued
    purge,      \* an slm_wk_upsch_purge() work item is queued
    th,         \* the update scheduler threads
    usr,        \* the threads that serve clients
    wr_ion,     \* bmi_wr_ion: the IOS bound for writing, 0 for none
    lease,      \* how far the write lease is
    bq,         \* batched requests, with their fate at the MDS and at the IOS
    data,       \* the version each IOS holds
    cur,        \* the version of the last write
    boot,       \* incarnation of the MDS
    wgen,       \* bes_gen as last written
    disk,       \* the bmap as last synced, and
    jrnl,       \*   the residency tables journalled since
    count,      \* requests, leases and faults so far
    plan        \* the circumstances of this behaviour, a record with
                \*   valid    the IOS that hold the bmap at first
                \*   nopunch  the IOS whose backend cannot punch holes
                \*   policy   the replication policy: "onetime" or "persist"
                \*   threads  the scheduler threads that run
                \*   kinds    what clients do, of {"add", "del", "lease", "query"}
                \*   faults   what else may happen, of
                \*            {"noconn", "drop", "iod", "fail", "crash", "evict"}
                \*   rqs, leases, writes, nfaults
                \*            bounds on requests, on write leases given out or
                \*            updated, on writes and on faults

vars == <<repls, orepls, bgen, replmodwr, rows, updf_list, pagein, purge, th,
          usr, wr_ion, lease, bq, data, cur, boot, wgen, disk, jrnl, count, plan>>

table == <<repls, orepls, bgen, replmodwr, wgen, jrnl>>
sched == <<rows, updf_list, pagein, purge, th>>
store == <<boot, disk, plan>>
ldata == <<data, cur>>

MayFail(f) == f \in plan.faults /\ count.faults < plan.nfaults

Ios == 1..NIos

\* BREPLST_*, without the states of partial truncation
State == {"invalid", "replSched", "replQueued", "valid", "garbQueued", "garbSched"}

Valid == {i \in Ios : repls[i] = "valid"}

-----------------------------------------------------------------------------
(* The residency table *)

\* _mds_repl_bmap_walk() with a translation matrix, over the IOS of S
Walk(rp, S, tract) ==
    [i \in Ios |-> IF i \in S /\ rp[i] \in DOMAIN tract THEN tract[rp[i]] ELSE rp[i]]

\* Each _mds_repl_bmap_apply() of a walk saves the whole table before its own
\* change: after the walk only the last change can be told
Saved(rp, S, new) ==
    IF S = {} THEN orepls ELSE [new EXCEPT ![Max(S)] = rp[Max(S)]]

Change(S, tract) ==
    /\ repls' = Walk(repls, S, tract)
    /\ orepls' = Saved(repls, S, repls')

Revert == [s \in {"replSched", "garbSched"} |->
              IF s = "replSched" THEN "replQueued" ELSE "garbQueued"]

\* Entries are only kept while a crash can still come; a full journal waits
\* for a sync
Journalled ==
    IF MayFail("crash")
    THEN Len(jrnl) < MaxLog /\ jrnl' = Append(jrnl, repls')
    ELSE UNCHANGED jrnl

\* mds_bmap_write_logrepls(): write, journal, and let a worker update upsch
LogRepls ==
    /\ replmodwr' = "set"
    /\ wgen' = bgen'
    /\ Journalled

\* mds_bmap_write() without a log function
PlainWrite ==
    /\ wgen' = bgen'
    /\ UNCHANGED <<replmodwr, jrnl>>

-----------------------------------------------------------------------------
(* Requests of clients *)

Idle == [pc |-> "idle"]

\* Which states make each request write the table back
Dirty(op, S) ==
    \E i \in S : repls[i] \in
        IF op = "add" THEN {"garbQueued", "garbSched", "invalid"}
        ELSE {"replQueued", "replSched", "garbSched", "valid"}

Tract(op) ==
    IF op = "add"
    THEN [s \in {"invalid", "garbSched", "garbQueued"} |-> "replQueued"]
    ELSE [s \in {"replQueued", "replSched", "garbSched", "valid"} |-> "garbQueued"]

\* The walk of mds_repl_addrq() or mds_repl_delrq() and what follows it
Request(op, S) ==
    /\ Change(S, Tract(op))
    /\ bgen' = bgen
    /\ IF Dirty(op, S) THEN LogRepls ELSE UNCHANGED <<replmodwr, wgen, jrnl>>

\* mds_repl_addrq() skips a bmap without a valid replica; mds_repl_delrq()
\* refuses to take the last one
Admits(op, S) ==
    IF op = "add" THEN Valid # {} ELSE Valid \ S # {}

AddDelRq(u, op, S) ==
    /\ op \in plan.kinds
    /\ usr[u] = Idle
    /\ count.rqs < plan.rqs
    /\ Admits(op, S)
    /\ count' = [count EXCEPT !.rqs = @ + 1]
    /\ IF replmodwr = "no"
       THEN /\ Request(op, S)
            /\ UNCHANGED usr
       ELSE /\ usr' = [usr EXCEPT ![u] = [pc |-> "wait", op |-> op, ios |-> S]]
            /\ UNCHANGED table
    /\ UNCHANGED <<sched, wr_ion, lease, bq, ldata, store>>

AddDelRqApply(u) ==
    /\ usr[u].pc = "wait"
    /\ replmodwr = "no"
    /\ Request(usr[u].op, usr[u].ios)
    /\ usr' = [usr EXCEPT ![u] = Idle]
    /\ UNCHANGED <<sched, wr_ion, lease, bq, ldata, store, count>>

\* slm_rmc_handle_getreplst() enqueues a bmap that has something queued
Query ==
    /\ "query" \in plan.kinds
    /\ \E i \in Ios : repls[i] \in {"replQueued", "garbQueued"}
    /\ updf_list' = TRUE
    /\ UNCHANGED <<table, rows, pagein, purge, th, usr, wr_ion, lease, bq, ldata,
                   store, count>>

-----------------------------------------------------------------------------
(* Write leases *)

\* slm_resm_select(): a valid replica if there is one
LeaseAssign(i) ==
    /\ "lease" \in plan.kinds
    /\ lease = "none"
    /\ count.leases < plan.leases
    /\ Valid # {} => i \in Valid
    /\ wr_ion' = i
    /\ lease' = "assign"
    /\ count' = [count EXCEPT !.leases = @ + 1]
    /\ UNCHANGED <<table, sched, usr, bq, ldata, store>>

\* mds_bmap_ios_update(): another lease on a bmap that is bound already
LeaseUpdate ==
    /\ lease = "held"
    /\ count.leases < plan.leases
    /\ lease' = "update"
    /\ count' = [count EXCEPT !.leases = @ + 1]
    /\ UNCHANGED <<table, sched, usr, wr_ion, bq, ldata, store>>

\* mds_repl_inv_except(), and the journal entry of mds_bmap_add_repl()
InvExcept ==
    LET own == [s \in {"invalid", "garbSched", "garbQueued"} |-> "valid"]
        oth == [s \in {"valid", "replSched"} |->
                  IF s = "replSched" \/ plan.policy = "persist"
                  THEN "replQueued" ELSE "garbQueued"]
        others == Ios \ {wr_ion}
        first == Walk(repls, {wr_ion}, own)
        logit == \E i \in others : repls[i] \in DOMAIN oth
    IN  /\ lease \in {"assign", "update"}
        /\ replmodwr = "no"
        /\ repls' = Walk(first, others, oth)
        /\ orepls' = IF others = {} THEN Saved(repls, {wr_ion}, first)
                     ELSE Saved(first, others, repls')
        /\ bgen' = IF logit THEN <<bgen[1], bgen[2] + 1>> ELSE bgen
        /\ wgen' = bgen'
        /\ replmodwr' = IF logit THEN "set" ELSE "no"
        /\ Journalled
        /\ updf_list' = (updf_list \/ plan.policy = "persist")
        /\ lease' = "held"
        /\ UNCHANGED <<rows, pagein, purge, th, usr, wr_ion, bq, ldata, store, count>>

\* mds_bmap_bml_release() of the last write lease
LeaseRelease ==
    /\ lease \in {"held", "orphan"}
    /\ lease' = "none"
    /\ wr_ion' = 0
    /\ UNCHANGED <<table, sched, usr, bq, ldata, store, count>>

\* A client that holds a lease writes to the IOS the bmap is bound to
Write ==
    /\ lease \in {"held", "update"}
    /\ cur <= plan.writes
    /\ cur' = cur + 1
    /\ data' = [data EXCEPT ![wr_ion] = IF @ = cur THEN cur + 1 ELSE @]
    /\ UNCHANGED <<table, sched, usr, wr_ion, lease, bq, store, count>>

-----------------------------------------------------------------------------
(* The upsch table *)

\* slm_repl_upd_write(): how a change of the residency table shows there
RowsAdd(o, n) ==
    {i \in Ios : /\ o[i] # n[i]
                 /\ \/ /\ o[i] \notin {"replSched", "garbQueued", "garbSched"}
                       /\ n[i] = "replQueued"
                    \/ o[i] # "garbSched" /\ n[i] = "garbQueued"}

RowsDel(o, n) ==
    {i \in Ios : /\ o[i] # n[i]
                 /\ o[i] \in {"replQueued", "replSched", "garbSched", "valid"}
                 /\ n[i] \in {"valid", "invalid"}}

UpdWrite(r, o, n) ==
    [i \in Ios |->
        CASE i \in RowsAdd(o, n) -> IF r[i] = "none" THEN "Q" ELSE r[i]
          [] i \in RowsDel(o, n) -> "none"
          [] OTHER ->
             IF r[i] = "none" \/ o[i] = n[i] THEN r[i]
             ELSE IF o[i] \in {"replSched", "garbSched"} THEN "Q"
             ELSE IF n[i] \in {"replSched", "garbSched"} THEN "S"
             ELSE r[i]]

\* slm_wkcb_wr_brepl(); a row that is inserted also asks for a page-in
WrBreplRows ==
    /\ replmodwr = "set"
    /\ rows' = UpdWrite(rows, orepls, repls)
    /\ pagein' = (pagein \/ \E i \in RowsAdd(orepls, repls) : rows[i] = "none")
    /\ replmodwr' = "rows"
    /\ UNCHANGED <<repls, orepls, bgen, wgen, jrnl, updf_list, purge, th, usr,
                   wr_ion, lease, bq, ldata, store, count>>

WrBreplRelease ==
    /\ replmodwr = "rows"
    /\ replmodwr' = "no"
    /\ UNCHANGED <<repls, orepls, bgen, wgen, jrnl, sched, usr, wr_ion, lease, bq,
                   ldata, store, count>>

\* slmpagerthr_main(): every row becomes a page-in
Pager ==
    /\ \E i \in Ios : rows[i] # "none"
    /\ pagein' = TRUE
    /\ UNCHANGED <<table, rows, updf_list, purge, th, usr, wr_ion, lease, bq, ldata,
                   store, count>>


\* upd_pagein_wk(): enqueue the bmap if there is work, else purge its rows

PageIn ==
    LET work == \E i \in Ios : repls[i] \in {"replQueued", "garbQueued", "garbSched"}
    IN  /\ pagein
        /\ pagein' = FALSE
        /\ updf_list' = (updf_list \/ work)
        /\ purge' = (purge \/ ~work)
        /\ UNCHANGED <<table, rows, th, usr, wr_ion, lease, bq, ldata, store, count>>

Purge ==
    /\ purge
    /\ purge' = FALSE
    /\ rows' = [i \in Ios |-> "none"]
    /\ UNCHANGED <<table, updf_list, pagein, th, usr, wr_ion, lease, bq, ldata,
                   store, count>>

-----------------------------------------------------------------------------
(* The update scheduler *)

\* A thread takes the bmap off the queue; it has all of the IOS to look at
UpschTake(t) ==
    /\ updf_list
    /\ t \in plan.threads /\ th[t] = Idle
    /\ updf_list' = FALSE
    /\ th' = [th EXCEPT ![t] = [pc |-> "run", todo |-> Ios]]
    /\ UNCHANGED <<table, rows, pagein, purge, usr, wr_ion, lease, bq, ldata, store,
                   count>>


\* What upd_proc_bmap() finds to do for IOS d
Works(d) ==
    IF repls[d] = "replQueued" /\ wr_ion = 0
    THEN IF Valid \ {d} # {}
         THEN {[op |-> "repl", dst |-> d, src |-> s, gen |-> bgen] : s \in Valid \ {d}}
         ELSE {[op |-> "cancel", dst |-> d, src |-> d, gen |-> bgen]}
    ELSE IF repls[d] = "garbQueued"
    THEN {[op |-> "preclaim", dst |-> d, src |-> d, gen |-> bgen]}
    ELSE {}

Outstanding == {r \in bq : r.mds # "gone"}


\* slrpc_batch_req_add(); ids start over when the MDS starts
NewBid == Min({n \in 1..MaxBatch :
                  \A r \in bq : r.boot = boot => r.bid # n})

AddBatch(w) ==
    /\ Cardinality(bq) < MaxBatch
    /\ bq' = bq \cup {[boot |-> boot, bid |-> NewBid, op |-> w.op, dst |-> w.dst,
                       src |-> w.src, gen |-> w.gen, mds |-> "delayed",
                       ios |-> "none", rc |-> "none", rep |-> "none", v |-> 0]}

\* The change of slm_upsch_tryrepl(), slm_upsch_trypreclaim() or of
\* slm_upsch_sched_repl() itself, and what follows it.  Work that was not
\* scheduled leaves the thread with the rest of its IOS.
TryWork(t, todo, w) ==
    LET due == repls[w.dst] =
                 IF w.op = "preclaim" THEN "garbQueued" ELSE "replQueued"
        new == CASE w.op = "repl" -> "replSched"
                 [] w.op = "cancel" -> "garbQueued"
                 [] w.op = "preclaim" -> "garbSched"
    IN  /\ bgen' = bgen
        /\ IF due
           THEN /\ Change({w.dst}, [s \in {repls[w.dst]} |-> new])
                /\ IF w.op = "cancel" THEN bq' = bq ELSE AddBatch(w)
                /\ IF w.op = "repl" THEN PlainWrite ELSE LogRepls
           ELSE /\ orepls' = repls
                /\ UNCHANGED <<repls, bq, replmodwr, wgen, jrnl>>
        /\ th' = [th EXCEPT ![t] =
                    IF due \/ (w.op = "repl" /\ repls[w.dst] = "replSched") THEN Idle
                    ELSE IF w.op = "repl" /\ repls[w.dst] = "valid"
                    THEN [pc |-> "abort"]
                    ELSE [pc |-> "run", todo |-> todo]]

\* upd_proc_bmap() comes to IOS d, in an order of its own
UpschChoose(t) ==
    /\ th[t].pc = "run"
    /\ \E d \in th[t].todo : \E w \in Works(d) :
          IF replmodwr = "no"
          THEN TryWork(t, th[t].todo \ {d}, w)
          ELSE /\ th' = [th EXCEPT ![t] = [pc |-> "wait", todo |-> @.todo \ {d},
                                           work |-> w]]
               /\ UNCHANGED <<table, bq>>
    /\ UNCHANGED <<rows, updf_list, pagein, purge, usr, wr_ion, lease, ldata, store,
                   count>>

UpschApply(t) ==
    /\ th[t].pc = "wait"
    /\ replmodwr = "no"
    /\ TryWork(t, th[t].todo, th[t].work)
    /\ UNCHANGED <<rows, updf_list, pagein, purge, usr, wr_ion, lease, ldata, store,
                   count>>

\* The IOS of the work has no connection, or no bandwidth is left
UpschSkip(t) ==
    /\ MayFail("noconn")
    /\ th[t].pc = "run"
    /\ \E d \in th[t].todo :
          /\ \E w \in Works(d) : w.op # "cancel"
          /\ th' = [th EXCEPT ![t].todo = @ \ {d}]
    /\ count' = [count EXCEPT !.faults = @ + 1]
    /\ UNCHANGED <<table, rows, updf_list, pagein, purge, usr, wr_ion, lease, bq,
                   ldata, store>>

UpschDone(t) ==
    /\ th[t].pc = "run"
    /\ \A d \in th[t].todo : Works(d) = {}
    /\ th' = [th EXCEPT ![t] = Idle]
    /\ UNCHANGED <<table, rows, updf_list, pagein, purge, usr, wr_ion, lease, bq,
                   ldata, store, count>>

-----------------------------------------------------------------------------
(* Batched requests at the MDS and at the IOS *)

Over(r) == r.mds = "gone" /\ r.ios \in {"none", "end"}

Update(r, new) == {x \in (bq \ {r}) \cup {new} : ~Over(x)}

\* slrpc_batch_req_send(): the batch expired or is full
BatchSend(r) ==
    /\ r.mds = "delayed"
    /\ bq' = Update(r, [r EXCEPT !.mds = "wait", !.ios = "net"])
    /\ UNCHANGED <<table, sched, usr, wr_ion, lease, ldata, store, count>>

\* sli_repl_addwk(): one piece of work per bmap at a time
ReplAddWk(r) ==
    LET dup == \E x \in bq : x.dst = r.dst /\ x.ios \in {"copy", "put"}
    IN  /\ r.op = "repl" /\ r.ios = "net"
        /\ bq' = Update(r, IF dup THEN [r EXCEPT !.ios = "reply", !.rep = "already"]
                           ELSE [r EXCEPT !.ios = "copy"])
        /\ UNCHANGED <<table, sched, usr, wr_ion, lease, ldata, store, count>>

\* sli_rii_handle_repl_read() at the source
ReplRead(r) ==
    /\ r.ios = "copy"
    /\ bq' = Update(r, [r EXCEPT !.ios = "put", !.v = data[r.src]])
    /\ UNCHANGED <<table, sched, usr, wr_ion, lease, ldata, store, count>>

\* sli_rii_replread_release_sliver() at the destination
ReplPut(r) ==
    /\ r.ios = "put"
    /\ data' = [data EXCEPT ![r.dst] = r.v]
    /\ bq' = Update(r, [r EXCEPT !.ios = "reply", !.rep = "ok", !.v = 0])
    /\ UNCHANGED <<table, sched, usr, wr_ion, lease, cur, store, count>>

\* ... or the work fails for good
ReplFail(r) ==
    /\ MayFail("fail")
    /\ r.ios = "copy"
    /\ bq' = Update(r, [r EXCEPT !.ios = "reply", !.rep = "err"])
    /\ count' = [count EXCEPT !.faults = @ + 1]
    /\ UNCHANGED <<table, sched, usr, wr_ion, lease, ldata, store>>

\* sli_rim_batch_handle_preclaim()
Preclaim(r) ==
    /\ r.op = "preclaim" /\ r.ios = "net"
    /\ IF r.dst \in plan.nopunch
       THEN /\ UNCHANGED data
            /\ bq' = Update(r, [r EXCEPT !.ios = "reply", !.rep = "notsup"])
       ELSE /\ data' = [data EXCEPT ![r.dst] = 0]
            /\ bq' = Update(r, [r EXCEPT !.ios = "reply", !.rep = "ok"])
    /\ UNCHANGED <<table, sched, usr, wr_ion, lease, cur, store, count>>

\* slrpc_batch_handle_reply(): the request is found by its id
HandleReply(r) ==
    LET mine == {x \in bq : /\ x.mds = "wait" /\ x.boot = boot
                            /\ x.bid = r.bid /\ x.op = r.op}
        seen == [r EXCEPT !.ios = "end"]
    IN  /\ r.ios = "reply"
        /\ IF mine = {}
           THEN bq' = Update(r, seen)
           ELSE \E x \in mine :
                bq' = IF x = r
                      THEN Update(r, [seen EXCEPT !.mds = "fin", !.rc = r.rep])
                      ELSE {y \in (bq \ {r, x}) \cup
                                   {seen, [x EXCEPT !.mds = "fin", !.rc = r.rep]} :
                               ~Over(y)}
        /\ UNCHANGED <<table, sched, usr, wr_ion, lease, ldata, store, count>>

\* slrpc_batches_drop() when the connection to IOS d is lost; with an IOS that
\* died its work goes as well
Drop(d, dies) ==
    /\ MayFail(IF dies THEN "iod" ELSE "drop")
    /\ \E r \in bq : r.dst = d /\ (r.mds = "wait" \/ dies)
    /\ bq' = {x \in {IF r.dst # d THEN r
                     ELSE [r EXCEPT !.mds = IF @ = "wait" THEN "fin" ELSE @,
                                    !.rc = IF r.mds = "wait" THEN "reset" ELSE @,
                                    !.ios = IF dies /\ @ # "none" THEN "end" ELSE @] :
                     r \in bq} : ~Over(x)}
    /\ count' = [count EXCEPT !.faults = @ + 1]
    /\ UNCHANGED <<table, sched, usr, wr_ion, lease, ldata, store>>

\* The change slm_batch_repl_cb() or slm_batch_preclaim_cb() makes
Outcome(r, rc) ==
    IF r.op = "repl"
    THEN [s \in {"replSched"} |->
            CASE rc = "ok" -> "valid"
              [] rc \in {"already", "reset"} -> "replQueued"
              [] OTHER -> "garbQueued"]
    ELSE [s \in {"garbSched"} |-> IF rc = "ok" THEN "invalid" ELSE "garbQueued"]

Finish(r, rc) ==
    /\ Change({r.dst}, Outcome(r, rc))
    /\ bgen' = bgen
    /\ IF r.op = "preclaim" \/ repls[r.dst] = "replSched"
       THEN LogRepls ELSE UNCHANGED <<replmodwr, wgen, jrnl>>
    /\ bq' = Update(r, [r EXCEPT !.mds = "gone", !.rc = "none"])

\* slm_batch_repl_cb(): what was copied under an older generation is too old
Checked(r) ==
    IF r.op = "repl" /\ r.rc = "ok" /\ r.gen # bgen THEN "old" ELSE r.rc

BatchCb(r) ==
    /\ r.mds = "fin"
    /\ IF replmodwr = "no"
       THEN Finish(r, Checked(r))
       ELSE /\ bq' = Update(r, [r EXCEPT !.mds = "check", !.rc = Checked(r)])
            /\ UNCHANGED table
    /\ UNCHANGED <<sched, usr, wr_ion, lease, ldata, store, count>>

BatchCbApply(r) ==
    /\ r.mds = "check"
    /\ replmodwr = "no"
    /\ Finish(r, r.rc)
    /\ UNCHANGED <<sched, usr, wr_ion, lease, ldata, store, count>>

-----------------------------------------------------------------------------
(* The bmap leaves the cache, the MDS stops *)

Referenced ==
    \/ replmodwr # "no" \/ updf_list \/ lease # "none"
    \/ \E t \in Upsch : th[t] # Idle
    \/ \E u \in User : usr[u] # Idle
    \/ \E r \in bq : r.mds = "check"

\* mds_bmap_read() of a bmap whose generation is not the one this MDS gives
Reload ==
    /\ "evict" \in plan.faults
    /\ ~Referenced
    /\ wgen # <<boot, 0>>
    /\ bgen # <<boot, 0>> \/ \E i \in Ios : repls[i] \in DOMAIN Revert
    /\ bgen' = <<boot, 0>>
    /\ Change(Ios, Revert)
    /\ IF repls' # repls THEN LogRepls ELSE UNCHANGED <<replmodwr, wgen, jrnl>>
    /\ UNCHANGED <<sched, usr, wr_ion, lease, bq, ldata, store, count>>

\* A transaction group of the file system below is synced
Sync ==
    /\ MayFail("crash")
    /\ disk # [repls |-> repls, gen |-> wgen] \/ jrnl # <<>>
    /\ disk' = [repls |-> repls, gen |-> wgen]
    /\ jrnl' = <<>>
    /\ UNCHANGED <<repls, orepls, bgen, replmodwr, wgen, sched, usr, wr_ion, lease, bq,
                   ldata, boot, count, plan>>


\* mds_replay_bmap() of one journal entry
Replay(st, entry) ==
    LET new == Walk(entry, Ios, Revert)
        upd == UpdWrite(st.rows, st.repls, new)
    IN  [repls |-> new,
         rows |-> [i \in Ios |-> IF new[i] \in {"replQueued", "garbQueued"} /\ upd[i] = "none"
                                 THEN "Q" ELSE upd[i]]]

\* The MDS stops and starts: it replays the journal, requeues the bmaps with
\* rows of status S (slm_upsch_requeue_cb()), and takes the write leases out of
\* the table of bindings.  All of that is done before it counts as running; a
\* bmap that is read while it is running is reverted by mds_bmap_read().
Crash ==
    LET st == FoldLeft(Replay, [repls |-> disk.repls, rows |-> rows], jrnl)
        inwork == \E i \in Ios : st.repls[i] \in DOMAIN Revert
        byrow == inwork /\ \E i \in Ios : st.rows[i] = "S"
        late == inwork /\ ~byrow /\ jrnl = <<>> /\ lease = "none"
        gen == <<boot + 1, 0>>
    IN  /\ MayFail("crash")
        /\ count' = [count EXCEPT !.faults = @ + 1]
        /\ boot' = boot + 1
        /\ bgen' = gen
        /\ repls' = IF byrow \/ late THEN Walk(st.repls, Ios, Revert) ELSE st.repls
        /\ orepls' = Saved(st.repls, Ios, repls')
        /\ replmodwr' = IF late THEN "set" ELSE "no"
        /\ wgen' = IF byrow \/ late \/ jrnl # <<>> THEN gen ELSE disk.gen
        /\ rows' = [i \in Ios |-> IF st.rows[i] = "S" THEN "Q" ELSE st.rows[i]]
        /\ updf_list' = FALSE
        /\ pagein' = \E i \in Ios : rows'[i] # "none"
        /\ purge' = FALSE
        /\ th' = [t \in Upsch |-> Idle]
        /\ usr' = [u \in User |-> Idle]
        /\ lease' = CASE lease = "assign" -> "orphan"
                      [] lease = "update" -> "held"
                      [] OTHER -> lease
        /\ bq' = {x \in {[r EXCEPT !.mds = "gone", !.rc = "none"] : r \in bq} : ~Over(x)}
        /\ disk' = [repls |-> repls', gen |-> wgen']
        /\ jrnl' = <<>>
        /\ UNCHANGED <<wr_ion, ldata, plan>>

-----------------------------------------------------------------------------
Init ==
    /\ plan \in Plans
    /\ repls = [i \in Ios |-> IF i \in plan.valid THEN "valid" ELSE "invalid"]
    /\ orepls = repls
    /\ bgen = <<1, 0>>
    /\ replmodwr = "no"
    /\ rows = [i \in Ios |-> "none"]
    /\ updf_list = FALSE
    /\ pagein = FALSE
    /\ purge = FALSE
    /\ th = [t \in Upsch |-> Idle]
    /\ usr = [u \in User |-> Idle]
    /\ wr_ion = 0
    /\ lease = "none"
    /\ bq = {}
    /\ data = [i \in Ios |-> IF i \in plan.valid THEN 1 ELSE 0]
    /\ cur = 1
    /\ boot = 1
    /\ wgen = bgen
    /\ disk = [repls |-> repls, gen |-> bgen]
    /\ jrnl = <<>>
    /\ count = [rqs |-> 0, leases |-> 0, faults |-> 0]

Next ==
    \/ \E u \in User, op \in {"add", "del"}, S \in SUBSET Ios \ {{}} : AddDelRq(u, op, S)
    \/ \E u \in User : AddDelRqApply(u)
    \/ Query
    \/ \E i \in Ios : LeaseAssign(i)
    \/ LeaseUpdate \/ InvExcept \/ LeaseRelease \/ Write
    \/ WrBreplRows \/ WrBreplRelease \/ Pager \/ PageIn \/ Purge
    \/ \E t \in Upsch : \/ UpschTake(t) \/ UpschChoose(t) \/ UpschApply(t)
                       \/ UpschSkip(t) \/ UpschDone(t)
    \/ \E r \in bq : BatchSend(r)
    \/ \E r \in bq : ReplAddWk(r)
    \/ \E r \in bq : ReplRead(r)
    \/ \E r \in bq : ReplPut(r)
    \/ \E r \in bq : ReplFail(r)
    \/ \E r \in bq : Preclaim(r)
    \/ \E r \in bq : HandleReply(r)
    \/ \E r \in bq : BatchCb(r)
    \/ \E r \in bq : BatchCbApply(r)
    \/ \E d \in Ios, dies \in BOOLEAN : Drop(d, dies)
    \/ Reload \/ Sync \/ Crash

Spec == Init /\ [][Next]_vars

\* Worker, scheduler, pager and batch threads, and the IOS, keep running
Fairness ==
    /\ WF_vars(\E u \in User : AddDelRqApply(u))
    /\ WF_vars(InvExcept) /\ WF_vars(LeaseRelease)
    /\ WF_vars(WrBreplRows \/ WrBreplRelease)
    /\ WF_vars(Pager) /\ WF_vars(PageIn) /\ WF_vars(Purge)
    /\ \A t \in Upsch : WF_vars(UpschTake(t)) /\ WF_vars(UpschChoose(t) \/ UpschDone(t))
                        /\ WF_vars(UpschApply(t))
    /\ \A n \in 1..MaxBatch :
          /\ WF_vars(\E r \in bq : /\ r.bid = n
                                  /\ \/ BatchSend(r) \/ ReplAddWk(r) \/ ReplRead(r)
                                     \/ ReplPut(r) \/ Preclaim(r) \/ HandleReply(r))
          /\ WF_vars(\E r \in bq : r.bid = n /\ (BatchCb(r) \/ BatchCbApply(r)))

FairSpec == Spec /\ Fairness

\* A user asks for the status of the replicas again and again, which is how
\* "a user can trigger action on such a bmap" that is stuck (slashd/rmc.c:2123)
PolledSpec == FairSpec /\ WF_vars(Query)

-----------------------------------------------------------------------------
(* Properties *)

TypeOK ==
    /\ plan \in Plans
    /\ repls \in [Ios -> State] /\ orepls \in [Ios -> State]
    /\ replmodwr \in {"no", "set", "rows"}
    /\ rows \in [Ios -> {"none", "Q", "S"}]
    /\ wr_ion \in Ios \cup {0}
    /\ lease \in {"none", "assign", "update", "held", "orphan"}
    /\ (wr_ion = 0) = (lease = "none")
    /\ \A i \in Ios : data[i] \in 0..cur
    /\ \A r \in bq : ~Over(r)



\* Once slm_repl_upd_write() is done, a replica that waits to be made has a row
\* in the upsch table, from which the pager finds it again.
QueuedHasRow ==
    replmodwr = "no" => \A i \in Ios : repls[i] = "replQueued" => rows[i] # "none"

\* slm_upsch_tryrepl() takes it as fatal to find the replica it was about to
\* make already valid.
NotYetValid == \A t \in Upsch : th[t].pc # "abort"


=============================================================================
