------------------------------- MODULE BmapCache -------------------------------
(***************************************************************************)
(* The bmaps of one file on a client (share/bmap.c with the operations of  *)
(* mount_slash/bmap_cli.c): threads get a bmap for reading or writing,     *)
(* retrieve its lease, upgrade it and extend it, with or without waiting   *)
(* for the reply, while the release thread frees bmaps, the watch thread   *)
(* extends leases and an invalidation hides the bmaps from lookups.  A     *)
(* step is what happens under a bmap's lock, under the file's lock, or     *)
(* between two of them.                                                    *)
(***************************************************************************)
EXTENDS Naturals, FiniteSets

CONSTANTS Thread, Bno, Obj, NoObj,
          Kinds,       \* the gets that happen
          FaultPlans,  \* the combinations of rare events that happen
          MaxGets,     \* bound: gets started
          MaxExtends   \* bound: extensions begun by the watch thread

(* bmap_lookup, a get for reading or writing, and the preload by a create. *)
AllKinds == {"lookup", "rd", "wr", "preload"}
(* The MDS no longer knows a lease; the file is truncated or changes       *)
(* generation; an RPC fails.                                               *)
AllFaults == {"enoent", "invalidate", "fail"}

ASSUME BmapCacheAssumption ==
  /\ NoObj \notin Obj /\ Bno # {} /\ Kinds \subseteq AllKinds /\ FaultPlans \subseteq SUBSET AllFaults
  /\ MaxGets \in Nat /\ MaxExtends \in Nat

VARIABLES
  bmap,    \* the bmaps, in use or in the pool
  thr,     \* the threads in or after _bmap_get
  rpc,     \* bmap -> replies awaited by callbacks: to get, chwr and ext
  watch,   \* bmap -> what the watch thread is doing about it
  inval,   \* bmap -> invalidations that have yet to take it out of the tree
  ngets, nextends,
  faults   \* the rare events of this behaviour

vars == <<bmap, thr, rpc, watch, inval, ngets, nextends, faults>>
aside == <<rpc, watch, inval, ngets, nextends, faults>>

Calls == {"get", "chwr", "ext"}
Idler == [pc |-> "idle", bno |-> CHOOSE n \in Bno : TRUE, kind |-> "lookup",
          nb |-> FALSE, b |-> NoObj, bnew |-> NoObj]
(* A bmap that has just been allocated: memset and b->bcm_flags = bmaprw.  *)
(* "known" says whether the MDS knows the lease in bci_sbd.                *)
Blank(n, rw) ==
  [at |-> "pool", bno |-> n, rw |-> rw, opcnt |-> 0, tree |-> FALSE,
   known |-> FALSE, loading |-> FALSE, loaded |-> FALSE, modechng |-> FALSE, extreq |-> FALSE,
   timeoq |-> FALSE, discard |-> FALSE, tofree |-> FALSE, freeing |-> FALSE]

TypeOK ==
  /\ bmap \in [Obj -> [at : {"pool", "new", "cache"}, bno : Bno, rw : {"rd", "wr"},
                       opcnt : Nat, tree : BOOLEAN, known : BOOLEAN, loading : BOOLEAN,
                       loaded : BOOLEAN, modechng : BOOLEAN, extreq : BOOLEAN, timeoq : BOOLEAN,
                       discard : BOOLEAN, tofree : BOOLEAN, freeing : BOOLEAN]]
  /\ thr \in [Thread -> [pc : {"idle", "find", "alloc", "lwait", "lwoken", "mwait",
                               "mwoken", "retr", "got", "nogot", "modeset", "add", "chwr",
                               "gone", "ewait", "ewoken", "ext", "fail", "held"},
                         bno : Bno, kind : AllKinds, nb : BOOLEAN,
                         b : Obj \cup {NoObj}, bnew : Obj \cup {NoObj}]]
  /\ rpc \in [Obj -> [Calls -> Nat]]
  /\ watch \in [Obj -> {"no", "marked", "sending", "sent"}]
  /\ inval \in [Obj -> Nat]
  /\ ngets \in 0 .. MaxGets /\ nextends \in 0 .. MaxExtends /\ faults \in FaultPlans

Init ==
  /\ bmap = [o \in Obj |-> Blank(Idler.bno, "rd")]
  /\ thr = [t \in Thread |-> Idler]
  /\ rpc = [o \in Obj |-> [c \in Calls |-> 0]]
  /\ watch = [o \in Obj |-> "no"]
  /\ inval = [o \in Obj |-> 0]
  /\ ngets = 0 /\ nextends = 0 /\ faults \in FaultPlans

-------------------------------------------------------------------------------
OpStart(h, o) == [h EXCEPT ![o].opcnt = @ + 1]

(* bmap_op_done_type on a locked bmap: the last reference frees it. *)
OpDone(h, o) ==
  LET last == h[o].opcnt = 1
  IN [h EXCEPT ![o].opcnt = @ - 1, ![o].tofree = @ \/ last, ![o].freeing = last]

(* Mutant: nobody is woken. *)
WakeNone(o) == thr

(* bmap_wake_locked: those who wait for a flag of the bmap look again. *)
Wake(o) ==
  LET woken == [x \in {"lwait", "mwait", "ewait"} |->
                  CASE x = "lwait" -> "lwoken" [] x = "mwait" -> "mwoken" [] OTHER -> "ewoken"]
  IN [t \in Thread |-> IF thr[t].b = o /\ thr[t].pc \in DOMAIN woken
                       THEN [thr[t] EXCEPT !.pc = woken[@]] ELSE thr[t]]

(* The bmaps become h and thread t, of the threads w, goes to pc. *)
Go(h, w, t, o, pc) == bmap' = h /\ thr' = [w EXCEPT ![t].pc = pc, ![t].b = o]

(* Mutant: the release thread's reference is taken for every lease. *)
ReapInitAgain(h, o) ==
  [h EXCEPT ![o].loaded = TRUE, ![o].known = TRUE, ![o].timeoq = TRUE, ![o].opcnt = @ + 1]
(* msl_bmap_reap_init, with the lease's arrival: the release thread's      *)
(* reference is taken once.                                                *)
ReapInit(h, o) ==
  [h EXCEPT ![o].loaded = TRUE, ![o].known = TRUE, ![o].timeoq = TRUE,
            ![o].opcnt = IF h[o].timeoq THEN @ ELSE @ + 1]

-------------------------------------------------------------------------------
(* A call of _bmap_get; only readahead does not wait for replies. *)
Get(t, n, k, nb) ==
  /\ thr[t].pc = "idle" /\ ngets < MaxGets
  /\ nb => k \in {"rd", "wr"}
  /\ thr' = [thr EXCEPT ![t] = [Idler EXCEPT !.pc = "find", !.bno = n, !.kind = k, !.nb = nb]]
  /\ ngets' = ngets + 1
  /\ UNCHANGED <<bmap, rpc, watch, inval, nextends, faults>>

Wanted(t) == IF thr[t].kind = "preload" THEN "wr" ELSE thr[t].kind

(* Mutant: a mode change that is going on is not waited for. *)
LoadedNoWait(h, w, t, o) ==
  \/ thr[t].kind = "lookup" /\ Go(h, w, t, o, "held")
  \/ /\ thr[t].kind # "lookup" /\ h[o].rw = Wanted(t)
     /\ Go(h, w, t, o, "held")
  \/ /\ thr[t].kind # "lookup" /\ h[o].rw # Wanted(t)
     /\ Go([h EXCEPT ![o].modechng = TRUE], w, t, o, "modeset")

(* The part of _bmap_get after the label "loaded". *)
Loaded(h, w, t, o) ==
  \/ thr[t].kind = "lookup" /\ Go(h, w, t, o, "held")
  \/ /\ thr[t].kind # "lookup" /\ h[o].modechng
     /\ Go(h, w, t, o, IF thr[t].nb THEN "held" ELSE "mwait")
  \/ /\ thr[t].kind # "lookup" /\ ~h[o].modechng /\ h[o].rw = Wanted(t)
     /\ Go(h, w, t, o, "held")
  \/ /\ thr[t].kind # "lookup" /\ ~h[o].modechng /\ h[o].rw # Wanted(t)
     /\ Go([h EXCEPT ![o].modechng = TRUE], w, t, o, "modeset")

(* Its first part, with a reference and the lock. *)
Grab(h, t, o) ==
  \/ h[o].loading /\ Go(h, thr, t, o, IF thr[t].nb THEN "held" ELSE "lwait")
  \/ ~h[o].loading /\ h[o].loaded /\ Loaded(h, thr, t, o)
  \/ /\ ~h[o].loading /\ ~h[o].loaded
     /\ CASE thr[t].kind = "preload" -> Go(ReapInit(h, o), thr, t, o, "held")
          [] OTHER -> Go([h EXCEPT ![o].loading = TRUE], thr, t, o, "retr")

(* bmap_lookup_cache: a bmap that is going away is waited for, for a while *)
(* at a time.                                                              *)
InTree(n) == {o \in Obj : bmap[o].tree /\ bmap[o].bno = n}
ReturnNew(h, t) == IF thr[t].bnew = NoObj THEN h ELSE [h EXCEPT ![thr[t].bnew].at = "pool"]

(* Mutant: BMAPF_TOFREE is looked at only if the bmap is not referenced. *)
HitDying(t) ==
  /\ thr[t].pc = "find"
  /\ \E o \in InTree(thr[t].bno) :
       /\ ~bmap[o].discard /\ (bmap[o].tofree => bmap[o].opcnt > 0)
       /\ Grab(OpStart(ReturnNew(bmap, t), o), t, o)
  /\ UNCHANGED aside

Hit(t) ==
  /\ thr[t].pc = "find"
  /\ \E o \in InTree(thr[t].bno) :
       /\ ~bmap[o].tofree /\ ~bmap[o].discard
       /\ Grab(OpStart(ReturnNew(bmap, t), o), t, o)
  /\ UNCHANGED aside

(* Mutant: the tree is not searched again after the allocation. *)
MissBlind(t) ==
  LET n == thr[t].bnew
      h == [bmap EXCEPT ![n] = [Blank(thr[t].bno, Wanted(t)) EXCEPT
                                  !.at = "cache", !.opcnt = 1, !.tree = TRUE]]
  IN /\ thr[t].pc = "find" /\ (n = NoObj => InTree(thr[t].bno) = {})
     /\ \/ /\ thr[t].kind = "lookup"
           /\ thr' = [thr EXCEPT ![t] = Idler] /\ UNCHANGED bmap
        \/ /\ thr[t].kind # "lookup" /\ n = NoObj
           /\ thr' = [thr EXCEPT ![t].pc = "alloc"] /\ UNCHANGED bmap
        \/ /\ thr[t].kind # "lookup" /\ n # NoObj
           /\ bmap' = h
           /\ thr' = [thr EXCEPT ![t].pc = "lwoken", ![t].b = n, ![t].bnew = NoObj]
     /\ UNCHANGED aside

Miss(t) ==
  LET n == thr[t].bnew
      h == [bmap EXCEPT ![n] = [Blank(thr[t].bno, Wanted(t)) EXCEPT
                                  !.at = "cache", !.opcnt = 1, !.tree = TRUE]]
  IN /\ thr[t].pc = "find" /\ InTree(thr[t].bno) = {}
     /\ \/ /\ thr[t].kind = "lookup"
           /\ thr' = [thr EXCEPT ![t] = Idler] /\ UNCHANGED bmap
        \/ /\ thr[t].kind # "lookup" /\ n = NoObj
           /\ thr' = [thr EXCEPT ![t].pc = "alloc"] /\ UNCHANGED bmap
        \/ /\ thr[t].kind # "lookup" /\ n # NoObj
           /\ bmap' = h
           /\ thr' = [thr EXCEPT ![t].pc = "lwoken", ![t].b = n, ![t].bnew = NoObj]
     /\ UNCHANGED aside

(* psc_pool_get. *)
Alloc(t) ==
  /\ thr[t].pc = "alloc"
  /\ \E o \in Obj :
       /\ bmap[o].at = "pool"
       /\ bmap' = [bmap EXCEPT ![o].at = "new"]
       /\ thr' = [thr EXCEPT ![t].pc = "find", ![t].bnew = o]
  /\ UNCHANGED aside

(* The lock is taken after an insertion or a wait. *)
LoadingWoken(t) ==
  thr[t].pc = "lwoken" /\ Grab(bmap, t, thr[t].b) /\ UNCHANGED aside
ModeWoken(t) ==
  thr[t].pc = "mwoken" /\ Loaded(bmap, thr, t, thr[t].b) /\ UNCHANGED aside

-------------------------------------------------------------------------------
Sent(o, c) == rpc' = [rpc EXCEPT ![o][c] = @ + 1]
Answered(o, c) == rpc[o][c] > 0 /\ rpc' = [rpc EXCEPT ![o][c] = @ - 1]
besides == <<watch, inval, ngets, nextends, faults>>

(* msl_bmap_retrieve: it clears BMAPF_LOADING, with or without a lease; a  *)
(* get that does not wait leaves that to the callback.                     *)
Retrieve(t) ==
  LET o == thr[t].b
  IN /\ thr[t].pc = "retr" /\ UNCHANGED besides
     /\ \/ /\ ~thr[t].nb /\ UNCHANGED rpc
           /\ Go([ReapInit(bmap, o) EXCEPT ![o].loading = FALSE], Wake(o), t, o, "got")
        \/ /\ thr[t].nb /\ Sent(o, "get")
           /\ Go(OpStart(bmap, o), thr, t, o, "held")
        \/ /\ "fail" \in faults /\ UNCHANGED rpc
           /\ Go([bmap EXCEPT ![o].loading = FALSE], Wake(o), t, o, "nogot")

(* _bmap_get clears the flag once more. *)
Got(t) ==
  LET o == thr[t].b
  IN /\ thr[t].pc = "got" /\ UNCHANGED aside
     /\ Loaded([bmap EXCEPT ![o].loading = FALSE, ![o].loaded = TRUE], Wake(o), t, o)

NoGot(t) ==
  LET o == thr[t].b
  IN /\ thr[t].pc = "nogot" /\ UNCHANGED aside
     /\ bmap' = OpDone([bmap EXCEPT ![o].loading = FALSE], o)
     /\ thr' = [Wake(o) EXCEPT ![t] = Idler]

(* msl_bmap_modeset: BMAPF_WR is tested, and BMAPF_RD asserted, without    *)
(* the lock.                                                               *)
Modeset(t) ==
  LET o == thr[t].b
  IN /\ thr[t].pc = "modeset" /\ UNCHANGED aside
     /\ \/ bmap[o].rw = "wr" /\ Go([bmap EXCEPT ![o].modechng = FALSE], Wake(o), t, o, "held")
        \/ bmap[o].rw = "rd" /\ Go(bmap, thr, t, o, "add")

AddWrite(t) ==
  LET o == thr[t].b
  IN /\ thr[t].pc = "add" /\ UNCHANGED besides
     /\ \/ ~thr[t].nb /\ Go(bmap, thr, t, o, "chwr") /\ UNCHANGED rpc
        \/ thr[t].nb /\ Go(OpStart(bmap, o), thr, t, o, "held") /\ Sent(o, "chwr")
        \/ /\ "fail" \in faults /\ UNCHANGED rpc
           /\ Go([bmap EXCEPT ![o].modechng = FALSE], Wake(o), t, o, "fail")

ChwrReply(t) ==
  LET o == thr[t].b
      h == [bmap EXCEPT ![o].modechng = FALSE]
  IN /\ thr[t].pc = "chwr" /\ UNCHANGED aside
     /\ \/ bmap[o].known /\ Go([h EXCEPT ![o].rw = "wr"], Wake(o), t, o, "held")
        \/ "fail" \in faults /\ Go(h, Wake(o), t, o, "fail")
        \/ ~bmap[o].known /\ Go(h, Wake(o), t, o, "gone")

(* The lease times out on the MDS, or the MDS starts anew. *)
Forget(o) ==
  /\ "enoent" \in faults /\ bmap[o].known
  /\ bmap' = [bmap EXCEPT ![o].known = FALSE]
  /\ UNCHANGED <<thr, aside>>

(* The MDS does not have the lease: _bmap_get retrieves one for writing. *)
Gone(t) ==
  LET o == thr[t].b
  IN /\ thr[t].pc = "gone" /\ UNCHANGED aside
     /\ Go([bmap EXCEPT ![o].loaded = FALSE, ![o].rw = "wr", ![o].loading = TRUE], thr, t, o, "retr")

Fail(t) ==
  /\ thr[t].pc = "fail" /\ UNCHANGED aside
  /\ bmap' = OpDone(bmap, thr[t].b)
  /\ thr' = [Wake(thr[t].b) EXCEPT ![t] = Idler]

(* Mutants: the callback keeps its reference, or forgets BMAPF_LOADING. *)
GetCbKeeps(o) ==
  /\ Answered(o, "get") /\ UNCHANGED besides
  /\ \E h \in {ReapInit(bmap, o)} \cup (IF "fail" \in faults THEN {bmap} ELSE {}) :
       bmap' = [h EXCEPT ![o].loading = FALSE]
  /\ thr' = Wake(o)
ExtCbLoading(o) ==
  /\ Answered(o, "ext") /\ UNCHANGED besides
  /\ bmap' = OpDone([bmap EXCEPT ![o].extreq = FALSE], o)
  /\ thr' = Wake(o)

(* The callbacks of the gets, upgrades and extensions nobody waits for. *)
GetCb(o) ==
  /\ Answered(o, "get") /\ UNCHANGED besides
  /\ \E h \in {ReapInit(bmap, o)} \cup (IF "fail" \in faults THEN {bmap} ELSE {}) :
       bmap' = OpDone([h EXCEPT ![o].loading = FALSE], o)
  /\ thr' = Wake(o)

ChwrCb(o) ==
  /\ Answered(o, "chwr") /\ UNCHANGED besides
  /\ \E rw \in (IF bmap[o].known THEN {"wr"} ELSE {bmap[o].rw})
               \cup (IF "fail" \in faults THEN {bmap[o].rw} ELSE {}) :
       bmap' = OpDone([bmap EXCEPT ![o].rw = rw, ![o].modechng = FALSE], o)
  /\ thr' = Wake(o)

ExtCb(o) ==
  /\ Answered(o, "ext") /\ UNCHANGED besides
  /\ bmap' = OpDone([bmap EXCEPT ![o].extreq = FALSE, ![o].loading = FALSE], o)
  /\ thr' = Wake(o)

-------------------------------------------------------------------------------
(* msl_bmap_lease_extend before an I/O, by a thread that waits for it. *)
Changing(o) == bmap[o].extreq \/ bmap[o].modechng \/ bmap[o].loading
Extending(o) == [bmap EXCEPT ![o].extreq = TRUE, ![o].loading = TRUE]
Extend(t) ==
  LET o == thr[t].b
  IN /\ \/ /\ thr[t].pc = "held" /\ ~thr[t].nb /\ thr[t].kind \in {"rd", "wr"}
           /\ nextends < MaxExtends /\ nextends' = nextends + 1
        \/ thr[t].pc = "ewoken" /\ UNCHANGED nextends
     /\ \/ Changing(o) /\ Go(bmap, thr, t, o, "ewait")
        \/ ~Changing(o) /\ Go(bmap, thr, t, o, "held")
        \/ ~Changing(o) /\ Go(Extending(o), thr, t, o, "ext")
     /\ UNCHANGED <<rpc, watch, inval, ngets, faults>>

ExtReply(t) ==
  LET o == thr[t].b
  IN /\ thr[t].pc = "ext" /\ UNCHANGED aside
     /\ Go([bmap EXCEPT ![o].extreq = FALSE, ![o].loading = FALSE], Wake(o), t, o, "held")

(* The caller of the get is done. *)
Done(t) ==
  /\ thr[t].pc = "held" /\ UNCHANGED aside
  /\ bmap' = OpDone(bmap, thr[t].b)
  /\ thr' = [Wake(thr[t].b) EXCEPT ![t] = Idler]

(* msbwatchthr_main: an extension that is not waited for. *)
WatchMark(o) ==
  /\ bmap[o].timeoq /\ ~bmap[o].tofree /\ ~bmap[o].discard /\ watch[o] = "no"
  /\ nextends < MaxExtends /\ nextends' = nextends + 1
  /\ bmap' = OpStart(bmap, o)
  /\ watch' = [watch EXCEPT ![o] = "marked"]
  /\ UNCHANGED <<thr, rpc, inval, ngets, faults>>

WatchExtend(o) ==
  /\ watch[o] = "marked"
  /\ \/ /\ Changing(o) /\ watch' = [watch EXCEPT ![o] = "sent"] /\ UNCHANGED bmap
     \/ /\ ~Changing(o) /\ watch' = [watch EXCEPT ![o] = "sending"] /\ bmap' = Extending(o)
  /\ UNCHANGED <<thr, rpc, inval, ngets, nextends, faults>>

WatchSend(o) ==
  /\ watch[o] = "sending"
  /\ watch' = [watch EXCEPT ![o] = "sent"]
  /\ \/ Sent(o, "ext") /\ bmap' = OpStart(bmap, o) /\ UNCHANGED thr
     \/ /\ "fail" \in faults /\ thr' = Wake(o) /\ UNCHANGED rpc
        /\ bmap' = [bmap EXCEPT ![o].extreq = FALSE, ![o].loading = FALSE]
  /\ UNCHANGED <<inval, ngets, nextends, faults>>

WatchDone(o) ==
  /\ watch[o] = "sent"
  /\ watch' = [watch EXCEPT ![o] = "no"]
  /\ bmap' = OpDone(bmap, o) /\ thr' = Wake(o)
  /\ UNCHANGED <<rpc, inval, ngets, nextends, faults>>

(* msbreleasethr_main: a bmap that only its own reference keeps, expired   *)
(* or not wanted, is marked, and later let go.                             *)
ReleaseMark(o) ==
  /\ bmap[o].timeoq /\ ~bmap[o].tofree /\ bmap[o].opcnt = 1
  /\ bmap' = [bmap EXCEPT ![o].tofree = TRUE]
  /\ UNCHANGED <<thr, aside>>

Release(o) ==
  /\ bmap[o].timeoq /\ bmap[o].tofree
  /\ bmap' = OpDone([bmap EXCEPT ![o].timeoq = FALSE], o)
  /\ thr' = Wake(o)
  /\ UNCHANGED aside

(* bmap_remove: a discarded bmap is supposed to be out of the tree.  What  *)
(* is left in the pool is what a lookup would see if it is not.            *)
Remove(o) ==
  /\ bmap[o].freeing
  /\ bmap' = [bmap EXCEPT ![o] =
                IF @.discard /\ @.tree THEN [@ EXCEPT !.at = "pool", !.freeing = FALSE]
                ELSE Blank(@.bno, "rd")]
  /\ UNCHANGED <<thr, aside>>

(* slc_fcmh_invalidate_bmap: the bmaps are marked in one pass over the     *)
(* tree and taken out of it in a second one.                               *)
InvalidateMark(o) ==
  /\ "invalidate" \in faults
  /\ bmap[o].tree /\ ~bmap[o].tofree /\ ~bmap[o].discard
  /\ bmap' = [bmap EXCEPT ![o].discard = TRUE]
  /\ inval' = [inval EXCEPT ![o] = @ + 1]
  /\ UNCHANGED <<thr, rpc, watch, ngets, nextends, faults>>

InvalidateRemove(o) ==
  /\ inval[o] > 0
  /\ inval' = [inval EXCEPT ![o] = @ - 1]
  /\ bmap' = [bmap EXCEPT ![o].tree = FALSE]
  /\ UNCHANGED <<thr, rpc, watch, ngets, nextends, faults>>

-------------------------------------------------------------------------------
Run(t) ==
  \/ Hit(t) \/ Miss(t) \/ LoadingWoken(t) \/ ModeWoken(t) \/ Retrieve(t) \/ Got(t) \/ NoGot(t)
  \/ Modeset(t) \/ AddWrite(t) \/ ChwrReply(t) \/ Gone(t) \/ Fail(t) \/ ExtReply(t)
Callback(o) == GetCb(o) \/ ChwrCb(o) \/ ExtCb(o)
Watch(o) == WatchExtend(o) \/ WatchSend(o) \/ WatchDone(o)

Next ==
  \/ \E t \in Thread :
       \/ \E n \in Bno, k \in Kinds, nb \in BOOLEAN : Get(t, n, k, nb)
       \/ Run(t) \/ Alloc(t) \/ Extend(t) \/ Done(t)
  \/ \E o \in Obj : \/ Callback(o) \/ WatchMark(o) \/ Watch(o) \/ ReleaseMark(o) \/ Release(o)
                    \/ Remove(o) \/ Forget(o) \/ InvalidateMark(o) \/ InvalidateRemove(o)

Spec == Init /\ [][Next]_vars

(* Threads run, RPCs end, users let their bmaps go, and leases expire. *)
Fairness ==
  /\ \A t \in Thread :
       WF_vars(Run(t) \/ Alloc(t) \/ (Extend(t) /\ thr[t].pc = "ewoken") \/ Done(t))
  /\ \A o \in Obj :
       /\ WF_vars(Callback(o)) /\ WF_vars(Watch(o)) /\ WF_vars(InvalidateRemove(o))
       /\ WF_vars(ReleaseMark(o) \/ Release(o) \/ Remove(o))
FairSpec == Spec /\ Fairness

-------------------------------------------------------------------------------
Users(o) == {t \in Thread : thr[t].b = o}
Count(p) == IF p THEN 1 ELSE 0

(* bcm_opcnt counts the gets, the callbacks, the watch thread and the      *)
(* release thread that use the bmap, and a bmap that is used is not in the *)
(* pool.  A bmap that is not used is on its way there.                     *)
RefsCounted ==
  \A o \in Obj :
    /\ bmap[o].at # "pool" \/ ~bmap[o].tree =>
         bmap[o].opcnt = Cardinality(Users(o)) + rpc[o]["get"] + rpc[o]["chwr"] + rpc[o]["ext"]
                           + Count(watch[o] # "no") + Count(bmap[o].timeoq)
    /\ bmap[o].opcnt > 0 => bmap[o].at = "cache" /\ ~bmap[o].freeing
    /\ bmap[o].at = "cache" /\ bmap[o].opcnt = 0 => bmap[o].freeing

(* The tree has one bmap of a number, and a bmap is taken out of it that   *)
(* is there: what PSC_RB_XINSERT and PSC_RB_XREMOVE abort on.  A bmap that *)
(* an invalidation has marked may go to the pool before it is taken out.   *)
TreeHolds ==
  "invalidate" \notin faults =>
  /\ \A o, p \in Obj : bmap[o].tree /\ bmap[p].tree /\ bmap[o].bno = bmap[p].bno => o = p
  /\ \A o \in Obj : (bmap[o].freeing /\ ~bmap[o].discard) \/ inval[o] > 0 => bmap[o].tree

InFlight(o) ==
  \/ \E t \in Users(o) : thr[t].pc \in {"retr", "ext"}
  \/ rpc[o]["get"] > 0 \/ rpc[o]["ext"] > 0 \/ watch[o] = "sending"

(* BMAPF_LOADING and BMAPF_MODECHNG are set only while someone is there to *)
(* clear them, so that those who wait for them are woken; and a bmap with  *)
(* a lease is on the queue of the release thread, so that its lease is     *)
(* given back some day.                                                    *)
FlagsOwned ==
  \A o \in Obj :
    /\ bmap[o].at = "cache" =>
       /\ bmap[o].loading => InFlight(o)
       /\ bmap[o].modechng => \/ \E t \in Users(o) : thr[t].pc \in {"modeset", "add", "chwr"}
                              \/ rpc[o]["chwr"] > 0
    /\ bmap[o].loaded /\ ~bmap[o].tofree => bmap[o].timeoq

(* BMAPF_LOADING is set while a retrieval or an extension is in flight: no *)
(* two of them are.                                                        *)
LoadingInFlight == \A o \in Obj : InFlight(o) => bmap[o].loading

(* What msl_bmap_modeset and its callback assert: a bmap that is about to  *)
(* be upgraded, or has just been, is still a read bmap.  Not so after an   *)
(* upgrade has failed because the MDS did not have the lease.              *)
UpgradesRead ==
  "enoent" \notin faults => \A o \in Obj :
    LET At(pc) == \E t \in Users(o) : thr[t].pc = pc
    IN At("add") \/ (bmap[o].known /\ (rpc[o]["chwr"] > 0 \/ At("chwr"))) => bmap[o].rw = "rd"

(* Every get returns, and every bmap goes back to the pool in the end: no  *)
(* wait for BMAPF_LOADING, BMAPF_MODECHNG or a bmap that is going away     *)
(* lasts for ever, and no callback, failed retrieval or extension keeps    *)
(* its reference.                                                          *)
BmapsDrain == <>[](\A t \in Thread, o \in Obj : thr[t].pc = "idle" /\ bmap[o].at = "pool")

Shown(o) == CASE bmap[o].at \in {"pool", "new"} -> "free"
              [] bmap[o].at = "cache" /\ ~bmap[o].tofree /\ ~bmap[o].discard -> "live"
              [] OTHER -> "dying"
RC == INSTANCE RefCache WITH User <- Thread, Key <- Bno,
        state <- [o \in Obj |-> Shown(o)],
        key <- [o \in Obj |-> bmap[o].bno],
        use <- [t \in Thread |-> thr[t].b]

(* The bmap cache keeps the promise of RefCache, unless bmaps are          *)
(* invalidated: one of those may be reused while the tree still has it.    *)
KeepsPromise ==
  RC!RCInit /\ [][RC!RCNext \/ "invalidate" \in faults]_(RC!rcvars)
===============================================================================
