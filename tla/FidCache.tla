------------------------------- MODULE FidCache -------------------------------
(***************************************************************************)
(* The FID cache (share/fidc_common.c): threads look files up by FID, wait *)
(* for a handle that another thread is initialising, use it and let it go, *)
(* while handles that nobody uses are reaped.  A step is what a thread     *)
(* does under a bucket's lock, under a handle's lock, or between two of    *)
(* them.  Every FID has a hash bucket of its own.                          *)
(***************************************************************************)
EXTENDS Naturals, FiniteSets

CONSTANTS Thread, Fid, Obj, NoObj,
          Reopens,      \* whether there is an sfop_reopen (on an I/O server)
          MaxLookups    \* bound: lookups started

ASSUME FidCacheAssumption ==
  /\ IsFiniteSet(Thread) /\ Fid # {} /\ NoObj \notin Obj
  /\ Reopens \in BOOLEAN /\ MaxLookups \in Nat

VARIABLES
  fcmh,     \* the handles: fidc_membh, in use or in the pool
  thr,      \* the threads in or after _fidc_lookup
  freeing,  \* handle -> threads on their way to fcmh_destroy it
  nlookup   \* lookups started so far

vars == <<fcmh, thr, freeing, nlookup>>

(* Where a handle is: in the pool, in the hands of the thread that will    *)
(* insert it, in the hash table, or out of it again.                       *)
Places == {"pool", "new", "hash", "out"}
Idler == [pc |-> "idle", fid |-> CHOOSE x \in Fid : TRUE, mode |-> "find",
          f |-> NoObj, fnew |-> NoObj]
Blank(x) == [at |-> "pool", fid |-> x, refcnt |-> 0, initing |-> FALSE,
             tofree |-> FALSE, idle |-> FALSE]

TypeOK ==
  /\ fcmh \in [Obj -> [at : Places, fid : Fid, refcnt : Nat, initing : BOOLEAN,
                       tofree : BOOLEAN, idle : BOOLEAN]]
  /\ thr \in [Thread -> [pc : {"idle", "scan", "alloc", "ctor", "wait", "woken",
                               "reopen", "held"},
                         fid : Fid, mode : {"find", "create", "excl"},
                         f : Obj \cup {NoObj}, fnew : Obj \cup {NoObj}]]
  /\ freeing \in [Obj -> Nat]
  /\ nlookup \in 0 .. MaxLookups

Init ==
  /\ fcmh = [o \in Obj |-> Blank(Idler.fid)]
  /\ thr = [t \in Thread |-> Idler]
  /\ freeing = [o \in Obj |-> 0]
  /\ nlookup = 0

-------------------------------------------------------------------------------
(* Mutant: the handle stays on the idle list. *)
OpStartIdle(h, o) == [h EXCEPT ![o].refcnt = @ + 1]

(* fcmh_op_start_type: a handle that is used leaves the idle list. *)
OpStart(h, o) == [h EXCEPT ![o].refcnt = @ + 1, ![o].idle = FALSE]

(* Mutant: any reference to a handle marked FCMH_TOFREE frees it. *)
FreesAny(h, o) == IF h[o].tofree THEN [freeing EXCEPT ![o] = @ + 1] ELSE freeing

(* fcmh_op_done_type on a locked handle.  The last reference to a handle   *)
(* marked FCMH_TOFREE frees it, that to another one makes it reapable.     *)
Last(h, o) == h[o].refcnt = 1
OpDone(h, o) ==
  [h EXCEPT ![o].refcnt = @ - 1, ![o].idle = Last(h, o) /\ ~h[o].tofree]
Frees(h, o) == IF Last(h, o) /\ h[o].tofree THEN [freeing EXCEPT ![o] = @ + 1]
               ELSE freeing

(* Mutant: those who wait for the handle are not woken. *)
WakeNone(o) == thr

(* psc_waitq_wakeall on the handle's wait queue. *)
Wake(o) == [t \in Thread |-> IF thr[t].pc = "wait" /\ thr[t].f = o
                             THEN [thr[t] EXCEPT !.pc = "woken"] ELSE thr[t]]

-------------------------------------------------------------------------------
(* A call of _fidc_lookup, for a handle that must exist, may be created,   *)
(* or must not exist (FIDC_LOOKUP_CREATE, FIDC_LOOKUP_EXCL).               *)
Lookup(t, x, mode) ==
  /\ thr[t].pc = "idle" /\ nlookup < MaxLookups
  /\ thr' = [thr EXCEPT ![t] = [Idler EXCEPT !.pc = "scan", !.fid = x, !.mode = mode]]
  /\ nlookup' = nlookup + 1
  /\ UNCHANGED <<fcmh, freeing>>

(* The scan of the bucket skips handles that are being freed. *)
Found(x) == {o \in Obj : fcmh[o].at = "hash" /\ fcmh[o].fid = x /\ ~fcmh[o].tofree}

(* Mutant: the waiter takes no reference. *)
ScanWaitNoRef(t) ==
  /\ thr[t].pc = "scan"
  /\ \E o \in Found(thr[t].fid) :
       /\ fcmh[o].initing
       /\ thr' = [thr EXCEPT ![t].pc = "wait", ![t].f = o]
  /\ UNCHANGED <<fcmh, freeing, nlookup>>

(* A handle that is being initialised: reference it and wait. *)
ScanWait(t) ==
  /\ thr[t].pc = "scan"
  /\ \E o \in Found(thr[t].fid) :
       /\ fcmh[o].initing
       /\ fcmh' = OpStart(fcmh, o)
       /\ thr' = [thr EXCEPT ![t].pc = "wait", ![t].f = o]
  /\ UNCHANGED <<freeing, nlookup>>

(* A hit: the handle allocated in the meantime goes back to the pool.      *)
ReturnNew(h, t) == IF thr[t].fnew = NoObj THEN h ELSE [h EXCEPT ![thr[t].fnew].at = "pool"]

(* Mutant: FCMH_TOFREE is looked at only if the handle is not referenced. *)
ScanHitUsed(t) ==
  /\ thr[t].pc = "scan"
  /\ \E o \in Obj :
       /\ fcmh[o].at = "hash" /\ fcmh[o].fid = thr[t].fid /\ ~fcmh[o].initing
       /\ fcmh[o].tofree => fcmh[o].refcnt > 0
       /\ IF thr[t].mode = "excl"
          THEN /\ fcmh' = ReturnNew(fcmh, t)
               /\ thr' = [thr EXCEPT ![t] = Idler]
          ELSE /\ fcmh' = OpStart(ReturnNew(fcmh, t), o)
               /\ thr' = [thr EXCEPT ![t] = [Idler EXCEPT !.fid = thr[t].fid, !.f = o,
                                       !.pc = IF Reopens THEN "reopen" ELSE "held"]]
  /\ UNCHANGED <<freeing, nlookup>>

ScanHit(t) ==
  /\ thr[t].pc = "scan"
  /\ \E o \in Found(thr[t].fid) :
       /\ ~fcmh[o].initing
       /\ IF thr[t].mode = "excl"
          THEN /\ fcmh' = ReturnNew(fcmh, t)
               /\ thr' = [thr EXCEPT ![t] = Idler]
          ELSE /\ fcmh' = OpStart(ReturnNew(fcmh, t), o)
               /\ thr' = [thr EXCEPT ![t] = [Idler EXCEPT !.fid = thr[t].fid, !.f = o,
                                       !.pc = IF Reopens THEN "reopen" ELSE "held"]]
  /\ UNCHANGED <<freeing, nlookup>>

(* sfop_reopen, which may let the handle's lock go; if it fails the handle *)
(* is to be freed, whoever else uses it.                                   *)
ReopenOk(t) ==
  /\ thr[t].pc = "reopen"
  /\ thr' = [thr EXCEPT ![t].pc = "held"]
  /\ UNCHANGED <<fcmh, freeing, nlookup>>

ReopenFail(t) ==
  LET o == thr[t].f
      h == [fcmh EXCEPT ![o].tofree = TRUE]
  IN /\ thr[t].pc = "reopen"
     /\ fcmh' = OpDone(h, o)
     /\ freeing' = Frees(h, o)
     /\ thr' = [Wake(o) EXCEPT ![t] = Idler]
     /\ UNCHANGED nlookup

(* A miss: give up, allocate a handle and look again, or insert it. *)
ScanMiss(t) ==
  /\ thr[t].pc = "scan" /\ Found(thr[t].fid) = {}
  /\ \/ /\ thr[t].mode = "find"
        /\ thr' = [thr EXCEPT ![t] = Idler]
        /\ UNCHANGED fcmh
     \/ /\ thr[t].mode # "find" /\ thr[t].fnew = NoObj
        /\ thr' = [thr EXCEPT ![t].pc = "alloc"]
        /\ UNCHANGED fcmh
     \/ /\ thr[t].mode # "find" /\ thr[t].fnew # NoObj
        /\ fcmh' = [fcmh EXCEPT ![thr[t].fnew] =
                      [Blank(thr[t].fid) EXCEPT !.at = "hash", !.refcnt = 1, !.initing = TRUE]]
        /\ thr' = [thr EXCEPT ![t].pc = "ctor", ![t].f = thr[t].fnew, ![t].fnew = NoObj]
  /\ UNCHANGED <<freeing, nlookup>>

(* psc_pool_get. *)
Alloc(t) ==
  /\ thr[t].pc = "alloc"
  /\ \E o \in Obj :
       /\ fcmh[o].at = "pool"
       /\ fcmh' = [fcmh EXCEPT ![o].at = "new"]
       /\ thr' = [thr EXCEPT ![t].pc = "scan", ![t].fnew = o]
  /\ UNCHANGED <<freeing, nlookup>>

(* The constructor, and the attributes if asked for; then the handle is    *)
(* open to all, or to be freed by the last of those who wait for it.       *)
CtorOk(t) ==
  LET o == thr[t].f
  IN /\ thr[t].pc = "ctor"
     /\ fcmh' = OpDone(OpStart([fcmh EXCEPT ![o].initing = FALSE], o), o)
     /\ thr' = [Wake(o) EXCEPT ![t].pc = "held"]
     /\ UNCHANGED <<freeing, nlookup>>

CtorFail(t) ==
  LET o == thr[t].f
      h == [fcmh EXCEPT ![o].initing = FALSE, ![o].tofree = TRUE]
  IN /\ thr[t].pc = "ctor"
     /\ fcmh' = OpDone(h, o)
     /\ freeing' = Frees(h, o)
     /\ thr' = [Wake(o) EXCEPT ![t] = Idler]
     /\ UNCHANGED nlookup

(* A thread that has waited drops its reference and looks again. *)
Woken(t) ==
  LET o == thr[t].f
  IN /\ thr[t].pc = "woken"
     /\ fcmh' = OpDone(fcmh, o)
     /\ freeing' = Frees(fcmh, o)
     /\ thr' = [Wake(o) EXCEPT ![t].pc = "scan", ![t].f = NoObj]
     /\ UNCHANGED nlookup

(* The caller of a lookup is done with the handle. *)
Done(t) ==
  LET o == thr[t].f
  IN /\ thr[t].pc = "held"
     /\ fcmh' = OpDone(fcmh, o)
     /\ freeing' = Frees(fcmh, o)
     /\ thr' = [Wake(o) EXCEPT ![t] = Idler]
     /\ UNCHANGED nlookup

(* fidc_reap, for one handle of the idle list. *)
Reap(o) ==
  /\ fcmh[o].idle
  /\ fcmh' = [fcmh EXCEPT ![o].tofree = TRUE, ![o].idle = FALSE]
  /\ freeing' = [freeing EXCEPT ![o] = @ + 1]
  /\ UNCHANGED <<thr, nlookup>>

(* psc_hashent_remove, and fcmh_destroy, by a thread that frees the handle. *)
HashRemove(o) ==
  /\ freeing[o] > 0 /\ fcmh[o].at = "hash"
  /\ fcmh' = [fcmh EXCEPT ![o].at = "out"]
  /\ UNCHANGED <<thr, freeing, nlookup>>

Destroy(o) ==
  /\ freeing[o] > 0 /\ fcmh[o].at = "out"
  /\ fcmh' = [fcmh EXCEPT ![o] = Blank(fcmh[o].fid)]
  /\ freeing' = [freeing EXCEPT ![o] = @ - 1]
  /\ UNCHANGED <<thr, nlookup>>

-------------------------------------------------------------------------------
Scan(t) == ScanWait(t) \/ ScanHit(t) \/ ScanMiss(t)
Reopen(t) == ReopenOk(t) \/ ReopenFail(t)
Ctor(t) == CtorOk(t) \/ CtorFail(t)
Free(o) == HashRemove(o) \/ Destroy(o)

Next ==
  \/ \E t \in Thread :
       \/ \E x \in Fid, mode \in {"find", "create", "excl"} : Lookup(t, x, mode)
       \/ Scan(t) \/ Reopen(t) \/ Alloc(t) \/ Ctor(t) \/ Woken(t) \/ Done(t)
  \/ \E o \in Obj : Reap(o) \/ Free(o)

Spec == Init /\ [][Next]_vars

(* Threads run, constructors end, users let their handles go, and memory   *)
(* pressure has the idle handles reaped.                                   *)
Fairness ==
  /\ \A t \in Thread : /\ WF_vars(Scan(t) \/ Reopen(t) \/ Ctor(t) \/ Woken(t) \/ Done(t))
                       /\ SF_vars(Alloc(t))
  /\ \A o \in Obj : WF_vars(Reap(o)) /\ WF_vars(Free(o))
FairSpec == Spec /\ Fairness

-------------------------------------------------------------------------------
(* The users of a handle: those that hold, initialise or wait for it. *)
Users(o) == {t \in Thread : thr[t].f = o}

(* fcmh_refcnt counts the threads that use the handle, and a handle that   *)
(* is used is in the hash table: no lookup, failed initialisation, failed  *)
(* reopen or reaper frees it under them.                                   *)
RefsCounted ==
  \A o \in Obj : /\ fcmh[o].refcnt = Cardinality(Users(o))
                 /\ Users(o) # {} => fcmh[o].at = "hash"

(* What fcmh_destroy asserts, and more: one thread only frees a handle,    *)
(* nobody uses it or waits for it, and it is on no list.                   *)
FreedOnce ==
  \A o \in Obj : freeing[o] > 0 =>
    /\ freeing[o] = 1 /\ fcmh[o].tofree /\ ~fcmh[o].idle
    /\ Users(o) = {} /\ \A t \in Thread : thr[t].fnew # o

(* Two handles for a FID are never both found, however the insertions of   *)
(* two threads, the reaper and failures interleave.                        *)
OneFound == \A x \in Fid : \A o, p \in Found(x) : o = p

(* The idle list holds the unused handles and no other: fidc_reap asserts  *)
(* that they have no references, and no unused handle is forgotten.        *)
IdleExact ==
  \A o \in Obj : fcmh[o].idle <=>
    fcmh[o].at = "hash" /\ fcmh[o].refcnt = 0 /\ ~fcmh[o].tofree

(* Every lookup returns: nobody sleeps on a handle for ever, and a handle  *)
(* that is being freed does not keep a lookup from making progress.  Once  *)
(* no lookup is started any more and the handles have been given up, all   *)
(* of them are back in the pool.                                           *)
LookupsEnd == <>[](\A t \in Thread, o \in Obj : thr[t].pc = "idle" /\ fcmh[o].at = "pool")

Shown(o) == CASE fcmh[o].at \in {"pool", "new"} -> "free"
              [] fcmh[o].at = "hash" /\ ~fcmh[o].tofree -> "live"
              [] OTHER -> "dying"
ShownState == [o \in Obj |-> Shown(o)]
ShownKey == [o \in Obj |-> fcmh[o].fid]
ShownUse == [t \in Thread |-> thr[t].f]
RC == INSTANCE RefCache WITH User <- Thread, Key <- Fid,
        state <- ShownState, key <- ShownKey, use <- ShownUse

(* The cache keeps the promise of RefCache.  A thread uses a handle from   *)
(* its insertion or its hit on, waiting for it included.                   *)
KeepsPromise == RC!RCSpec
===============================================================================
