---------------------------- MODULE FidCacheProofs ----------------------------
(***************************************************************************)
(* The FID cache is safe, and implements RefCache, whatever the number of  *)
(* threads, files and handles.  To the safety properties the inductive     *)
(* invariant adds Links, which ties a thread to the handles it has in      *)
(* hand: the one it uses and the one it has allocated.                     *)
(***************************************************************************)
EXTENDS FidCache, FiniteSetTheorems, TLAPS

Using == {"ctor", "wait", "woken", "reopen", "held"}

Links ==
  /\ \A t \in Thread : thr[t].f # NoObj <=> thr[t].pc \in Using
  /\ \A t \in Thread : thr[t].fnew # NoObj => fcmh[thr[t].fnew].at = "new"
  /\ \A t, u \in Thread : thr[t].fnew # NoObj /\ thr[t].fnew = thr[u].fnew => t = u
  /\ \A o \in Obj : fcmh[o].at \in {"pool", "new"} => freeing[o] = 0

IInv == TypeOK /\ RefsCounted /\ FreedOnce /\ OneFound /\ IdleExact /\ Links

-------------------------------------------------------------------------------
(* The users of handle o when the threads are th. *)
Uses(th, o) == {t \in Thread : th[t].f = o}

LEMMA UsesFinite == \A th, o : IsFiniteSet(Uses(th, o)) /\ Cardinality(Uses(th, o)) \in Nat
<1> TAKE th, o
<1>1. IsFiniteSet(Uses(th, o))
  BY Zenon, FS_Subset, FidCacheAssumption DEF Uses
<1>. QED
  BY Zenon, <1>1, FS_CardinalityType

(* A thread that takes a handle is one user more of that one. *)
LEMMA UsesAdd ==
  ASSUME NEW th, NEW th2, NEW t \in Thread, NEW o \in Obj,
         th[t].f = NoObj, th2[t].f = o,
         \A u \in Thread \ {t} : th2[u].f = th[u].f
  PROVE  /\ Cardinality(Uses(th2, o)) = Cardinality(Uses(th, o)) + 1
         /\ Uses(th2, o) # {}
         /\ \A p \in Obj \ {o} : Uses(th2, p) = Uses(th, p)
<1>1. t \notin Uses(th, o) /\ Uses(th2, o) = Uses(th, o) \cup {t}
  BY Zenon, FidCacheAssumption DEF Uses
<1>2. Cardinality(Uses(th2, o)) = Cardinality(Uses(th, o)) + 1
  BY ZenonT(30), <1>1, UsesFinite, FS_AddElement
<1>3. \A p \in Obj \ {o} : Uses(th2, p) = Uses(th, p)
  BY Zenon, FidCacheAssumption DEF Uses
<1>. QED
  BY Zenon, <1>1, <1>2, <1>3

(* A thread that lets its handle go is one user less of that one. *)
LEMMA UsesDel ==
  ASSUME NEW th, NEW th2, NEW t \in Thread, NEW o \in Obj,
         th[t].f = o, th2[t].f = NoObj,
         \A u \in Thread \ {t} : th2[u].f = th[u].f
  PROVE  /\ Cardinality(Uses(th2, o)) = Cardinality(Uses(th, o)) - 1
         /\ Cardinality(Uses(th2, o)) \in Nat
         /\ Uses(th2, o) \subseteq Uses(th, o) /\ t \in Uses(th, o)
         /\ (Cardinality(Uses(th2, o)) = 0 <=> Uses(th2, o) = {})
         /\ \A p \in Obj \ {o} : Uses(th2, p) = Uses(th, p)
<1>1. t \in Uses(th, o) /\ Uses(th2, o) = Uses(th, o) \ {t}
  BY Zenon, FidCacheAssumption DEF Uses
<1>2. Cardinality(Uses(th2, o)) = Cardinality(Uses(th, o)) - 1
  <2>1. Cardinality(Uses(th, o) \ {t}) = Cardinality(Uses(th, o)) - 1
    BY <1>1, UsesFinite, FS_RemoveElement, ZenonT(30)
  <2>. QED
    BY Zenon, <1>1, <2>1
<1>3. \A p \in Obj \ {o} : Uses(th2, p) = Uses(th, p)
  BY Zenon, FidCacheAssumption DEF Uses
<1>4. Cardinality(Uses(th2, o)) = 0 <=> Uses(th2, o) = {}
  BY Zenon, UsesFinite, FS_EmptySet
<1>. QED
  BY ZenonT(30), <1>1, <1>2, <1>3, <1>4, UsesFinite

(* Otherwise the handles keep their users. *)
LEMMA UsesSame ==
  ASSUME NEW th, NEW th2, \A u \in Thread : th2[u].f = th[u].f
  PROVE  \A o : Uses(th2, o) = Uses(th, o)
  BY Zenon DEF Uses

LEMMA UsersUses ==
  /\ \A o \in Obj : Users(o) = Uses(thr, o)
  /\ (\A o \in Obj : Users(o) = Uses(thr, o))'
  BY Zenon DEF Users, Uses

LEMMA InitIInv == Init => IInv
<1> SUFFICES ASSUME Init PROVE IInv
  BY Zenon
<1> USE FidCacheAssumption DEF Init, Idler, Blank, Places
<1>0. (CHOOSE x \in Fid : TRUE) \in Fid
  BY Zenon
<1>1. TypeOK
  BY <1>0 DEF TypeOK
<1>2. \A o \in Obj : Users(o) = {}
  BY Zenon DEF Users
<1>3. RefsCounted
  BY ZenonT(30), <1>2, FS_EmptySet DEF RefsCounted
<1>4. FreedOnce /\ OneFound /\ IdleExact
  BY DEF FreedOnce, OneFound, Found, IdleExact
<1>5. Links
  BY Zenon DEF Links, Using
<1>. QED
  BY Zenon, <1>1, <1>3, <1>4, <1>5 DEF IInv

-------------------------------------------------------------------------------
ThreadRec == [pc : {"idle", "scan", "alloc", "ctor", "wait", "woken", "reopen", "held"},
              fid : Fid, mode : {"find", "create", "excl"},
              f : Obj \cup {NoObj}, fnew : Obj \cup {NoObj}]
FcmhRec == [at : Places, fid : Fid, refcnt : Nat, initing : BOOLEAN,
            tofree : BOOLEAN, idle : BOOLEAN]

RecsOK == /\ fcmh \in [Obj -> FcmhRec] /\ thr \in [Thread -> ThreadRec]
          /\ freeing \in [Obj -> Nat] /\ nlookup \in 0 .. MaxLookups

LEMMA TypeOKRecs == (TypeOK <=> RecsOK) /\ (TypeOK' <=> RecsOK')
  BY Zenon DEF TypeOK, RecsOK, ThreadRec, FcmhRec

LEMMA IdlerFields ==
  Idler \in ThreadRec /\ Idler.pc = "idle" /\ Idler.f = NoObj /\ Idler.fnew = NoObj
<1> DEFINE c == CHOOSE x \in Fid : TRUE
<1>1. c \in Fid
  BY Zenon, FidCacheAssumption
<1>2. Idler = [pc |-> "idle", fid |-> c, mode |-> "find", f |-> NoObj, fnew |-> NoObj]
  BY Zenon DEF Idler
<1> HIDE DEF c
<1>. QED
  BY Zenon, <1>1, <1>2 DEF ThreadRec

-------------------------------------------------------------------------------
(* A step of FidCache as RefCache sees it. *)
Promised == [RC!RCNext]_(RC!rcvars)
Kept == IInv' /\ Promised
SameUse(u) == thr'[u].f = thr[u].f
SameObj(p) == Shown(p)' = Shown(p) /\ fcmh'[p].fid = fcmh[p].fid

LEMMA RefStutter ==
  ASSUME \A u \in Thread : SameUse(u), \A p \in Obj : SameObj(p)
  PROVE  Promised
  BY Zenon DEF Promised, RC!rcvars, SameUse, SameObj,
                     ShownState, ShownKey, ShownUse

LEMMA RefAcquire ==
  ASSUME NEW t \in Thread, NEW o \in Obj, thr[t].f = NoObj, thr'[t].f = o,
         \A u \in Thread \ {t} : SameUse(u), \A p \in Obj : SameObj(p), Shown(o) = "live"
  PROVE  Promised
<1>1. RC!Acquire(t, o)
  BY ZenonT(30) DEF RC!Acquire, SameUse, SameObj,
                     ShownState, ShownKey, ShownUse
<1>. QED
  BY Zenon, <1>1 DEF Promised, RC!RCNext

LEMMA RefCreate ==
  ASSUME NEW t \in Thread, NEW o \in Obj, NEW x \in Fid, thr[t].f = NoObj, thr'[t].f = o,
         \A u \in Thread \ {t} : SameUse(u), \A p \in Obj \ {o} : SameObj(p),
         Shown(o) = "free", Shown(o)' = "live", fcmh'[o].fid = x,
         \A p \in Obj : Shown(p) = "live" => fcmh[p].fid # x
  PROVE  Promised
<1>1. RC!Create(t, x, o)
  BY ZenonT(30) DEF RC!Create, RC!Live, SameUse, SameObj,
                     ShownState, ShownKey, ShownUse
<1>. QED
  BY Zenon, <1>1 DEF Promised, RC!RCNext

LEMMA RefDrop ==
  ASSUME NEW t \in Thread, NEW o \in Obj, thr[t].f = o, thr'[t].f = NoObj,
         \A u \in Thread \ {t} : SameUse(u), \A p \in Obj \ {o} : SameObj(p),
         fcmh'[o].fid = fcmh[o].fid, Shown(o)' \in {Shown(o), "dying"}
  PROVE  Promised
<1>1. RC!Drop(t)
  <2>1. [p \in Obj |-> Shown(p)'] \in {[p \in Obj |-> Shown(p)],
                                       [[p \in Obj |-> Shown(p)] EXCEPT ![thr[t].f] = "dying"]}
    BY ZenonT(30) DEF SameObj
  <2>. QED
    BY ZenonT(30), <2>1, FidCacheAssumption DEF RC!Drop, SameUse, SameObj,
                     ShownState, ShownKey, ShownUse
<1>. QED
  BY Zenon, <1>1 DEF Promised, RC!RCNext

LEMMA RefDoom ==
  ASSUME NEW o \in Obj, \A u \in Thread : SameUse(u), \A p \in Obj \ {o} : SameObj(p),
         fcmh'[o].fid = fcmh[o].fid, Shown(o) = "live", Shown(o)' = "dying"
  PROVE  Promised
<1>1. RC!Doom(o)
  BY ZenonT(30) DEF RC!Doom, SameUse, SameObj,
                     ShownState, ShownKey, ShownUse
<1>. QED
  BY Zenon, <1>1 DEF Promised, RC!RCNext

LEMMA RefDestroy ==
  ASSUME NEW o \in Obj, \A u \in Thread : SameUse(u) /\ thr[u].f # o,
         \A p \in Obj \ {o} : SameObj(p),
         fcmh'[o].fid = fcmh[o].fid, Shown(o) = "dying", Shown(o)' = "free"
  PROVE  Promised
<1>1. RC!Destroy(o)
  BY ZenonT(30) DEF RC!Destroy, SameUse, SameObj,
                     ShownState, ShownKey, ShownUse
<1>. QED
  BY Zenon, <1>1 DEF Promised, RC!RCNext

-------------------------------------------------------------------------------
(* What fcmh_op_start_type and fcmh_op_done_type do to a handle. *)
LEMMA OpStartFields ==
  ASSUME NEW h \in [Obj -> FcmhRec], NEW o \in Obj
  PROVE  /\ OpStart(h, o) \in [Obj -> FcmhRec]
         /\ OpStart(h, o)[o].at = h[o].at /\ OpStart(h, o)[o].fid = h[o].fid
         /\ OpStart(h, o)[o].refcnt = h[o].refcnt + 1
         /\ OpStart(h, o)[o].tofree = h[o].tofree /\ ~OpStart(h, o)[o].idle
         /\ \A p \in Obj \ {o} : OpStart(h, o)[p] = h[p]
<1> DEFINE r == [h[o] EXCEPT !.refcnt = h[o].refcnt + 1, !.idle = FALSE]
<1>1. h[o] \in FcmhRec /\ h[o].refcnt + 1 \in Nat
  BY DEF FcmhRec
<1>2. /\ r \in FcmhRec /\ r.at = h[o].at /\ r.fid = h[o].fid /\ r.refcnt = h[o].refcnt + 1
      /\ r.tofree = h[o].tofree /\ ~r.idle
  BY ZenonT(30), <1>1 DEF FcmhRec
<1>3. OpStart(h, o) = [h EXCEPT ![o] = r]
  BY ZenonT(30) DEF OpStart
<1> HIDE DEF r
<1>. QED
  BY Zenon, <1>2, <1>3

LEMMA OpDoneFields ==
  ASSUME NEW h \in [Obj -> FcmhRec], NEW o \in Obj, h[o].refcnt > 0
  PROVE  /\ OpDone(h, o) \in [Obj -> FcmhRec]
         /\ OpDone(h, o)[o].at = h[o].at /\ OpDone(h, o)[o].fid = h[o].fid
         /\ OpDone(h, o)[o].refcnt = h[o].refcnt - 1
         /\ OpDone(h, o)[o].tofree = h[o].tofree
         /\ OpDone(h, o)[o].idle = (h[o].refcnt = 1 /\ ~h[o].tofree)
         /\ \A p \in Obj \ {o} : OpDone(h, o)[p] = h[p]
<1> DEFINE r == [h[o] EXCEPT !.refcnt = h[o].refcnt - 1,
                             !.idle = h[o].refcnt = 1 /\ ~h[o].tofree]
<1>1. h[o] \in FcmhRec /\ h[o].refcnt - 1 \in Nat
  BY DEF FcmhRec
<1>2. /\ r \in FcmhRec /\ r.at = h[o].at /\ r.fid = h[o].fid /\ r.refcnt = h[o].refcnt - 1
      /\ r.tofree = h[o].tofree /\ r.idle = (h[o].refcnt = 1 /\ ~h[o].tofree)
  BY ZenonT(30), <1>1 DEF FcmhRec
<1>3. OpDone(h, o) = [h EXCEPT ![o] = r]
  BY ZenonT(30) DEF OpDone, Last
<1> HIDE DEF r
<1>. QED
  BY Zenon, <1>2, <1>3

(* A step that leaves the handles alone, and the handle of every thread. *)
LEMMA StepQuiet ==
  ASSUME IInv, TypeOK', UNCHANGED <<fcmh, freeing>>,
         \A u \in Thread : thr'[u].f = thr[u].f /\ thr'[u].fnew \in {thr[u].fnew, NoObj}
                           /\ (thr'[u].pc \in Using <=> thr[u].pc \in Using)
  PROVE  Kept
<1> USE DEF IInv
<1>1. \A o \in Obj : Users(o)' = Users(o)
  BY UsesSame, UsersUses
<1>2. RefsCounted'
  BY Zenon, <1>1 DEF RefsCounted
<1>3. FreedOnce'
  BY <1>1, FidCacheAssumption DEF FreedOnce
<1>4. OneFound' /\ IdleExact'
  BY DEF OneFound, Found, IdleExact
<1>5. Links'
  BY FidCacheAssumption DEF Links
<1>6. Promised
  BY Zenon, RefStutter DEF SameUse, SameObj, Shown
<1>. QED
  BY Zenon, <1>2, <1>3, <1>4, <1>5, <1>6 DEF Kept

LEMMA StepLookup ==
  ASSUME IInv, NEW t \in Thread, NEW x \in Fid, NEW mode \in {"find", "create", "excl"},
         Lookup(t, x, mode)
  PROVE  Kept
<1> DEFINE r == [Idler EXCEPT !.pc = "scan", !.fid = x, !.mode = mode]
<1>1. r \in ThreadRec /\ r.pc = "scan" /\ r.f = NoObj /\ r.fnew = NoObj
  BY ZenonT(30), IdlerFields DEF ThreadRec
<1>2. thr' = [thr EXCEPT ![t] = r]
  BY Zenon DEF Lookup
<1> HIDE DEF r
<1>3. TypeOK'
  <2>1. nlookup' \in 0 .. MaxLookups
    BY FidCacheAssumption DEF Lookup, IInv, TypeOK
  <2>. QED
    BY Zenon, <1>1, <1>2, <2>1, TypeOKRecs DEF Lookup, IInv, RecsOK
<1>4. thr[t].f = NoObj /\ thr[t].pc \notin Using
  BY Zenon DEF IInv, Links, Using, Lookup
<1>5. \A u \in Thread : thr'[u].f = thr[u].f /\ thr'[u].fnew \in {thr[u].fnew, NoObj}
                        /\ (thr'[u].pc \in Using <=> thr[u].pc \in Using)
  BY Zenon, <1>1, <1>2, <1>4 DEF Using, IInv, TypeOK
<1>. QED
  BY Zenon, <1>3, <1>5, StepQuiet DEF Lookup

(* The handle a thread has allocated is used by nobody. *)
LEMMA FnewUnused ==
  ASSUME IInv, NEW t \in Thread, thr[t].fnew # NoObj
  PROVE  /\ thr[t].fnew \in Obj /\ Users(thr[t].fnew) = {}
         /\ freeing[thr[t].fnew] = 0 /\ fcmh[thr[t].fnew].at = "new"
  BY DEF IInv, TypeOK, Links, RefsCounted

(* What most steps leave of a handle. *)
Alike(p) == /\ fcmh'[p].fid = fcmh[p].fid /\ fcmh'[p].refcnt = fcmh[p].refcnt
            /\ fcmh'[p].tofree = fcmh[p].tofree /\ fcmh'[p].idle = fcmh[p].idle

(* The handle that a thread has allocated and gives back, if it does. *)
Returned(p, t) == thr[t].fnew = p /\ thr'[t].fnew = NoObj

(* A thread takes a handle that it has found. *)
LEMMA StepTake ==
  ASSUME IInv, TypeOK', NEW t \in Thread, NEW o \in Obj,
         thr[t].f = NoObj, fcmh[o].at = "hash", ~fcmh[o].tofree,
         thr'[t].f = o, thr'[t].pc \in Using, thr'[t].fnew \in {thr[t].fnew, NoObj},
         \A u \in Thread \ {t} : thr'[u] = thr[u],
         fcmh'[o].at = "hash", fcmh'[o].fid = fcmh[o].fid,
         fcmh'[o].refcnt = fcmh[o].refcnt + 1, ~fcmh'[o].tofree, ~fcmh'[o].idle,
         \A p \in Obj \ {o} :
            Alike(p) /\ fcmh'[p].at = IF Returned(p, t) THEN "pool" ELSE fcmh[p].at,
         UNCHANGED freeing
  PROVE  Kept
<1> USE FidCacheAssumption DEF IInv
<1>1. thr[t].fnew # NoObj => /\ thr[t].fnew \in Obj /\ Users(thr[t].fnew) = {}
                             /\ freeing[thr[t].fnew] = 0 /\ fcmh[thr[t].fnew].at = "new"
  BY Zenon, FnewUnused
<1>2. \A p \in Obj : fcmh'[p].at # fcmh[p].at =>
        fcmh[p].at = "new" /\ fcmh'[p].at = "pool" /\ Users(p) = {} /\ freeing[p] = 0
        /\ p # o /\ thr[t].fnew = p /\ thr'[t].fnew = NoObj
  BY <1>1 DEF Returned
<1>4. /\ Cardinality(Users(o)') = Cardinality(Users(o)) + 1
      /\ Users(o)' # {}
      /\ \A p \in Obj \ {o} : Users(p)' = Users(p)
  BY UsesAdd, UsersUses
<1>5. freeing[o] = 0
  BY DEF FreedOnce, TypeOK
<1>6. RefsCounted'
  BY <1>2, <1>4 DEF RefsCounted, Alike
<1>7. FreedOnce'
  <2> SUFFICES ASSUME NEW p \in Obj, freeing[p] > 0
               PROVE  /\ freeing[p] = 1 /\ fcmh'[p].tofree /\ ~fcmh'[p].idle
                      /\ Users(p)' = {} /\ \A u \in Thread : thr'[u].fnew # p
    BY Zenon DEF FreedOnce
  <2>1. p # o
    BY <1>5
  <2>2. freeing[p] = 1 /\ fcmh[p].tofree /\ ~fcmh[p].idle /\ Users(p) = {}
        /\ \A u \in Thread : thr[u].fnew # p
    BY Zenon DEF FreedOnce
  <2>. QED
    BY <1>4, <2>1, <2>2 DEF Alike
<1>8. OneFound'
  <2>1. \A x \in Fid : Found(x)' \subseteq Found(x)
    BY <1>2 DEF Found, Alike
  <2>. QED
    BY <2>1 DEF OneFound
<1>9. IdleExact'
  <2>1. \A p \in Obj \ {o} : fcmh'[p].idle <=>
          fcmh'[p].at = "hash" /\ fcmh'[p].refcnt = 0 /\ ~fcmh'[p].tofree
    BY <1>2 DEF IdleExact, Alike
  <2>2. fcmh'[o].refcnt # 0
    BY SMTT(30) DEF TypeOK
  <2>. QED
    BY Zenon, <2>1, <2>2 DEF IdleExact
<1>10. Links'
  <2>1. \A u \in Thread : thr'[u].f # NoObj <=> thr'[u].pc \in Using
    BY DEF Links
  <2>2. \A u \in Thread : thr'[u].fnew # NoObj => thr'[u].fnew = thr[u].fnew
    BY Zenon
  <2>3. \A u \in Thread : thr'[u].fnew # NoObj => fcmh'[thr'[u].fnew].at = "new"
    BY <1>2, <2>2 DEF Links, TypeOK
  <2>4. \A p \in Obj : fcmh'[p].at \in {"pool", "new"} => freeing[p] = 0
    BY <1>2, <1>5 DEF Links
  <2>. QED
    BY SMTT(30), <2>1, <2>2, <2>3, <2>4 DEF Links
<1>11. Promised
  <2>1. \A p \in Obj : SameObj(p)
    BY <1>2 DEF SameObj, Shown, Alike
  <2>2. Shown(o) = "live"
    BY Zenon DEF Shown
  <2>. QED
    BY Zenon, <2>1, <2>2, RefAcquire DEF SameUse
<1>. QED
  BY Zenon, <1>6, <1>7, <1>8, <1>9, <1>10, <1>11 DEF Kept

(* A thread gives the handle back that it has allocated, if any. *)
LEMMA StepReturn ==
  ASSUME IInv, TypeOK', NEW t \in Thread, thr'[t].fnew = NoObj,
         \A u \in Thread \ {t} : thr'[u] = thr[u],
         \A u \in Thread : thr'[u].f = thr[u].f /\ (thr'[u].pc \in Using <=> thr[u].pc \in Using),
         \A p \in Obj : Alike(p) /\ fcmh'[p].at = IF thr[t].fnew = p THEN "pool" ELSE fcmh[p].at,
         UNCHANGED freeing
  PROVE  Kept
<1> USE FidCacheAssumption DEF IInv
<1>1. \A p \in Obj : thr[t].fnew = p =>
        Users(p) = {} /\ freeing[p] = 0 /\ fcmh[p].at = "new"
  BY FnewUnused
<1>2. \A p \in Obj : fcmh'[p].at # fcmh[p].at =>
        thr[t].fnew = p /\ fcmh[p].at = "new" /\ fcmh'[p].at = "pool" /\ Users(p) = {} /\ freeing[p] = 0
  BY Zenon, <1>1
<1>3. \A o \in Obj : Users(o)' = Users(o)
  BY UsesSame, UsersUses
<1>4. RefsCounted'
  BY <1>2, <1>3 DEF RefsCounted, Alike
<1>5. FreedOnce'
  BY <1>3 DEF FreedOnce, Alike
<1>6. OneFound'
  <2>1. \A x \in Fid : Found(x)' \subseteq Found(x)
    BY Zenon, <1>2 DEF Found, Alike
  <2>. QED
    BY <2>1 DEF OneFound
<1>7. IdleExact'
  BY <1>2 DEF IdleExact, Alike
<1>8. Links'
  <2>1. \A u \in Thread : thr'[u].f # NoObj <=> thr'[u].pc \in Using
    BY Zenon DEF Links
  <2>2. \A u \in Thread : thr'[u].fnew # NoObj => u # t /\ thr'[u].fnew = thr[u].fnew
    BY Zenon
  <2>3. \A u \in Thread : thr'[u].fnew # NoObj => fcmh'[thr'[u].fnew].at = "new"
    BY <1>2, <2>2 DEF Links, TypeOK
  <2>4. \A p \in Obj : fcmh'[p].at \in {"pool", "new"} => freeing[p] = 0
    BY Zenon, <1>2 DEF Links
  <2>. QED
    BY <2>1, <2>2, <2>3, <2>4 DEF Links
<1>9. Promised
  <2>1. \A p \in Obj : SameObj(p)
    BY <1>2 DEF SameObj, Shown, Alike
  <2>. QED
    BY Zenon, <2>1, RefStutter DEF SameUse
<1>. QED
  BY Zenon, <1>4, <1>5, <1>6, <1>7, <1>8, <1>9 DEF Kept

(* A thread lets its handle go, which it may have marked FCMH_TOFREE. *)
LEMMA StepDrop ==
  ASSUME IInv, TypeOK', NEW t \in Thread, NEW o \in Obj,
         thr[t].f = o, thr'[t].f = NoObj, thr'[t].pc \notin Using,
         thr'[t].fnew \in {thr[t].fnew, NoObj},
         \A u \in Thread \ {t} : /\ thr'[u].f = thr[u].f /\ thr'[u].fnew = thr[u].fnew
                                 /\ (thr'[u].pc \in Using <=> thr[u].pc \in Using),
         fcmh'[o].at = fcmh[o].at, fcmh'[o].fid = fcmh[o].fid,
         fcmh'[o].refcnt = fcmh[o].refcnt - 1,
         fcmh[o].tofree => fcmh'[o].tofree,
         fcmh'[o].idle <=> fcmh[o].refcnt = 1 /\ ~fcmh'[o].tofree,
         \A p \in Obj \ {o} : fcmh'[p] = fcmh[p],
         freeing' = IF fcmh[o].refcnt = 1 /\ fcmh'[o].tofree
                    THEN [freeing EXCEPT ![o] = @ + 1] ELSE freeing
  PROVE  Kept
<1> USE FidCacheAssumption DEF IInv
<1>1. /\ Cardinality(Users(o)') = Cardinality(Users(o)) - 1
      /\ Cardinality(Users(o)') \in Nat
      /\ (Cardinality(Users(o)') = 0 <=> Users(o)' = {})
      /\ t \in Users(o)
      /\ \A p \in Obj \ {o} : Users(p)' = Users(p)
  BY UsesDel, UsersUses
<1>2. fcmh[o].at = "hash" /\ fcmh[o].refcnt = Cardinality(Users(o)) /\ fcmh[o].refcnt \in Nat
  BY Zenon, <1>1 DEF RefsCounted, TypeOK
<1>3. freeing[o] = 0
  BY <1>1 DEF FreedOnce, TypeOK
<1>4. \A u \in Thread : thr[u].fnew # o
  BY <1>2 DEF Links
<1>5. RefsCounted'
  BY <1>1, <1>2 DEF RefsCounted
<1>6. FreedOnce'
  <2> SUFFICES ASSUME NEW p \in Obj, freeing'[p] > 0
               PROVE  /\ freeing'[p] = 1 /\ fcmh'[p].tofree /\ ~fcmh'[p].idle
                      /\ Users(p)' = {} /\ \A u \in Thread : thr'[u].fnew # p
    BY Zenon DEF FreedOnce
  <2>1. CASE p = o
    <3>1. fcmh[o].refcnt = 1 /\ fcmh'[o].tofree /\ freeing'[o] = 1
      BY <1>3, <2>1 DEF TypeOK
    <3>2. Users(o)' = {}
      BY <1>1, <1>2, <3>1
    <3>. QED
      BY <1>4, <2>1, <3>1, <3>2
  <2>2. CASE p # o
    <3>1. freeing'[p] = freeing[p]
      BY <2>2 DEF TypeOK
    <3>2. freeing[p] = 1 /\ fcmh[p].tofree /\ ~fcmh[p].idle /\ Users(p) = {}
          /\ \A u \in Thread : thr[u].fnew # p
      BY Zenon, <3>1 DEF FreedOnce
    <3>. QED
      BY SMTT(30), <1>1, <2>2, <3>1, <3>2
  <2>. QED
    BY Zenon, <2>1, <2>2
<1>7. OneFound'
  <2>1. \A x \in Fid : Found(x)' \subseteq Found(x)
    BY DEF Found
  <2>. QED
    BY <2>1 DEF OneFound
<1>8. IdleExact'
  BY SMTT(30), <1>2 DEF IdleExact
<1>9. Links'
  <2>1. \A u \in Thread : thr'[u].f # NoObj <=> thr'[u].pc \in Using
    BY DEF Links
  <2>2. \A u \in Thread : thr'[u].fnew # NoObj => thr'[u].fnew = thr[u].fnew
    BY Zenon
  <2>3. \A u \in Thread : thr'[u].fnew # NoObj => fcmh'[thr'[u].fnew].at = "new"
    BY <1>4, <2>2 DEF Links, TypeOK
  <2>4. \A p \in Obj : fcmh'[p].at \in {"pool", "new"} => freeing'[p] = 0
    BY <1>2 DEF Links, TypeOK
  <2>. QED
    BY <2>1, <2>2, <2>3, <2>4 DEF Links
<1>10. Promised
  <2>1. \A p \in Obj \ {o} : SameObj(p)
    BY DEF SameObj, Shown
  <2>2. Shown(o)' \in {Shown(o), "dying"}
    BY Zenon, <1>2 DEF Shown
  <2>. QED
    BY <2>1, <2>2, RefDrop DEF SameUse
<1>. QED
  BY Zenon, <1>5, <1>6, <1>7, <1>8, <1>9, <1>10 DEF Kept

-------------------------------------------------------------------------------
(* The steps of Next. *)
LEMMA StepScanWait ==
  ASSUME IInv, NEW t \in Thread, ScanWait(t)
  PROVE  Kept
<1> PICK o \in Obj : /\ fcmh[o].at = "hash" /\ ~fcmh[o].tofree /\ thr[t].pc = "scan"
                     /\ fcmh' = OpStart(fcmh, o)
                     /\ thr' = [thr EXCEPT ![t].pc = "wait", ![t].f = o]
                     /\ UNCHANGED <<freeing, nlookup>>
  BY ZenonT(30) DEF ScanWait, Found
<1>1. thr[t].f = NoObj
  BY Zenon DEF IInv, Links, Using
<1>2. TypeOK'
  <2>0. fcmh \in [Obj -> FcmhRec] /\ thr \in [Thread -> ThreadRec]
    BY Zenon, TypeOKRecs DEF IInv, RecsOK
  <2>1. fcmh' \in [Obj -> FcmhRec]
    BY Zenon, <2>0, OpStartFields
  <2>2. thr' \in [Thread -> ThreadRec]
    <3> DEFINE r == [thr[t] EXCEPT !.pc = "wait", !.f = o]
    <3>1. r \in ThreadRec
      BY ZenonT(30), <2>0 DEF ThreadRec
    <3>2. thr' = [thr EXCEPT ![t] = r]
      BY ZenonT(30)
    <3> HIDE DEF r
    <3>. QED
      BY ZenonT(30), <2>0, <3>1, <3>2
  <2>. QED
    BY Zenon, <2>1, <2>2, TypeOKRecs DEF IInv, RecsOK
<1>3. /\ thr'[t].f = o /\ thr'[t].pc = "wait" /\ thr'[t].fnew = thr[t].fnew
      /\ \A u \in Thread \ {t} : thr'[u] = thr[u]
  BY Zenon DEF IInv, TypeOK
<1>4. /\ fcmh'[o].at = "hash" /\ fcmh'[o].fid = fcmh[o].fid
      /\ fcmh'[o].refcnt = fcmh[o].refcnt + 1 /\ ~fcmh'[o].tofree /\ ~fcmh'[o].idle
  BY DEF IInv, TypeOK, OpStart
<1>5. \A p \in Obj \ {o} : fcmh'[p] = fcmh[p]
  BY Zenon DEF IInv, TypeOK, OpStart
<1>6. \A p \in Obj \ {o} : ~Returned(p, t)
  BY Zenon, <1>3, FidCacheAssumption DEF Returned
<1>. QED
  BY ZenonT(30), <1>1, <1>2, <1>3, <1>4, <1>5, <1>6, StepTake DEF Alike, Using

LEMMA StepScanHit ==
  ASSUME IInv, NEW t \in Thread, ScanHit(t)
  PROVE  Kept
<1> PICK o \in Found(thr[t].fid) :
       IF thr[t].mode = "excl"
       THEN /\ fcmh' = ReturnNew(fcmh, t)
            /\ thr' = [thr EXCEPT ![t] = Idler]
       ELSE /\ fcmh' = OpStart(ReturnNew(fcmh, t), o)
            /\ thr' = [thr EXCEPT ![t] = [Idler EXCEPT !.fid = thr[t].fid, !.f = o,
                                       !.pc = IF Reopens THEN "reopen" ELSE "held"]]
  BY ZenonT(30) DEF ScanHit
<1>1. /\ thr[t].pc = "scan" /\ thr[t].f = NoObj /\ UNCHANGED <<freeing, nlookup>>
      /\ o \in Obj /\ fcmh[o].at = "hash" /\ ~fcmh[o].tofree
  BY Zenon DEF IInv, Links, Using, ScanHit, Found
<1>2. thr[t].fnew # NoObj => /\ thr[t].fnew \in Obj /\ Users(thr[t].fnew) = {}
                             /\ freeing[thr[t].fnew] = 0 /\ fcmh[thr[t].fnew].at = "new"
  BY Zenon, FnewUnused
<1> DEFINE h == ReturnNew(fcmh, t)
<1>3. /\ h \in [Obj -> FcmhRec]
      /\ \A p \in Obj : h[p].at = IF thr[t].fnew = p THEN "pool" ELSE fcmh[p].at
      /\ \A p \in Obj : /\ h[p].fid = fcmh[p].fid /\ h[p].refcnt = fcmh[p].refcnt
                        /\ h[p].tofree = fcmh[p].tofree /\ h[p].idle = fcmh[p].idle
  BY <1>2, FidCacheAssumption DEF ReturnNew, IInv, TypeOK, FcmhRec, Places
<1> HIDE DEF h
<1>4. CASE thr[t].mode = "excl"
  <2>1. thr' = [thr EXCEPT ![t] = Idler] /\ fcmh' = h
    BY Zenon, <1>4 DEF h
  <2>2. TypeOK'
    BY Zenon, <1>1, <1>3, <2>1, TypeOKRecs, IdlerFields DEF RecsOK, IInv
  <2>3. thr'[t].fnew = NoObj /\ \A u \in Thread \ {t} : thr'[u] = thr[u]
    BY Zenon, <2>1, IdlerFields DEF IInv, TypeOK
  <2>4. \A u \in Thread : thr'[u].f = thr[u].f /\ (thr'[u].pc \in Using <=> thr[u].pc \in Using)
    BY Zenon, <1>1, <2>1, IdlerFields DEF IInv, TypeOK, Using
  <2>5. \A p \in Obj : /\ Alike(p)
                       /\ fcmh'[p].at = IF thr[t].fnew = p THEN "pool" ELSE fcmh[p].at
    BY Zenon, <1>3, <2>1 DEF Alike
  <2>. QED
    BY Zenon, <1>1, <2>2, <2>3, <2>4, <2>5, StepReturn
<1>5. CASE thr[t].mode # "excl"
  <2> DEFINE r == [Idler EXCEPT !.fid = thr[t].fid, !.f = o,
                                !.pc = IF Reopens THEN "reopen" ELSE "held"]
  <2>1. thr' = [thr EXCEPT ![t] = r] /\ fcmh' = OpStart(h, o)
    BY Zenon, <1>5 DEF h
  <2>2. r \in ThreadRec /\ r.f = o /\ r.fnew = NoObj /\ r.pc \in Using
    <3>1. thr[t].fid \in Fid
      BY Zenon DEF IInv, TypeOK
    <3>. QED
      BY ZenonT(30), <1>1, <3>1, IdlerFields DEF ThreadRec, Using
  <2> HIDE DEF r
  <2>3. /\ fcmh' \in [Obj -> FcmhRec]
        /\ fcmh'[o].at = h[o].at /\ fcmh'[o].fid = h[o].fid
        /\ fcmh'[o].refcnt = h[o].refcnt + 1 /\ fcmh'[o].tofree = h[o].tofree /\ ~fcmh'[o].idle
        /\ \A p \in Obj \ {o} : fcmh'[p] = h[p]
    BY <1>1, <1>3, <2>1 DEF OpStart, FcmhRec
  <2>4. TypeOK'
    BY Zenon, <1>1, <2>1, <2>2, <2>3, TypeOKRecs DEF RecsOK, IInv
  <2>5. thr'[t] = r /\ \A u \in Thread \ {t} : thr'[u] = thr[u]
    BY Zenon, <2>1 DEF IInv, TypeOK
  <2>6. thr[t].fnew # o
    BY Zenon, <1>1, <1>2, FidCacheAssumption
  <2>7. \A p \in Obj \ {o} : Alike(p) /\ fcmh'[p].at = IF Returned(p, t) THEN "pool" ELSE fcmh[p].at
    BY <1>3, <2>2, <2>3, <2>5 DEF Alike, Returned
  <2>8. /\ fcmh'[o].at = "hash" /\ fcmh'[o].fid = fcmh[o].fid
        /\ fcmh'[o].refcnt = fcmh[o].refcnt + 1 /\ ~fcmh'[o].tofree /\ ~fcmh'[o].idle
    BY Zenon, <1>1, <1>3, <2>3, <2>6
  <2>. QED
    BY Zenon, <1>1, <2>2, <2>4, <2>5, <2>7, <2>8, StepTake
<1>. QED
  BY Zenon, <1>4, <1>5

LEMMA WakeFields ==
  ASSUME IInv, NEW o
  PROVE  /\ Wake(o) \in [Thread -> ThreadRec]
         /\ \A u \in Thread : /\ Wake(o)[u].f = thr[u].f /\ Wake(o)[u].fnew = thr[u].fnew
                              /\ (Wake(o)[u].pc \in Using <=> thr[u].pc \in Using)
<1>1. ASSUME NEW u \in Thread
      PROVE  /\ Wake(o)[u] \in ThreadRec
             /\ Wake(o)[u].f = thr[u].f /\ Wake(o)[u].fnew = thr[u].fnew
             /\ (Wake(o)[u].pc \in Using <=> thr[u].pc \in Using)
  <2> DEFINE r == [thr[u] EXCEPT !.pc = "woken"]
  <2>1. thr[u] \in ThreadRec
    BY Zenon, TypeOKRecs DEF IInv, RecsOK
  <2>2. r \in ThreadRec /\ r.f = thr[u].f /\ r.fnew = thr[u].fnew /\ r.pc = "woken"
    BY Zenon, <2>1 DEF ThreadRec
  <2>3. Wake(o)[u] = IF thr[u].pc = "wait" /\ thr[u].f = o THEN r ELSE thr[u]
    BY Zenon DEF Wake
  <2> HIDE DEF r
  <2>. QED
    BY Zenon, <2>1, <2>2, <2>3 DEF Using
<1>2. Wake(o) = [u \in Thread |-> Wake(o)[u]]
  BY Zenon DEF Wake
<1>. QED
  BY Zenon, <1>1, <1>2

(* A step that ends with fcmh_op_done_type on the thread's handle. *)
LEMMA StepOpDone ==
  ASSUME IInv, NEW t \in Thread, NEW o \in Obj, NEW h \in [Obj -> FcmhRec],
         thr[t].f = o,
         h[o].at = fcmh[o].at, h[o].fid = fcmh[o].fid, h[o].refcnt = fcmh[o].refcnt,
         fcmh[o].tofree => h[o].tofree, \A p \in Obj \ {o} : h[p] = fcmh[p],
         fcmh' = OpDone(h, o), freeing' = Frees(h, o), UNCHANGED nlookup,
         thr' \in [Thread -> ThreadRec], thr'[t].f = NoObj, thr'[t].pc \notin Using,
         thr'[t].fnew \in {thr[t].fnew, NoObj},
         \A u \in Thread \ {t} : thr'[u] = Wake(o)[u]
  PROVE  Kept
<1>1. fcmh[o].refcnt = Cardinality(Uses(thr, o)) /\ t \in Uses(thr, o)
  BY ZenonT(30), UsersUses DEF IInv, RefsCounted, Uses
<1>2. fcmh[o].refcnt > 0 /\ fcmh[o].refcnt \in Nat
  BY <1>1, UsesFinite, FS_EmptySet
<1>3. /\ fcmh' \in [Obj -> FcmhRec]
      /\ fcmh'[o].at = fcmh[o].at /\ fcmh'[o].fid = fcmh[o].fid
      /\ fcmh'[o].refcnt = fcmh[o].refcnt - 1
      /\ fcmh'[o].tofree = h[o].tofree
      /\ fcmh'[o].idle = (fcmh[o].refcnt = 1 /\ ~h[o].tofree)
      /\ \A p \in Obj \ {o} : fcmh'[p] = fcmh[p]
  BY <1>2, OpDoneFields
<1>4. freeing' = IF fcmh[o].refcnt = 1 /\ fcmh'[o].tofree
                 THEN [freeing EXCEPT ![o] = @ + 1] ELSE freeing
  BY Zenon, <1>3 DEF Frees, Last
<1>5. TypeOK'
  <2>1. freeing' \in [Obj -> Nat]
    BY <1>4 DEF IInv, TypeOK
  <2>. QED
    BY Zenon, <1>3, <2>1, TypeOKRecs DEF IInv, RecsOK
<1>6. \A u \in Thread \ {t} : /\ thr'[u].f = thr[u].f /\ thr'[u].fnew = thr[u].fnew
                              /\ (thr'[u].pc \in Using <=> thr[u].pc \in Using)
  BY WakeFields
<1>7. fcmh'[o].idle <=> fcmh[o].refcnt = 1 /\ ~fcmh'[o].tofree
  BY ZenonT(30), <1>3
<1>. QED
  BY <1>3, <1>4, <1>5, <1>6, <1>7, StepDrop

LEMMA StepReopenFail ==
  ASSUME IInv, NEW t \in Thread, ReopenFail(t)
  PROVE  Kept
<1> DEFINE o == thr[t].f
           h == [fcmh EXCEPT ![o].tofree = TRUE]
<1>1. o \in Obj /\ thr[t].f = o
  BY Zenon DEF IInv, TypeOK, Links, Using, ReopenFail
<1>2. /\ fcmh' = OpDone(h, o) /\ freeing' = Frees(h, o) /\ UNCHANGED nlookup
      /\ thr' = [Wake(o) EXCEPT ![t] = Idler]
  BY Zenon DEF ReopenFail
<1> HIDE DEF o
<1>3. /\ h \in [Obj -> FcmhRec] /\ h[o].at = fcmh[o].at /\ h[o].fid = fcmh[o].fid
      /\ h[o].refcnt = fcmh[o].refcnt /\ h[o].tofree /\ \A p \in Obj \ {o} : h[p] = fcmh[p]
  <2>1. fcmh \in [Obj -> FcmhRec]
    BY Zenon, TypeOKRecs DEF IInv, RecsOK
  <2>. QED
    BY ZenonT(30), <1>1, <2>1 DEF FcmhRec
<1>4. thr' \in [Thread -> ThreadRec] /\ thr'[t] = Idler /\ \A u \in Thread \ {t} : thr'[u] = Wake(o)[u]
  BY Zenon, <1>2, WakeFields, IdlerFields
<1> HIDE DEF h
<1>. QED
  BY Zenon, <1>1, <1>2, <1>3, <1>4, IdlerFields, StepOpDone DEF Using

LEMMA StepCtorFail ==
  ASSUME IInv, NEW t \in Thread, CtorFail(t)
  PROVE  Kept
<1> DEFINE o == thr[t].f
           h == [fcmh EXCEPT ![o].initing = FALSE, ![o].tofree = TRUE]
<1>1. o \in Obj /\ thr[t].f = o
  BY Zenon DEF IInv, TypeOK, Links, Using, CtorFail
<1>2. /\ fcmh' = OpDone(h, o) /\ freeing' = Frees(h, o) /\ UNCHANGED nlookup
      /\ thr' = [Wake(o) EXCEPT ![t] = Idler]
  BY Zenon DEF CtorFail
<1> HIDE DEF o
<1>3. /\ h \in [Obj -> FcmhRec] /\ h[o].at = fcmh[o].at /\ h[o].fid = fcmh[o].fid
      /\ h[o].refcnt = fcmh[o].refcnt /\ h[o].tofree /\ \A p \in Obj \ {o} : h[p] = fcmh[p]
  <2>1. fcmh \in [Obj -> FcmhRec]
    BY TypeOKRecs DEF IInv, RecsOK
  <2> DEFINE r == [fcmh[o] EXCEPT !.initing = FALSE, !.tofree = TRUE]
  <2>2. /\ r \in FcmhRec /\ r.at = fcmh[o].at /\ r.fid = fcmh[o].fid
        /\ r.refcnt = fcmh[o].refcnt /\ r.tofree
    BY ZenonT(30), <1>1, <2>1 DEF FcmhRec
  <2>3. h = [fcmh EXCEPT ![o] = r]
    BY ZenonT(30)
  <2> HIDE DEF r
  <2>. QED
    BY <1>1, <2>1, <2>2, <2>3
<1>4. thr' \in [Thread -> ThreadRec] /\ thr'[t] = Idler /\ \A u \in Thread \ {t} : thr'[u] = Wake(o)[u]
  BY Zenon, <1>2, WakeFields, IdlerFields
<1> HIDE DEF h
<1>. QED
  BY <1>1, <1>2, <1>3, <1>4, IdlerFields, StepOpDone DEF Using

LEMMA StepWoken ==
  ASSUME IInv, NEW t \in Thread, Woken(t)
  PROVE  Kept
<1> DEFINE o == thr[t].f
<1>1. o \in Obj /\ thr[t].f = o
  BY Zenon DEF IInv, TypeOK, Links, Using, Woken
<1>2. /\ fcmh' = OpDone(fcmh, o) /\ freeing' = Frees(fcmh, o) /\ UNCHANGED nlookup
      /\ thr' = [Wake(o) EXCEPT ![t].pc = "scan", ![t].f = NoObj]
  BY Zenon DEF Woken
<1> HIDE DEF o
<1>3. /\ thr' \in [Thread -> ThreadRec] /\ thr'[t].f = NoObj /\ thr'[t].pc = "scan"
      /\ thr'[t].fnew = thr[t].fnew
      /\ \A u \in Thread \ {t} : thr'[u] = Wake(o)[u]
  BY <1>2, WakeFields DEF ThreadRec
<1>4. fcmh \in [Obj -> FcmhRec]
  BY TypeOKRecs DEF IInv, RecsOK
<1>. QED
  BY Zenon, <1>1, <1>2, <1>3, <1>4, StepOpDone DEF Using

LEMMA StepDone ==
  ASSUME IInv, NEW t \in Thread, Done(t)
  PROVE  Kept
<1> DEFINE o == thr[t].f
<1>1. o \in Obj /\ thr[t].f = o
  BY Zenon DEF IInv, TypeOK, Links, Using, Done
<1>2. /\ fcmh' = OpDone(fcmh, o) /\ freeing' = Frees(fcmh, o) /\ UNCHANGED nlookup
      /\ thr' = [Wake(o) EXCEPT ![t] = Idler]
  BY Zenon DEF Done
<1> HIDE DEF o
<1>3. thr' \in [Thread -> ThreadRec] /\ thr'[t] = Idler /\ \A u \in Thread \ {t} : thr'[u] = Wake(o)[u]
  BY Zenon, <1>2, WakeFields, IdlerFields
<1>4. fcmh \in [Obj -> FcmhRec]
  BY TypeOKRecs DEF IInv, RecsOK
<1>. QED
  BY Zenon, <1>1, <1>2, <1>3, <1>4, IdlerFields, StepOpDone DEF Using

LEMMA StepCtorOk ==
  ASSUME IInv, NEW t \in Thread, CtorOk(t)
  PROVE  Kept
<1> DEFINE o == thr[t].f
           h == OpStart([fcmh EXCEPT ![o].initing = FALSE], o)
<1>1. o \in Obj /\ thr[t].f = o /\ thr[t].pc \in Using
  BY Zenon DEF IInv, TypeOK, Links, Using, CtorOk
<1>2. /\ fcmh' = OpDone(h, o) /\ UNCHANGED <<freeing, nlookup>>
      /\ thr' = [Wake(o) EXCEPT ![t].pc = "held"]
  BY Zenon DEF CtorOk
<1> HIDE DEF o
<1>3. fcmh \in [Obj -> FcmhRec]
  BY TypeOKRecs DEF IInv, RecsOK
<1>4. /\ h \in [Obj -> FcmhRec] /\ h[o].at = fcmh[o].at /\ h[o].fid = fcmh[o].fid
      /\ h[o].refcnt = fcmh[o].refcnt + 1 /\ h[o].tofree = fcmh[o].tofree
      /\ \A p \in Obj \ {o} : h[p] = fcmh[p]
  <2> DEFINE g == [fcmh EXCEPT ![o].initing = FALSE]
  <2>1. /\ g \in [Obj -> FcmhRec] /\ g[o].at = fcmh[o].at /\ g[o].fid = fcmh[o].fid
        /\ g[o].refcnt = fcmh[o].refcnt /\ g[o].tofree = fcmh[o].tofree
        /\ \A p \in Obj \ {o} : g[p] = fcmh[p]
    BY ZenonT(30), <1>1, <1>3 DEF FcmhRec
  <2>2. h = OpStart(g, o)
    BY Zenon
  <2> HIDE DEF g, h
  <2>. QED
    BY <1>1, <2>1, <2>2, OpStartFields
<1> HIDE DEF h
<1>5. fcmh[o].refcnt \in Nat /\ fcmh[o].refcnt > 0
  <2>1. fcmh[o].refcnt = Cardinality(Uses(thr, o)) /\ t \in Uses(thr, o)
    BY ZenonT(30), <1>1, UsersUses DEF IInv, RefsCounted, Uses
  <2>. QED
    BY <2>1, UsesFinite, FS_EmptySet
<1>6. /\ fcmh' \in [Obj -> FcmhRec] /\ ~fcmh'[o].idle
      /\ fcmh'[o].at = fcmh[o].at /\ fcmh'[o].fid = fcmh[o].fid
      /\ fcmh'[o].refcnt = fcmh[o].refcnt /\ fcmh'[o].tofree = fcmh[o].tofree
      /\ \A p \in Obj \ {o} : fcmh'[p] = fcmh[p]
  <2>1. h[o].refcnt > 0 /\ h[o].refcnt # 1 /\ h[o].refcnt - 1 = fcmh[o].refcnt
    BY <1>4, <1>5
  <2>2. /\ fcmh' \in [Obj -> FcmhRec]
        /\ fcmh'[o].at = h[o].at /\ fcmh'[o].fid = h[o].fid
        /\ fcmh'[o].refcnt = h[o].refcnt - 1 /\ fcmh'[o].tofree = h[o].tofree
        /\ fcmh'[o].idle = (h[o].refcnt = 1 /\ ~h[o].tofree)
        /\ \A p \in Obj \ {o} : fcmh'[p] = h[p]
    BY <1>1, <1>2, <1>4, <2>1, OpDoneFields
  <2>. QED
    BY ZenonT(30), <1>4, <2>1, <2>2
<1>7. ~fcmh[o].idle
  BY <1>1, <1>5 DEF IInv, IdleExact
<1>8. /\ thr' \in [Thread -> ThreadRec]
      /\ \A u \in Thread : /\ thr'[u].f = thr[u].f /\ thr'[u].fnew = thr[u].fnew
                           /\ (thr'[u].pc \in Using <=> thr[u].pc \in Using)
  <2>1. /\ Wake(o) \in [Thread -> ThreadRec]
        /\ \A u \in Thread : /\ Wake(o)[u].f = thr[u].f /\ Wake(o)[u].fnew = thr[u].fnew
                             /\ (Wake(o)[u].pc \in Using <=> thr[u].pc \in Using)
    BY Zenon, WakeFields
  <2> DEFINE r == [Wake(o)[t] EXCEPT !.pc = "held"]
  <2>2. r \in ThreadRec /\ r.f = thr[t].f /\ r.fnew = thr[t].fnew /\ r.pc = "held"
    BY Zenon, <2>1 DEF ThreadRec
  <2>3. thr' = [Wake(o) EXCEPT ![t] = r]
    BY Zenon, <1>2
  <2> HIDE DEF r
  <2>. QED
    BY Zenon, <1>1, <2>1, <2>2, <2>3 DEF Using
<1>9. TypeOK'
  BY Zenon, <1>2, <1>6, <1>8, TypeOKRecs DEF IInv, RecsOK
<1> USE DEF IInv
<1>10. \A p \in Obj : Users(p)' = Users(p)
  BY <1>8, UsesSame, UsersUses
<1>11. \A p \in Obj : Alike(p) /\ fcmh'[p].at = fcmh[p].at
  <2>1. fcmh'[o].idle = fcmh[o].idle
    BY <1>3, <1>6, <1>7 DEF FcmhRec
  <2>. QED
    BY Zenon, <1>6, <2>1 DEF Alike
<1>12. RefsCounted' /\ FreedOnce'
  BY <1>2, <1>8, <1>10, <1>11 DEF RefsCounted, FreedOnce, Alike
<1>13. OneFound' /\ IdleExact'
  BY <1>11 DEF OneFound, Found, IdleExact, Alike
<1>14. Links'
  BY <1>2, <1>8, <1>11, FidCacheAssumption DEF Links, TypeOK
<1>15. Promised
  <2>1. \A p \in Obj : SameObj(p)
    BY Zenon, <1>11 DEF SameObj, Shown, Alike
  <2>. QED
    BY Zenon, <1>8, <2>1, RefStutter DEF SameUse
<1>. QED
  BY Zenon, <1>9, <1>12, <1>13, <1>14, <1>15 DEF Kept

LEMMA StepReopenOk ==
  ASSUME IInv, NEW t \in Thread, ReopenOk(t)
  PROVE  Kept
<1> DEFINE r == [thr[t] EXCEPT !.pc = "held"]
<1>1. thr \in [Thread -> ThreadRec]
  BY Zenon, TypeOKRecs DEF IInv, RecsOK
<1>2. r \in ThreadRec /\ r.f = thr[t].f /\ r.fnew = thr[t].fnew /\ r.pc = "held"
  BY Zenon, <1>1 DEF ThreadRec
<1>3. thr' = [thr EXCEPT ![t] = r] /\ thr[t].pc = "reopen" /\ UNCHANGED <<fcmh, freeing, nlookup>>
  BY Zenon DEF ReopenOk
<1> HIDE DEF r
<1>4. TypeOK'
  BY Zenon, <1>1, <1>2, <1>3, TypeOKRecs DEF IInv, RecsOK
<1>5. \A u \in Thread : thr'[u].f = thr[u].f /\ thr'[u].fnew \in {thr[u].fnew, NoObj}
                        /\ (thr'[u].pc \in Using <=> thr[u].pc \in Using)
  BY Zenon, <1>1, <1>2, <1>3 DEF Using
<1>. QED
  BY Zenon, <1>3, <1>4, <1>5, StepQuiet

LEMMA StepAlloc ==
  ASSUME IInv, NEW t \in Thread, Alloc(t)
  PROVE  Kept
<1> PICK o \in Obj : /\ fcmh[o].at = "pool" /\ fcmh' = [fcmh EXCEPT ![o].at = "new"]
                     /\ thr' = [thr EXCEPT ![t].pc = "scan", ![t].fnew = o]
  BY ZenonT(30) DEF Alloc
<1>1. thr[t].pc = "alloc" /\ UNCHANGED <<freeing, nlookup>>
  BY Zenon DEF Alloc
<1>2. fcmh \in [Obj -> FcmhRec] /\ thr \in [Thread -> ThreadRec]
  BY Zenon, TypeOKRecs DEF IInv, RecsOK
<1>3. /\ fcmh' \in [Obj -> FcmhRec] /\ fcmh'[o].at = "new"
      /\ \A p \in Obj : Alike(p) /\ (p # o => fcmh'[p].at = fcmh[p].at)
  BY <1>2 DEF FcmhRec, Alike, Places
<1>4. /\ thr' \in [Thread -> ThreadRec] /\ thr'[t].pc = "scan" /\ thr'[t].f = thr[t].f
      /\ thr'[t].fnew = o /\ \A u \in Thread \ {t} : thr'[u] = thr[u]
  <2> DEFINE r == [thr[t] EXCEPT !.pc = "scan", !.fnew = o]
  <2>1. r \in ThreadRec /\ r.pc = "scan" /\ r.f = thr[t].f /\ r.fnew = o
    BY ZenonT(30), <1>2 DEF ThreadRec
  <2>2. thr' = [thr EXCEPT ![t] = r]
    BY ZenonT(30)
  <2> HIDE DEF r
  <2>. QED
    BY ZenonT(30), <1>2, <2>1, <2>2
<1>5. TypeOK'
  BY Zenon, <1>1, <1>3, <1>4, TypeOKRecs DEF IInv, RecsOK
<1> USE FidCacheAssumption DEF IInv
<1>6. \A p \in Obj : Users(p)' = Users(p)
  <2>1. \A u \in Thread : thr'[u].f = thr[u].f
    BY Zenon, <1>4
  <2>2. \A p : Uses(thr', p) = Uses(thr, p)
    BY <2>1, UsesSame, ZenonT(30)
  <2>. QED
    BY <2>2, UsersUses, Zenon
<1>7. Users(o) = {} /\ freeing[o] = 0 /\ \A u \in Thread : thr[u].fnew # o
  BY Zenon DEF RefsCounted, Links
<1>8. RefsCounted'
  BY <1>3, <1>6, <1>7 DEF RefsCounted, Alike
<1>9. FreedOnce'
  BY SMTT(30), <1>1, <1>3, <1>4, <1>6, <1>7 DEF FreedOnce, Alike, TypeOK
<1>10. OneFound'
  <2>1. \A x \in Fid : Found(x)' \subseteq Found(x)
    BY Zenon, <1>3 DEF Found, Alike
  <2>. QED
    BY Zenon, <2>1 DEF OneFound
<1>11. IdleExact'
  BY Zenon, <1>3 DEF IdleExact, Alike
<1>12. Links'
  <2>1. \A u \in Thread : thr'[u].f # NoObj <=> thr'[u].pc \in Using
    BY Zenon, <1>1, <1>4 DEF Links, Using
  <2>2. \A u \in Thread : thr'[u].fnew # NoObj => fcmh'[thr'[u].fnew].at = "new"
    BY <1>2, <1>3, <1>4, <1>7 DEF Links, ThreadRec
  <2>3. \A u, w \in Thread : thr'[u].fnew # NoObj /\ thr'[u].fnew = thr'[w].fnew => u = w
    BY <1>4, <1>7 DEF Links
  <2>4. \A p \in Obj : fcmh'[p].at \in {"pool", "new"} => freeing'[p] = 0
    BY Zenon, <1>1, <1>3, <1>7 DEF Links
  <2>. QED
    BY ZenonT(30), <2>1, <2>2, <2>3, <2>4 DEF Links
<1>13. Promised
  <2>1. \A p \in Obj : SameObj(p)
    BY Zenon, <1>3 DEF SameObj, Shown, Alike
  <2>2. \A u \in Thread : SameUse(u)
    BY Zenon, <1>4 DEF SameUse
  <2>. QED
    BY Zenon, <2>1, <2>2, RefStutter
<1>. QED
  BY Zenon, <1>5, <1>8, <1>9, <1>10, <1>11, <1>12, <1>13 DEF Kept

(* The handle that a miss inserts is the only one of its FID to be found. *)
LEMMA StepInsert ==
  ASSUME IInv, NEW t \in Thread, thr[t].pc = "scan", Found(thr[t].fid) = {},
         NEW o \in Obj, thr[t].fnew = o,
         NEW b \in FcmhRec, b.at = "hash", b.fid = thr[t].fid, b.refcnt = 1, ~b.tofree, ~b.idle,
         NEW r \in ThreadRec, r.pc = "ctor", r.f = o, r.fnew = NoObj,
         fcmh' \in [Obj -> FcmhRec], fcmh'[o] = b, \A p \in Obj \ {o} : fcmh'[p] = fcmh[p],
         thr' \in [Thread -> ThreadRec], thr'[t] = r, \A u \in Thread \ {t} : thr'[u] = thr[u],
         UNCHANGED <<freeing, nlookup>>
  PROVE  Kept
<1>1. Users(o) = {} /\ freeing[o] = 0 /\ fcmh[o].at = "new"
  BY FnewUnused, FidCacheAssumption
<1>2. fcmh \in [Obj -> FcmhRec] /\ thr \in [Thread -> ThreadRec]
  BY Zenon, TypeOKRecs DEF IInv, RecsOK
<1>3. TypeOK'
  BY Zenon, TypeOKRecs DEF IInv, RecsOK
<1> USE FidCacheAssumption DEF IInv
<1>4. thr[t].f = NoObj
  BY Zenon DEF Links, Using
<1>5. /\ Cardinality(Users(o)') = Cardinality(Users(o)) + 1
       /\ Users(o)' # {}
       /\ \A p \in Obj \ {o} : Users(p)' = Users(p)
  <2>1. thr'[t].f = o /\ \A u \in Thread \ {t} : thr'[u].f = thr[u].f
    BY Zenon
  <2>2. /\ Cardinality(Uses(thr', o)) = Cardinality(Uses(thr, o)) + 1
        /\ Uses(thr', o) # {}
        /\ \A p \in Obj \ {o} : Uses(thr', p) = Uses(thr, p)
    BY <1>4, <2>1, UsesAdd, SMT
  <2>3. \A p \in Obj : Users(p) = Uses(thr, p) /\ Users(p)' = Uses(thr', p)
    BY UsersUses, Zenon
  <2>. QED
    BY <2>2, <2>3
<1>6. RefsCounted'
  <2>1. Cardinality(Users(o)') = 1
    BY <1>1, <1>5, FS_EmptySet
  <2>. QED
    BY <1>5, <2>1 DEF RefsCounted
<1>7. FreedOnce'
  BY <1>1, <1>5 DEF FreedOnce
<1>8. OneFound'
  <2>1. \A x \in Fid : x # thr[t].fid => Found(x)' \subseteq Found(x)
    BY <1>1 DEF Found
  <2>2. \A x \in Fid : x = thr[t].fid => \A p, q \in Found(x)' : p = q
    <3>1. \A p \in Obj : fcmh'[p].at = "hash" /\ fcmh'[p].fid = thr[t].fid
                         /\ ~fcmh'[p].tofree => p = o
      BY Zenon DEF Found
    <3>. QED
      BY <3>1 DEF Found
  <2>. QED
    BY <2>1, <2>2 DEF OneFound
<1>9. IdleExact'
  BY <1>1 DEF IdleExact
<1>10. Links'
  <2>1. \A u \in Thread : thr'[u].f # NoObj <=> thr'[u].pc \in Using
    BY <1>1 DEF Links, Using
  <2>2. \A u \in Thread : thr'[u].fnew # NoObj => u # t /\ thr'[u].fnew = thr[u].fnew
    BY Zenon
  <2>3. \A u \in Thread : thr'[u].fnew # NoObj => thr'[u].fnew # o
    BY <2>2 DEF Links
  <2>4. \A u \in Thread : thr'[u].fnew # NoObj => fcmh'[thr'[u].fnew].at = "new"
    BY <1>2, <2>2, <2>3 DEF Links, ThreadRec
  <2>5. \A p \in Obj : fcmh'[p].at \in {"pool", "new"} => freeing'[p] = 0
    BY Zenon, <1>1 DEF Links
  <2>. QED
    BY SMTT(30), <2>1, <2>2, <2>4, <2>5 DEF Links
<1>11. Promised
  <2>1. \A p \in Obj \ {o} : SameObj(p)
    BY Zenon DEF SameObj, Shown
  <2>2. Shown(o) = "free" /\ Shown(o)' = "live"
    BY Zenon, <1>1 DEF Shown
  <2>3. thr[t].fid \in Fid
    BY Zenon, <1>2 DEF ThreadRec
  <2>4. \A p \in Obj : Shown(p) = "live" => fcmh[p].fid # thr[t].fid
    BY Zenon DEF Shown, Found
  <2>. QED
    BY <1>4, <2>1, <2>2, <2>3, <2>4, RefCreate DEF SameUse
<1>. QED
  BY Zenon, <1>3, <1>6, <1>7, <1>8, <1>9, <1>10, <1>11 DEF Kept

LEMMA StepScanMiss ==
  ASSUME IInv, NEW t \in Thread, ScanMiss(t)
  PROVE  Kept
<1>1. /\ thr[t].pc = "scan" /\ Found(thr[t].fid) = {} /\ UNCHANGED <<freeing, nlookup>>
      /\ thr[t].f = NoObj
  BY Zenon DEF ScanMiss, IInv, Links, Using
<1>2. fcmh \in [Obj -> FcmhRec] /\ thr \in [Thread -> ThreadRec] /\ thr[t] \in ThreadRec
  BY Zenon, TypeOKRecs DEF IInv, RecsOK
<1>3. ASSUME NEW r \in ThreadRec, thr' = [thr EXCEPT ![t] = r], UNCHANGED fcmh,
             r.f = NoObj, r.fnew \in {thr[t].fnew, NoObj}, r.pc \notin Using
      PROVE  Kept
  <2>1. TypeOK'
    BY Zenon, <1>1, <1>2, <1>3, TypeOKRecs DEF IInv, RecsOK
  <2>2. \A u \in Thread : thr'[u].f = thr[u].f /\ thr'[u].fnew \in {thr[u].fnew, NoObj}
                          /\ (thr'[u].pc \in Using <=> thr[u].pc \in Using)
    BY Zenon, <1>1, <1>2, <1>3 DEF Using
  <2>. QED
    BY Zenon, <1>1, <1>3, <2>1, <2>2, StepQuiet
<1>4. CASE thr' = [thr EXCEPT ![t] = Idler] /\ UNCHANGED fcmh
  BY ZenonT(30), <1>3, <1>4, IdlerFields DEF Using
<1>5. CASE thr' = [thr EXCEPT ![t].pc = "alloc"] /\ UNCHANGED fcmh
  <2> DEFINE r == [thr[t] EXCEPT !.pc = "alloc"]
  <2>1. /\ r \in ThreadRec /\ r.f = NoObj /\ r.fnew = thr[t].fnew /\ r.pc = "alloc"
    BY Zenon, <1>1, <1>2 DEF ThreadRec
  <2>2. thr' = [thr EXCEPT ![t] = r]
    BY Zenon, <1>5
  <2> HIDE DEF r
  <2>. QED
    BY ZenonT(30), <1>3, <1>5, <2>1, <2>2 DEF Using
<1>6. CASE /\ thr[t].fnew # NoObj
           /\ fcmh' = [fcmh EXCEPT ![thr[t].fnew] =
                         [Blank(thr[t].fid) EXCEPT !.at = "hash", !.refcnt = 1, !.initing = TRUE]]
           /\ thr' = [thr EXCEPT ![t].pc = "ctor", ![t].f = thr[t].fnew, ![t].fnew = NoObj]
  <2> DEFINE o == thr[t].fnew
             x == thr[t].fid
             b == [Blank(x) EXCEPT !.at = "hash", !.refcnt = 1, !.initing = TRUE]
             r == [thr[t] EXCEPT !.pc = "ctor", !.f = thr[t].fnew, !.fnew = NoObj]
  <2>1. o \in Obj /\ x \in Fid
    BY Zenon, <1>2, <1>6 DEF ThreadRec
  <2>2. fcmh' = [fcmh EXCEPT ![o] = b] /\ thr' = [thr EXCEPT ![t] = r]
    BY ZenonT(30), <1>6
  <2>3. r \in ThreadRec /\ r.pc = "ctor" /\ r.f = o /\ r.fnew = NoObj
    BY ZenonT(30), <1>2, <2>1 DEF ThreadRec
  <2>4. b \in FcmhRec /\ b.at = "hash" /\ b.fid = x /\ b.refcnt = 1 /\ ~b.tofree /\ ~b.idle
    <3> HIDE DEF x
    <3>1. /\ Blank(x) \in FcmhRec /\ Blank(x).fid = x /\ ~Blank(x).tofree /\ ~Blank(x).idle
      BY Zenon, <2>1 DEF Blank, FcmhRec, Places
    <3>. QED
      BY ZenonT(30), <3>1 DEF FcmhRec, Places
  <2> HIDE DEF b, r
  <2>5. fcmh' \in [Obj -> FcmhRec] /\ fcmh'[o] = b /\ \A p \in Obj \ {o} : fcmh'[p] = fcmh[p]
    BY Zenon, <1>2, <2>1, <2>2, <2>4
  <2>6. thr' \in [Thread -> ThreadRec] /\ thr'[t] = r /\ \A u \in Thread \ {t} : thr'[u] = thr[u]
    BY Zenon, <1>2, <2>2, <2>3
  <2>. QED
    BY <1>1, <2>1, <2>3, <2>4, <2>5, <2>6, StepInsert
<1>. QED
  BY Zenon, <1>4, <1>5, <1>6 DEF ScanMiss

LEMMA StepReap ==
  ASSUME IInv, NEW o \in Obj, Reap(o)
  PROVE  Kept
<1>1. fcmh \in [Obj -> FcmhRec] /\ freeing \in [Obj -> Nat]
  BY Zenon, TypeOKRecs DEF IInv, RecsOK
<1>2. /\ fcmh' \in [Obj -> FcmhRec] /\ fcmh'[o].tofree /\ ~fcmh'[o].idle
      /\ fcmh'[o].at = fcmh[o].at /\ fcmh'[o].fid = fcmh[o].fid /\ fcmh'[o].refcnt = fcmh[o].refcnt
      /\ \A p \in Obj \ {o} : fcmh'[p] = fcmh[p]
  <2> DEFINE r == [fcmh[o] EXCEPT !.tofree = TRUE, !.idle = FALSE]
  <2>1. /\ r \in FcmhRec /\ r.tofree /\ ~r.idle
        /\ r.at = fcmh[o].at /\ r.fid = fcmh[o].fid /\ r.refcnt = fcmh[o].refcnt
    BY ZenonT(30), <1>1 DEF FcmhRec
  <2>2. fcmh' = [fcmh EXCEPT ![o] = r]
    BY ZenonT(30) DEF Reap
  <2> HIDE DEF r
  <2>. QED
    BY Zenon, <1>1, <2>1, <2>2
<1>3. freeing' = [freeing EXCEPT ![o] = freeing[o] + 1] /\ UNCHANGED <<thr, nlookup>> /\ fcmh[o].idle
  BY Zenon DEF Reap
<1>4. TypeOK'
  BY SMTT(30), <1>1, <1>2, <1>3, TypeOKRecs DEF IInv, RecsOK
<1> USE FidCacheAssumption DEF IInv
<1>5. /\ fcmh[o].at = "hash" /\ fcmh[o].refcnt = 0 /\ freeing[o] = 0
      /\ \A t \in Thread : thr[t].fnew # o
  BY <1>1, <1>3 DEF IdleExact, FreedOnce, Links
<1>6. \A p \in Obj : Users(p)' = Users(p)
  BY Zenon, <1>3 DEF Users
<1>7. Users(o) = {}
  BY Zenon, <1>5, UsesFinite, UsersUses, FS_EmptySet DEF RefsCounted
<1>8. RefsCounted'
  BY <1>2, <1>6 DEF RefsCounted
<1>9. FreedOnce'
  <2>1. freeing'[o] = 1 /\ \A p \in Obj \ {o} : freeing'[p] = freeing[p]
    BY <1>1, <1>3, <1>5
  <2>. QED
    BY <1>2, <1>3, <1>5, <1>6, <1>7, <2>1 DEF FreedOnce
<1>10. OneFound'
  <2>1. \A x \in Fid : Found(x)' \subseteq Found(x)
    BY Zenon, <1>2 DEF Found
  <2>. QED
    BY Zenon, <2>1 DEF OneFound
<1>11. IdleExact'
  BY <1>2 DEF IdleExact
<1>12. Links'
  BY <1>1, <1>2, <1>3, <1>5 DEF Links, TypeOK
<1>13. Promised
  <2>1. \A p \in Obj \ {o} : SameObj(p)
    BY Zenon, <1>2 DEF SameObj, Shown
  <2>2. Shown(o) = "live" /\ Shown(o)' = "dying"
    BY Zenon, <1>2, <1>3, <1>5 DEF Shown, IdleExact
  <2>. QED
    BY Zenon, <1>2, <1>3, <2>1, <2>2, RefDoom DEF SameUse
<1>. QED
  BY Zenon, <1>4, <1>8, <1>9, <1>10, <1>11, <1>12, <1>13 DEF Kept

(* A handle that is being freed leaves the hash table, or the cache. *)
LEMMA StepFree ==
  ASSUME IInv, NEW o \in Obj, Free(o)
  PROVE  Kept
<1>1. fcmh \in [Obj -> FcmhRec] /\ freeing \in [Obj -> Nat]
  BY TypeOKRecs DEF IInv, RecsOK
<1>2. freeing[o] > 0 /\ UNCHANGED <<thr, nlookup>> /\ fcmh[o].at \in {"hash", "out"}
  BY Zenon DEF Free, HashRemove, Destroy
<1>3. /\ freeing[o] = 1 /\ fcmh[o].tofree /\ ~fcmh[o].idle
      /\ Users(o) = {} /\ \A t \in Thread : thr[t].fnew # o
  BY Zenon, <1>2 DEF IInv, FreedOnce
<1>4. fcmh[o].refcnt = 0
  BY Zenon, <1>3, FS_EmptySet DEF IInv, RefsCounted
<1>5. /\ fcmh' \in [Obj -> FcmhRec] /\ fcmh'[o].at \in {"out", "pool"} /\ ~fcmh'[o].idle
      /\ fcmh'[o].refcnt = 0 /\ (fcmh'[o].at = "out" => fcmh'[o].tofree)
      /\ fcmh'[o].fid = fcmh[o].fid /\ (fcmh'[o].at = "pool" => fcmh[o].at = "out")
      /\ \A p \in Obj \ {o} : fcmh'[p] = fcmh[p] /\ freeing'[p] = freeing[p]
      /\ freeing' \in [Obj -> Nat]
      /\ freeing'[o] = IF fcmh'[o].at = "out" THEN 1 ELSE 0
  <2>1. CASE HashRemove(o)
    <3> DEFINE r == [fcmh[o] EXCEPT !.at = "out"]
    <3>1. /\ r \in FcmhRec /\ r.at = "out" /\ r.refcnt = 0 /\ r.tofree /\ ~r.idle
          /\ r.fid = fcmh[o].fid
      BY Zenon, <1>1, <1>3, <1>4 DEF FcmhRec, Places
    <3>2. fcmh' = [fcmh EXCEPT ![o] = r] /\ freeing' = freeing
      BY Zenon, <2>1 DEF HashRemove
    <3> HIDE DEF r
    <3>. QED
      BY Zenon, <1>1, <1>3, <3>1, <3>2
  <2>2. CASE Destroy(o)
    <3> DEFINE r == Blank(fcmh[o].fid)
    <3>1. /\ r \in FcmhRec /\ r.at = "pool" /\ r.refcnt = 0 /\ ~r.idle
          /\ r.fid = fcmh[o].fid
      <4>1. fcmh[o].fid \in Fid
        BY Zenon, <1>1 DEF FcmhRec
      <4>. QED
        BY Zenon, <4>1 DEF Blank, FcmhRec, Places
    <3>2. /\ fcmh' = [fcmh EXCEPT ![o] = r] /\ freeing' = [freeing EXCEPT ![o] = freeing[o] - 1]
          /\ fcmh[o].at = "out"
      BY Zenon, <2>2 DEF Destroy
    <3> HIDE DEF r
    <3>. QED
      BY <1>1, <1>3, <3>1, <3>2
  <2>. QED
    BY Zenon, <2>1, <2>2 DEF Free
<1>6. TypeOK'
  BY Zenon, <1>2, <1>5, TypeOKRecs DEF IInv, RecsOK
<1> USE FidCacheAssumption DEF IInv
<1>7. \A p \in Obj : Users(p)' = Users(p)
  BY Zenon, <1>2 DEF Users
<1>8. RefsCounted'
  <2>1. fcmh'[o].refcnt = Cardinality(Users(o)') /\ Users(o)' = {}
    BY ZenonT(30), <1>3, <1>5, <1>7, FS_EmptySet
  <2>2. \A p \in Obj \ {o} : fcmh'[p] = fcmh[p] /\ Users(p)' = Users(p)
    BY Zenon, <1>5, <1>7
  <2>. QED
    BY ZenonT(30), <2>1, <2>2 DEF RefsCounted
<1>9. FreedOnce'
  BY <1>2, <1>3, <1>5, <1>7 DEF FreedOnce
<1>10. OneFound'
  <2>1. \A x \in Fid : Found(x)' \subseteq Found(x)
    BY Zenon, <1>5 DEF Found
  <2>. QED
    BY <2>1 DEF OneFound
<1>11. IdleExact'
  BY <1>5 DEF IdleExact
<1>12. Links'
  BY SMTT(30), <1>2, <1>3, <1>5 DEF Links, TypeOK
<1>13. Promised
  <2>1. \A p \in Obj \ {o} : SameObj(p)
    BY Zenon, <1>5 DEF SameObj, Shown
  <2>2. Shown(o) = "dying"
    BY Zenon, <1>2, <1>3 DEF Shown
  <2>3. CASE fcmh'[o].at = "out"
    <3>1. SameObj(o)
      BY Zenon, <1>5, <2>2, <2>3 DEF SameObj, Shown
    <3>. QED
      BY Zenon, <1>2, <2>1, <3>1, RefStutter DEF SameUse
  <2>4. CASE fcmh'[o].at = "pool"
    <3>1. Shown(o)' = "free"
      BY Zenon, <2>4 DEF Shown
    <3>2. \A u \in Thread : SameUse(u) /\ thr[u].f # o
      BY Zenon, <1>2, <1>3 DEF SameUse, Users
    <3>. QED
      BY Zenon, <1>5, <2>1, <2>2, <3>1, <3>2, RefDestroy
  <2>. QED
    BY Zenon, <1>5, <2>3, <2>4
<1>. QED
  BY SMTT(30), <1>6, <1>8, <1>9, <1>10, <1>11, <1>12, <1>13 DEF Kept

(* Every step keeps the invariant. *)
LEMMA NextIInv == IInv /\ [Next]_vars => Kept
<1> SUFFICES ASSUME IInv, [Next]_vars PROVE Kept
  BY Zenon
<1>1. ASSUME NEW t \in Thread,
             \/ \E x \in Fid, mode \in {"find", "create", "excl"} : Lookup(t, x, mode)
             \/ Scan(t) \/ Reopen(t) \/ Alloc(t) \/ Ctor(t) \/ Woken(t) \/ Done(t)
      PROVE  Kept
  BY Zenon, <1>1, StepLookup, StepScanWait, StepScanHit, StepScanMiss, StepReopenOk, StepReopenFail,
     StepAlloc, StepCtorOk, StepCtorFail, StepWoken, StepDone DEF Scan, Reopen, Ctor
<1>2. ASSUME NEW o \in Obj, Reap(o) \/ Free(o)
      PROVE  Kept
  BY Zenon, <1>2, StepReap, StepFree
<1>3. CASE UNCHANGED vars
  <2>1. TypeOK'
    BY Zenon, <1>3 DEF vars, IInv, TypeOK
  <2>. QED
    BY Zenon, <1>3, <2>1, StepQuiet DEF vars
<1>. QED
  BY Zenon, <1>1, <1>2, <1>3 DEF Next

LEMMA FidCacheIInv == Spec => []IInv
<1>1. IInv /\ [Next]_vars => IInv'
  BY Zenon, NextIInv DEF Kept
<1>. QED
  BY <1>1, InitIInv, PTL DEF Spec

(* fcmh_op_start_type() and fcmh_op_done_type() are balanced: a handle's   *)
(* count is the number of threads that use it or wait for it, and a handle *)
(* in use is in the hash table.                                            *)
THEOREM FidRefsCounted == Spec => []RefsCounted
<1>1. IInv => RefsCounted
  BY Zenon DEF IInv
<1>. QED
  BY <1>1, FidCacheIInv, PTL

(* A handle is destroyed by one thread only, and by then no other thread   *)
(* uses it: what fcmh_destroy() asserts.                                   *)
THEOREM FidFreedOnce == Spec => []FreedOnce
<1>1. IInv => FreedOnce
  BY Zenon DEF IInv
<1>. QED
  BY <1>1, FidCacheIInv, PTL

(* _fidc_lookup() never makes a second handle that lookups of the same     *)
(* FID can find, although it allocates without the bucket's lock.          *)
THEOREM FidOneFound == Spec => []OneFound
<1>1. IInv => OneFound
  BY Zenon DEF IInv
<1>. QED
  BY <1>1, FidCacheIInv, PTL

(* The idle list is exact: fidc_reap() frees no handle that is used, and   *)
(* overlooks none.                                                         *)
THEOREM FidIdleExact == Spec => []IdleExact
<1>1. IInv => IdleExact
  BY Zenon DEF IInv
<1>. QED
  BY <1>1, FidCacheIInv, PTL

LEMMA RefInit == Init => RC!RCInit
<1> SUFFICES ASSUME Init PROVE RC!RCInit
  BY Zenon
<1>1. fcmh \in [Obj -> FcmhRec]
  BY Zenon, InitIInv, TypeOKRecs DEF IInv, RecsOK
<1>2. \A t \in Thread : thr[t].f = NoObj
  BY Zenon, IdlerFields DEF Init
<1>3. \A o \in Obj : Shown(o) = "free"
  BY Zenon DEF Init, Blank, Shown
<1>4. \A o \in Obj : fcmh[o].fid \in Fid
  BY Zenon, <1>1 DEF FcmhRec
<1>. QED
  BY Zenon, <1>2, <1>3, <1>4 DEF RC!RCInit, ShownState, ShownKey, ShownUse

(* The FID cache implements RefCache: every step of a lookup, of the       *)
(* reaper and of the threads that free handles is a step of RefCache or    *)
(* none that its users see.                                                *)
THEOREM FidKeepsPromise == Spec => KeepsPromise
<1>1. IInv /\ [Next]_vars => [RC!RCNext]_(RC!rcvars)
  BY Zenon, NextIInv DEF Kept, Promised
<1>. QED
  BY <1>1, RefInit, FidCacheIInv, PTL DEF Spec, KeepsPromise, RC!RCSpec

\* What RefCache promises implies what the users of a cache rely on.
PromiseInv == RC!RefCacheTypeOK /\ RC!InUse /\ RC!OneLive

LEMMA PromiseInit == RC!RCInit => PromiseInv
  BY Zenon DEF RC!RCInit, PromiseInv, RC!RefCacheTypeOK, RC!InUse, RC!OneLive

LEMMA PromiseNext == PromiseInv /\ [RC!RCNext]_(RC!rcvars) => PromiseInv'
<1> SUFFICES ASSUME PromiseInv, [RC!RCNext]_(RC!rcvars) PROVE PromiseInv'
  BY Zenon
<1> USE DEF PromiseInv, RC!RefCacheTypeOK, RC!InUse, RC!OneLive
<1>1. ASSUME NEW u \in Thread, NEW k \in Fid, NEW o \in Obj, RC!Create(u, k, o)
      PROVE  PromiseInv'
  BY Zenon, <1>1 DEF RC!Create, RC!Live
<1>2. ASSUME NEW u \in Thread, NEW o \in Obj, RC!Acquire(u, o)
      PROVE  PromiseInv'
  BY Zenon, <1>2 DEF RC!Acquire
<1>3. ASSUME NEW u \in Thread, RC!Drop(u)
      PROVE  PromiseInv'
  BY Zenon, <1>3 DEF RC!Drop
<1>4. ASSUME NEW o \in Obj, RC!Doom(o)
      PROVE  PromiseInv'
  BY Zenon, <1>4 DEF RC!Doom
<1>5. ASSUME NEW o \in Obj, RC!Destroy(o)
      PROVE  PromiseInv'
  BY Zenon, <1>5 DEF RC!Destroy
<1>6. CASE UNCHANGED RC!rcvars
  BY Zenon, <1>6 DEF RC!rcvars
<1>. QED
  BY Zenon, <1>1, <1>2, <1>3, <1>4, <1>5, <1>6 DEF RC!RCNext

(* An object that somebody holds has not been freed (InUse), and a key has *)
(* at most one object that a lookup may return (OneLive), in every cache   *)
(* that keeps the promise of RefCache.  The proof expands nothing of the   *)
(* FID cache: ShownState, ShownKey and ShownUse stand for any values.      *)
THEOREM RefCacheSafe == RC!RCSpec => [](RC!InUse /\ RC!OneLive)
<1>1. PromiseInv => RC!InUse /\ RC!OneLive
  BY Zenon DEF PromiseInv
<1>. QED
  BY <1>1, PromiseInit, PromiseNext, PTL DEF RC!RCSpec

(* So a handle that a thread holds has not been freed, and a FID has at    *)
(* most one handle that _fidc_lookup() may return.                         *)
THEOREM FidPromiseSafe == Spec => [](RC!InUse /\ RC!OneLive)
  BY RefCacheSafe, FidKeepsPromise, PTL DEF KeepsPromise
===============================================================================
