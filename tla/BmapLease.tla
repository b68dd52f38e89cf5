------------------------------ MODULE BmapLease ------------------------------
(***************************************************************************)
(* The leases of one bmap: the lease table of the metadata server          *)
(* (slashd/mds.c, mds_bmap_timeo.c), the BMAPDIO callback that makes a     *)
(* client give up caching (slashd/coh.c, mount_slash/rcm.c) and what each  *)
(* client believes it holds (mount_slash/bmap_cli.c).  A step is what one  *)
(* thread does while it holds the bmap's lock; a thread that waits for     *)
(* BMAPF_IOSASSIGNED, or does I/O behind it, lets the others run.          *)
(*                                                                         *)
(* One request per client is on the wire: BMAPF_LOADING and BMAPF_MODECHNG *)
(* serialise them.  Releases and callbacks travel on their own.            *)
(***************************************************************************)
EXTENDS Naturals, FiniteSets, SequencesExt

CONSTANTS Client,
          Ops,          \* the requests the clients send (a subset of AllOps)
          Faults,       \* the failures that happen (a subset of AllFaults)
          MaxReq,       \* bound: requests issued, the retries of a DIOWAIT excluded
          Nobody        \* "no client"

AllOps == {"get", "chwr", "ext"}
(* A BMAPDIO or a FILECB cannot be sent; a message is lost; the MDS forgets *)
(* a file callback; no I/O server, or no odtable slot, for a write lease.   *)
AllFaults == {"bmapdio", "filecb", "lost", "forget", "ios"}
Slot == 1 .. MaxReq

ASSUME OpsAssumption == Ops \subseteq AllOps /\ Faults \subseteq AllFaults
ASSUME ClientAssumption == IsFiniteSet(Client) /\ Nobody \notin Client
ASSUME MaxReqAssumption == MaxReq \in Nat

VARIABLES
  mds,        \* the bmap on the MDS: its leases, bmi counters, flags, timeout queue
  callbacks,  \* fmi_callbacks: the clients registered on the file
  thr,        \* client -> the MDS thread that serves its request
  rel,        \* lease -> threads about to drop a reference to it
  rls,        \* SRMT_RELEASEBMAP requests in flight
  diorpc,     \* SRMT_BMAPDIO requests, up to the end of slm_rcm_bmapdio_cb
  cl,         \* client -> its bmap
  asked       \* the number and the kinds of the requests issued so far

vars == <<mds, callbacks, thr, rel, rls, diorpc, cl, asked>>

(* struct bmap_mds_lease; a slot of the pool that is free holds NoBml. *)
NoBml == [cli |-> Nobody, rw |-> "r", seq |-> 0, ref |-> 0, dio |-> FALSE,
          diocb |-> FALSE, freeing |-> FALSE, linked |-> FALSE]
IdleThr == [op |-> "none", pc |-> "idle", rw |-> "r", b |-> 0, ob |-> 0,
            seq |-> 0, dio |-> FALSE, rc |-> "ok"]
NoBmap == [st |-> "none", rw |-> "r", seq |-> 0, dio |-> FALSE, sdio |-> FALSE,
           valid |-> FALSE]

TypeOK ==
  /\ mds \in [bml : [Slot -> [cli : Client \cup {Nobody}, rw : {"r", "w"},
                              seq : 0 .. MaxReq, ref : Nat, dio : BOOLEAN,
                              diocb : BOOLEAN, freeing : BOOLEAN,
                              linked : BOOLEAN]],
              writers : Nat, readers : Nat, diocb : Nat, dio : BOOLEAN,
              busy : BOOLEAN, wrion : BOOLEAN, btt : Seq(Slot),
              maxseq : 0 .. MaxReq]
  /\ callbacks \subseteq Client
  /\ thr \in [Client -> [op : AllOps \cup {"none"},
                         pc : {"idle", "find", "start", "io", "relold", "reply"},
                         rw : {"r", "w"}, b : Slot \cup {0}, ob : Slot \cup {0},
                         seq : 0 .. MaxReq, dio : BOOLEAN,
                         rc : {"ok", "diowait", "noent", "err"}]]
  /\ rel \in [Slot -> Nat]
  /\ rls \subseteq [cli : Client, seq : 1 .. MaxReq]
  /\ diorpc \subseteq [b : Slot, cli : Client, seq : 0 .. MaxReq,
                       st : {"req", "rep", "dec"},
                       rc : {"ok", "noent", "err"}]
  /\ cl \in [Client -> [st : {"none", "loading", "held", "modechg", "extend"},
                        rw : {"r", "w"}, seq : 0 .. MaxReq, dio : BOOLEAN,
                        sdio : BOOLEAN, valid : BOOLEAN]]
  /\ asked \in [n : 0 .. MaxReq, ops : SUBSET AllOps]

Init ==
  /\ mds = [bml |-> [i \in Slot |-> NoBml], writers |-> 0, readers |-> 0,
            diocb |-> 0, dio |-> FALSE, busy |-> FALSE, wrion |-> FALSE,
            btt |-> <<>>, maxseq |-> 0]
  /\ callbacks = {} /\ rls = {} /\ diorpc = {} /\ asked = [n |-> 0, ops |-> {}]
  /\ rel = [i \in Slot |-> 0]
  /\ thr = [c \in Client |-> IdleThr]
  /\ cl = [c \in Client |-> NoBmap]

-----------------------------------------------------------------------------
(* Operators on the MDS's state m, one per function of mds.c. *)

Linked(m, c) == {i \in Slot : m.bml[i].linked /\ m.bml[i].cli = c}
Others(m, c) == {i \in Slot : m.bml[i].linked /\ m.bml[i].cli # c}

(* mds_bmap_dupls_find: the client's write and read leases. *)
wlease(m, c) == Cardinality({i \in Linked(m, c) : m.bml[i].rw = "w"})
rlease(m, c) == Cardinality({i \in Linked(m, c) : m.bml[i].rw = "r"})

(* mds_bmap_getbml: the lease with this number, unless it is being freed. *)
getbml(m, c, seq) ==
  {i \in Linked(m, c) : m.bml[i].seq = seq /\ ~m.bml[i].freeing}

Ref(m, i) == [m EXCEPT !.bml[i].ref = @ + 1]

FreeSlot(m) == CHOOSE i \in Slot : /\ m.bml[i] = NoBml
                                   /\ \A j \in 1 .. i - 1 : m.bml[j] # NoBml

(* mds_bml_new. *)
BmlNew(m, i, c, rw) == [m EXCEPT !.bml[i] = [NoBml EXCEPT !.cli = c, !.rw = rw, !.ref = 1]]

(* mds_bmap_directio for a request of client c.  Leases of other clients   *)
(* that may still cache must be called back first.                         *)
Conflict(m, rw) == m.diocb > 0 \/ m.writers > 0 \/ (rw = "w" /\ m.readers > 0)
MustWait(m, c, rw) == Conflict(m, rw) /\ \E i \in Others(m, c) : ~m.bml[i].dio
ToCall(m, c, rw) ==
  {i \in Others(m, c) : Conflict(m, rw) /\ ~m.bml[i].dio /\ ~m.bml[i].diocb}

(* mdscoh_req: of the leases to call, those whose callback was sent, and   *)
(* those whose send failed: bml_refcnt stays raised.  The others were not  *)
(* connected.                                                              *)
CohReq(m, sent, failed) ==
  [m EXCEPT !.bml = [i \in Slot |->
               IF i \in sent THEN [m.bml[i] EXCEPT !.ref = @ + 1, !.diocb = TRUE]
               ELSE IF i \in failed THEN [m.bml[i] EXCEPT !.ref = @ + 1]
               ELSE m.bml[i]],
            !.diocb = @ + Cardinality(sent)]

DioFlag(m, c, rw, ncb) ==
  \/ ~MustWait(m, c, rw) /\ (m.diocb > 0 \/ (Conflict(m, rw) /\ Others(m, c) # {}))
  \/ ncb > 1

Directio(m, c, rw, ncb, sent, failed) ==
  [CohReq(m, sent, failed) EXCEPT !.dio = DioFlag(m, c, rw, ncb)]

\* Mutant: a client that becomes a writer stays counted as a reader.
LinkKeepReader(m, i) ==
  LET c == m.bml[i].cli
  IN [m EXCEPT !.bml[i].linked = TRUE,
               !.writers = IF m.bml[i].rw = "w" /\ wlease(m, c) = 0 THEN @ + 1 ELSE @,
               !.readers = IF m.bml[i].rw = "r" /\ wlease(m, c) + rlease(m, c) = 0
                           THEN @ + 1 ELSE @]

(* mds_bmap_bml_add: the lease joins the client's chain, and the counts    *)
(* of clients that write and of clients that only read follow.             *)
Link(m, i) ==
  LET c == m.bml[i].cli
      first == m.bml[i].rw = "w" /\ wlease(m, c) = 0
  IN [m EXCEPT !.bml[i].linked = TRUE,
               !.writers = IF first THEN @ + 1 ELSE @,
               !.readers = IF m.bml[i].rw = "r"
                           THEN IF wlease(m, c) + rlease(m, c) = 0 THEN @ + 1 ELSE @
                           ELSE IF first /\ rlease(m, c) > 0 THEN @ - 1 ELSE @]

(* mds_bmap_timeotbl_mdsi with BTE_ADD: a new sequence number, at the tail. *)
TimeoAdd(m, i) ==
  [m EXCEPT !.maxseq = @ + 1,
            !.bml[i].seq = m.maxseq + 1,
            !.btt = Append(SelectSeq(@, LAMBDA j : j # i), i)]

(* mds_bmap_bml_del_locked. *)
DelLocked(m, i) ==
  LET c == m.bml[i].cli
      w == m.bml[i].rw = "w"
      last == w /\ wlease(m, c) = 1
  IN [m EXCEPT !.bml[i].linked = FALSE,
               !.writers = IF last THEN @ - 1 ELSE @,
               !.readers = IF last /\ rlease(m, c) > 0 THEN @ + 1
                           ELSE IF ~w /\ wlease(m, c) = 0 /\ rlease(m, c) = 1
                           THEN @ - 1 ELSE @]

(* mds_bmap_bml_release, once BMAPF_IOSASSIGNED is clear: drop a reference *)
(* and, with the last one of a lease being freed, the lease.               *)
BmlFree(m, i) ==
  LET q == [m EXCEPT !.btt = SelectSeq(@, LAMBDA j : j # i)]
      d == DelLocked(q, i)
      alone == d.writers = 0 \/ (d.writers = 1 /\ d.readers = 0)
      f == [d EXCEPT !.dio = @ /\ ~alone,
                     !.wrion = @ /\ ~(m.bml[i].rw = "w" /\ d.writers = 0)]
      u == IF m.bml[i].linked THEN f ELSE q
  IN [u EXCEPT !.bml[i] = NoBml]

BmlRelease(m, i) ==
  LET r == [m EXCEPT !.bml[i].ref = @ - 1]
  IN IF r.bml[i].ref > 0 \/ ~r.bml[i].freeing THEN r ELSE BmlFree(r, i)

Freeing(m, i) == [m EXCEPT !.bml[i].freeing = TRUE]

(* mds_bmap_ios_assign or mds_bmap_ios_update: the I/O of a write lease,   *)
(* behind BMAPF_IOSASSIGNED.  It fails before an I/O server is bound, or   *)
(* after (no slot in the odtable, an error in mds_bmap_add_repl).          *)
IosOutcomes == IF "ios" \in Faults THEN {"ok", "unselected", "unassigned"} ELSE {"ok"}
IosIo(m, i, out) ==
  IF out = "unselected" THEN m ELSE [TimeoAdd(m, i) EXCEPT !.wrion = TRUE]
-----------------------------------------------------------------------------
(* The MDS threads. *)

Reply(c, r, seq, dio) ==
  [IdleThr EXCEPT !.op = thr[c].op, !.pc = "reply", !.rc = r, !.seq = seq, !.dio = dio]

(* slm_fcmh_coherent_callback, then for an extension or an upgrade the     *)
(* lookup of the lease.  An upgrade of a lease that is gone fails; an      *)
(* extension goes on without it.                                           *)
Find(c) ==
  LET t == thr[c]
      found == IF t.op = "get" THEN {} ELSE getbml(mds, c, t.seq)
  IN /\ t.pc = "find"
     /\ callbacks' = IF t.op = "chwr" THEN callbacks ELSE callbacks \cup {c}
     /\ \/ /\ t.op = "chwr" /\ found = {}
           /\ thr' = [thr EXCEPT ![c] = Reply(c, "noent", 0, FALSE)]
           /\ UNCHANGED mds
        \/ /\ found = {} /\ t.op # "chwr"
           /\ thr' = [thr EXCEPT ![c].pc = "start"]
           /\ UNCHANGED mds
        \/ \E i \in found :
             /\ thr' = [thr EXCEPT ![c].pc = "start", ![c].ob = i]
             /\ mds' = Ref(mds, i)
     /\ UNCHANGED <<rel, rls, diorpc, cl, asked>>

(* The registration sends FILECB to the first other client; if that cannot *)
(* be sent the request fails.  (mds_lease_renew then tests obml, which it  *)
(* has not set: it finds NULL there, or crashes.)                          *)
FindFail(c) ==
  /\ thr[c].pc = "find" /\ thr[c].op # "chwr"
  /\ "filecb" \in Faults /\ Cardinality(callbacks) = 1 /\ c \notin callbacks
  /\ callbacks' = callbacks \cup {c}
  /\ thr' = [thr EXCEPT ![c] = Reply(c, "err", 0, FALSE)]
  /\ UNCHANGED <<mds, rel, rls, diorpc, cl, asked>>

(* The callbacks of mds_bmap_directio: which are sent, which fail. *)
Called(m, c, rw) ==
  {p \in (SUBSET ToCall(m, c, rw)) \X (SUBSET ToCall(m, c, rw)) :
     p[1] \cap p[2] = {} /\ ("bmapdio" \in Faults \/ p[2] = {})}

DioReq(sent) ==
  {[b |-> i, cli |-> mds.bml[i].cli, seq |-> mds.bml[i].seq, st |-> "req", rc |-> "ok"] :
     i \in sent}

\* Mutant: an extension does not drop its reference on the lease it replaces.
AfterNoRelease(c, r, seq, dio) == Reply(c, r, seq, dio)

(* What is left of an extension that ends: the lease it replaces. *)
After(c, r, seq, dio) ==
  IF thr[c].op = "ext" /\ thr[c].ob # 0
  THEN [Reply(c, r, seq, dio) EXCEPT !.pc = "relold", !.ob = thr[c].ob]
  ELSE Reply(c, r, seq, dio)

FreeOld(m, c) == IF thr[c].ob # 0 THEN Freeing(m, thr[c].ob) ELSE m

\* Mutant: BML_DIO is not passed on to the new lease.
GrantedCaching(m, i) == BmlRelease(m, i)

(* The lease has been added: BML_DIO follows the bmap, and the reference   *)
(* of the handler goes.                                                    *)
Granted(m, i) == BmlRelease([m EXCEPT !.bml[i].dio = @ \/ m.dio], i)

(* mds_bmap_bml_add for a new lease (mds_bmap_load_cli, mds_lease_renew):  *)
(* refused while other clients still cache; a read lease is granted in one *)
(* critical section; a write lease goes on to the I/O.                     *)
AddStart(c) ==
  LET t == thr[c]
      i == FreeSlot(mds)
  IN /\ t.pc = "start" /\ t.op # "chwr" /\ ~mds.busy
     /\ \E p \in Called(mds, c, t.rw) :
          LET m == Directio(mds, c, t.rw, Cardinality(callbacks), p[1], p[2])
              a == Link(BmlNew(m, i, c, t.rw), i)
              g == Granted(TimeoAdd(a, i), i)
          IN /\ diorpc' = diorpc \cup DioReq(p[1])
             /\ \/ /\ MustWait(mds, c, t.rw)
                   /\ mds' = m
                   /\ thr' = [thr EXCEPT ![c] = After(c, "diowait", 0, FALSE)]
                \/ /\ ~MustWait(mds, c, t.rw) /\ t.rw = "r"
                   /\ mds' = FreeOld(g, c)
                   /\ thr' = [thr EXCEPT ![c] = After(c, "ok", g.maxseq, g.dio)]
                \/ /\ ~MustWait(mds, c, t.rw) /\ t.rw = "w"
                   /\ mds' = [a EXCEPT !.busy = TRUE]
                   /\ thr' = [thr EXCEPT ![c].pc = "io", ![c].b = i]
     /\ UNCHANGED <<callbacks, rel, rls, cl, asked>>

(* The end of the I/O of a new write lease. *)
AddIo(c) ==
  LET t == thr[c]
  IN /\ t.pc = "io" /\ t.op # "chwr"
     /\ \E out \in IosOutcomes :
          LET m == [IosIo(mds, t.b, out) EXCEPT !.busy = FALSE]
          IN /\ out = "unselected" => ~mds.wrion
             /\ IF out = "ok"
                THEN /\ mds' = FreeOld(Granted(m, t.b), c)
                     /\ thr' = [thr EXCEPT ![c] = After(c, "ok", m.maxseq, m.dio)]
                ELSE /\ mds' = BmlRelease(Freeing(m, t.b), t.b)
                     /\ thr' = [thr EXCEPT ![c] = After(c, "err", 0, FALSE)]
     /\ UNCHANGED <<callbacks, rel, rls, diorpc, cl, asked>>

(* mds_lease_renew drops its reference on the lease it found. *)
RelOld(c) ==
  /\ thr[c].pc = "relold" /\ ~mds.busy
  /\ mds' = BmlRelease(mds, thr[c].ob)
  /\ thr' = [thr EXCEPT ![c].pc = "reply", ![c].ob = 0]
  /\ UNCHANGED <<callbacks, rel, rls, diorpc, cl, asked>>

(* mds_bmap_bml_chwrmode, and the release at the end of its handler. *)
ChwrStart(c) ==
  LET t == thr[c]
      i == t.ob
  IN /\ t.pc = "start" /\ t.op = "chwr" /\ ~mds.busy
     /\ \/ /\ mds.bml[i].rw = "w"
           /\ mds' = BmlRelease(mds, i)
           /\ thr' = [thr EXCEPT ![c] = Reply(c, "ok", mds.bml[i].seq, t.dio)]
           /\ UNCHANGED diorpc
        \/ /\ mds.bml[i].rw = "r"
           /\ \E p \in Called(mds, c, "w") :
                LET m == Directio(mds, c, "w", Cardinality(callbacks), p[1], p[2])
                IN /\ diorpc' = diorpc \cup DioReq(p[1])
                   /\ IF MustWait(mds, c, "w")
                      THEN /\ mds' = BmlRelease(m, i)
                           /\ thr' = [thr EXCEPT ![c] = Reply(c, "diowait", 0, FALSE)]
                      ELSE /\ mds' = [m EXCEPT !.busy = TRUE]
                           /\ thr' = [thr EXCEPT ![c].pc = "io"]
     /\ UNCHANGED <<callbacks, rel, rls, cl, asked>>

Upgrade(m, i) ==
  LET first == wlease(m, m.bml[i].cli) = 0
  IN [m EXCEPT !.bml[i].rw = "w",
               !.writers = IF first THEN @ + 1 ELSE @,
               !.readers = IF first THEN @ - 1 ELSE @]

(* The reply repeats the descriptor of the request: only the sequence      *)
(* number and the I/O server are set in it.                                *)
ChwrIo(c) ==
  LET t == thr[c]
      i == t.ob
  IN /\ t.pc = "io" /\ t.op = "chwr"
     /\ \E out \in IosOutcomes :
          LET m == [IosIo(mds, i, out) EXCEPT !.busy = FALSE]
          IN /\ out = "unselected" => ~mds.wrion
             /\ IF out = "ok"
                THEN /\ mds' = BmlRelease(Upgrade(m, i), i)
                     /\ thr' = [thr EXCEPT ![c] = Reply(c, "ok", m.bml[i].seq, t.dio)]
                ELSE /\ mds' = BmlRelease(Freeing(m, i), i)
                     /\ thr' = [thr EXCEPT ![c] = Reply(c, "err", 0, FALSE)]
     /\ UNCHANGED <<callbacks, rel, rls, diorpc, cl, asked>>

(* mds_bmap_bml_release by a thread that holds the bmap's lock: it has to  *)
(* wait, and lets the lock go, while BMAPF_IOSASSIGNED is set.             *)
LetGo(m, i) ==
  IF m.busy THEN mds' = m /\ rel' = [rel EXCEPT ![i] = @ + 1]
  ELSE mds' = BmlRelease(m, i) /\ UNCHANGED rel

(* mds_handle_rls_bmap. *)
RlsFind(r) ==
  LET found == getbml(mds, r.cli, r.seq)
  IN /\ rls' = rls \ {r}
     /\ \/ found = {} /\ UNCHANGED <<mds, rel>>
        \/ \E i \in found : LetGo(Ref(Freeing(mds, i), i), i)
     /\ UNCHANGED <<callbacks, thr, diorpc, cl, asked>>

Release(i) ==
  /\ rel[i] > 0 /\ ~mds.busy
  /\ mds' = BmlRelease(mds, i)
  /\ rel' = [rel EXCEPT ![i] = @ - 1]
  /\ UNCHANGED <<callbacks, thr, rls, diorpc, cl, asked>>

\* Mutant: the MDS does not wait longer than the client.
TimedOutEarly(i) == TRUE

(* slmbmaptimeothr_begin looks at the oldest lease only, and leaves it     *)
(* alone while it is referenced or being freed.  Time: a lease lasts four  *)
(* times as long on the MDS (BMAP_TIMEO_MAX) as for the client             *)
(* (BMAP_CLI_MAX_LEASE), so it expires only after the client has stopped   *)
(* relying on it, or has been told of a later one.                         *)
TimedOut(i) ==
  LET c == mds.bml[i].cli
  IN /\ cl[c].valid => cl[c].seq > mds.bml[i].seq
     /\ thr[c].pc = "reply" /\ thr[c].rc = "ok" => thr[c].seq > mds.bml[i].seq

TimeoHead == mds.btt # <<>> /\ mds.bml[Head(mds.btt)].ref = 0

Timeout ==
  LET i == Head(mds.btt)
  IN /\ TimeoHead /\ ~mds.bml[i].freeing
     /\ TimedOut(i)
     /\ mds' = Ref(Freeing(mds, i), i)
     /\ rel' = [rel EXCEPT ![i] = @ + 1]
     /\ UNCHANGED <<callbacks, thr, rls, diorpc, cl, asked>>

(* The same thread forgets a file callback after slm_callback_timeout. *)
CallbackTimeout(c) ==
  /\ "forget" \in Faults /\ c \in callbacks
  /\ callbacks' = callbacks \ {c}
  /\ UNCHANGED <<mds, thr, rel, rls, diorpc, cl, asked>>

-----------------------------------------------------------------------------
(* The BMAPDIO callback. *)

Step(d, new) == diorpc' = (diorpc \ {d}) \cup {new}

(* msrcm_handle_bmapdio: bmap_lookup waits for BMAPF_LOADING. *)
HandleBmapdio(d) ==
  LET k == cl[d.cli]
      hit == k.st # "none" /\ ~k.dio /\ k.seq = d.seq
  IN /\ d.st = "req" /\ k.st \notin {"loading", "extend"}
     /\ cl' = [cl EXCEPT ![d.cli].dio = @ \/ hit]
     /\ Step(d, [d EXCEPT !.st = "rep",
                          !.rc = IF k.st = "none" THEN "noent"
                                 ELSE IF k.dio \/ hit THEN "ok" ELSE "err"])
     /\ UNCHANGED <<mds, callbacks, thr, rel, rls, asked>>

(* The RPC times out before or after the client has handled it. *)
BmapdioFail(d) ==
  /\ "lost" \in Faults
  /\ d.st \in {"req", "rep"} /\ d.rc # "err"
  /\ Step(d, [d EXCEPT !.st = "rep", !.rc = "err"])
  /\ UNCHANGED <<mds, callbacks, thr, rel, rls, cl, asked>>

(* slm_rcm_bmapdio_cb and slm_coh_bml_release, lock by lock. *)
BmapdioCb(d) ==
  /\ d.st = "rep" /\ d.rc # "err"
  /\ mds' = [mds EXCEPT !.bml[d.b].dio = TRUE]
  /\ Step(d, [d EXCEPT !.st = "dec", !.rc = "ok"])
  /\ UNCHANGED <<callbacks, thr, rel, rls, cl, asked>>

CohRelease(d) ==
  /\ d.st = "dec" \/ (d.st = "rep" /\ d.rc = "err")
  /\ LetGo([mds EXCEPT !.diocb = @ - 1, !.bml[d.b].diocb = FALSE], d.b)
  /\ diorpc' = diorpc \ {d}
  /\ UNCHANGED <<callbacks, thr, rls, cl, asked>>

-----------------------------------------------------------------------------
(* The clients. *)

Ask(o) ==
  /\ o \in Ops /\ asked.n < MaxReq
  /\ asked' = [n |-> asked.n + 1, ops |-> asked.ops \cup {o}]

Send(c, o, rw, seq, dio) ==
  thr' = [thr EXCEPT ![c] = [IdleThr EXCEPT !.op = o, !.pc = "find", !.rw = rw,
                                            !.seq = seq, !.dio = dio]]

(* bmap_get of a bmap that is not cached: msl_bmap_retrieve. *)
Retrieve(c, rw) ==
  /\ Ask("get")
  /\ cl[c].st = "none" /\ thr[c].pc = "idle"
  /\ cl' = [cl EXCEPT ![c] = [NoBmap EXCEPT !.st = "loading", !.rw = rw]]
  /\ Send(c, "get", rw, 0, FALSE)
  /\ UNCHANGED <<mds, callbacks, rel, rls, diorpc>>

(* bmap_get for writing of a bmap held for reading: msl_bmap_modeset.  The *)
(* request carries the descriptor last received.                           *)
Modeset(c) ==
  /\ Ask("chwr")
  /\ cl[c].st = "held" /\ cl[c].rw = "r"
  /\ cl' = [cl EXCEPT ![c].st = "modechg"]
  /\ Send(c, "chwr", "w", cl[c].seq, cl[c].sdio)
  /\ UNCHANGED <<mds, callbacks, rel, rls, diorpc>>

(* msl_bmap_lease_extend; the lease asked for is a write lease if the      *)
(* descriptor names an I/O server.                                         *)
LeaseExtend(c) ==
  /\ Ask("ext")
  /\ cl[c].st = "held"
  /\ cl' = [cl EXCEPT ![c].st = "extend"]
  /\ Send(c, "ext", cl[c].rw, cl[c].seq, FALSE)
  /\ UNCHANGED <<mds, callbacks, rel, rls, diorpc>>

(* msl_bmap_stash_lease: BMAPF_DIO may be cleared here, never set. *)
Stash(k, seq, dio) ==
  [k EXCEPT !.seq = seq, !.sdio = dio, !.dio = @ /\ dio, !.valid = TRUE]

(* msl_bmap_reap_init, on retrieval only: BMAPF_DIO is set. *)
ReapInit(k) == [k EXCEPT !.dio = @ \/ k.sdio]

Held(k) == [k EXCEPT !.st = "held"]

(* The reply is processed, or an error is seen in its place. *)
ReplyOk(c) ==
  LET t == thr[c]
      k == Stash(cl[c], t.seq, t.dio)
  IN /\ t.pc = "reply" /\ t.rc = "ok"
     /\ cl' = [cl EXCEPT ![c] =
                 Held(CASE t.op = "get" -> ReapInit(k)
                        [] t.op = "chwr" -> [k EXCEPT !.rw = "w"]
                        [] t.op = "ext" -> k)]
     /\ thr' = [thr EXCEPT ![c] = IdleThr]
     /\ UNCHANGED <<mds, callbacks, rel, rls, diorpc, asked>>

ReplyErr(c) ==
  /\ thr[c].pc = "reply" /\ (thr[c].rc = "ok" => "lost" \in Faults)
  /\ cl' = [cl EXCEPT ![c] = IF thr[c].op = "get" THEN NoBmap ELSE Held(@)]
  /\ thr' = [thr EXCEPT ![c] = IdleThr]
  /\ UNCHANGED <<mds, callbacks, rel, rls, diorpc, asked>>

(* msl_bmap_diowait: a retrieval and a mode change are sent again, up to   *)
(* BMAP_DIOWAIT_MAX_TRIES times (then ReplyErr).                           *)
Diowait(c) ==
  /\ thr[c].pc = "reply" /\ thr[c].rc = "diowait" /\ thr[c].op # "ext"
  /\ Send(c, thr[c].op, IF thr[c].op = "chwr" THEN "w" ELSE cl[c].rw, cl[c].seq, cl[c].sdio)
  /\ UNCHANGED <<mds, callbacks, rel, rls, diorpc, cl, asked>>

(* _bmap_get: when the lease to upgrade is gone, the bmap is retrieved for *)
(* writing instead.                                                        *)
Reload(c) ==
  /\ thr[c].pc = "reply" /\ thr[c].rc = "noent" /\ Ask("get")
  /\ cl' = [cl EXCEPT ![c].st = "loading", ![c].rw = "w"]
  /\ Send(c, "get", "w", 0, FALSE)
  /\ UNCHANGED <<mds, callbacks, rel, rls, diorpc>>

(* bci_etime passes: cached pages are no longer served without renewal. *)
CliExpire(c) ==
  /\ cl[c].st = "held" /\ cl[c].valid
  /\ cl' = [cl EXCEPT ![c].valid = FALSE]
  /\ UNCHANGED <<mds, callbacks, thr, rel, rls, diorpc, asked>>

(* msbreleasethr_main gives an idle bmap up, and msl_bmap_release tells    *)
(* the MDS, directly or through the I/O server, if the request can be sent. *)
CliRelease(c) ==
  /\ cl[c].st = "held"
  /\ cl' = [cl EXCEPT ![c] = NoBmap]
  /\ \/ rls' = rls \cup {[cli |-> c, seq |-> cl[c].seq]}
     \/ "lost" \in Faults /\ UNCHANGED rls
  /\ UNCHANGED <<mds, callbacks, thr, rel, diorpc, asked>>

-----------------------------------------------------------------------------
Thread(c) == Find(c) \/ FindFail(c) \/ AddStart(c) \/ AddIo(c) \/ RelOld(c)
               \/ ChwrStart(c) \/ ChwrIo(c)
Dio(d) == HandleBmapdio(d) \/ BmapdioFail(d) \/ BmapdioCb(d) \/ CohRelease(d)
Replied(c) == ReplyOk(c) \/ ReplyErr(c) \/ Diowait(c) \/ Reload(c)

Next ==
  \/ \E c \in Client :
       \/ Thread(c) \/ Replied(c)
       \/ \E rw \in {"r", "w"} : Retrieve(c, rw)
       \/ Modeset(c) \/ LeaseExtend(c) \/ CliExpire(c) \/ CliRelease(c)
       \/ CallbackTimeout(c)
  \/ \E d \in diorpc : Dio(d)
  \/ \E r \in rls : RlsFind(r)
  \/ \E i \in Slot : Release(i)
  \/ Timeout

Spec == Init /\ [][Next]_vars

-----------------------------------------------------------------------------
(* An I/O server is bound to the bmap exactly while some client may write: *)
(* mds_bmap_bml_add asserts it both ways before it assigns or updates.  A  *)
(* failed upgrade (mds_bmap_bml_chwrmode) breaks that.                     *)
WrIonBound ==
  "chwr" \notin asked.ops /\ ~mds.busy => (mds.wrion <=> mds.writers > 0)

(* bmi_writers is the number of clients with a write lease, bmi_readers    *)
(* that of the clients with read leases only (the comment in               *)
(* mds_bmap_bml_add), and bmi_diocb that of the leases with a callback     *)
(* out.  Three functions maintain them by difference.  The I/O server is   *)
(* bound while it should be.                                               *)
Counted ==
  LET m == mds
      W == {c \in Client : wlease(m, c) > 0}
  IN /\ m.writers = Cardinality(W)
     /\ m.readers = Cardinality({c \in Client \ W : rlease(m, c) > 0})
     /\ m.diocb = Cardinality({i \in Slot : m.bml[i].diocb})
     /\ WrIonBound

(* No lease is freed while a thread or a callback still uses it, and none  *)
(* keeps a reference that nobody will drop: bml_refcnt counts the threads  *)
(* and the callbacks that have the lease in hand.                          *)
RefsHeld ==
  \A i \in Slot :
    mds.bml[i].ref = rel[i] + Cardinality({d \in diorpc : d.b = i})
                     + Cardinality({c \in Client : thr[c].ob = i})
                     + Cardinality({c \in Client : thr[c].b = i /\ thr[c].pc = "io"})

(* As the MDS sees it: once a lease is granted, a client may cache only    *)
(* while no other client may write (mds_bmap_directio).  An upgraded lease *)
(* is not marked.                                                          *)
LeaseCoherent ==
  "chwr" \notin asked.ops /\ ~mds.busy => \A i, j \in Slot :
    /\ mds.bml[i].linked /\ mds.bml[j].linked
    /\ mds.bml[i].cli # mds.bml[j].cli /\ mds.bml[j].rw = "w"
    => mds.bml[i].dio

(* As the clients see it: of two clients that hold the bmap, one of them   *)
(* for writing, neither caches ("file data are protected by leases",       *)
(* mount_slash/rcm.c).  This is so for leases that were retrieved; what an *)
(* upgrade and an extension answer does not tell the client (asked.ops).   *)
Holds(c) == cl[c].st = "held" /\ cl[c].valid
CacheCoherent ==
  asked.ops \subseteq {"get"} => \A c, d \in Client :
    c # d /\ Holds(c) /\ Holds(d) /\ cl[d].rw = "w" => cl[c].dio /\ cl[d].dio

(* Leases protect file data, on the MDS and for the clients.               *)
Coherent == LeaseCoherent /\ CacheCoherent

(* A client that relies on the bmap has a lease on the MDS, whatever was   *)
(* lost, delayed, renewed or timed out; an upgrade may lose its lease.     *)
ValidIsLeased == "chwr" \notin asked.ops => \A c \in Client : Holds(c) => Linked(mds, c) # {}

=============================================================================
