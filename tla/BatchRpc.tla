------------------------------ MODULE BatchRpc ------------------------------
(***************************************************************************)
(* Batched RPCs (share/batchrpc.c).  Threads add items of work to a batch  *)
(* for their destination; a sender thread sends batches that are full or   *)
(* expired, at most MaxInflight per destination at a time; the peer         *)
(* acknowledges a batch, works on it and replies later with an RPC of its  *)
(* own, which is matched by the id of the batch.  Whoever takes a batch     *)
(* off the list of those that wait for a reply (a reply, a failed send, a  *)
(* dropped connection) leaves a work item with a worker thread, which calls *)
(* back every item of the batch and frees it.                              *)
(*                                                                         *)
(* Every item is added by a thread of its own.  Objects are reused, and a  *)
(* pointer to one may outlive the batch it was for.                        *)
(***************************************************************************)
EXTENDS Integers, FiniteSets

CONSTANTS
    Obj,         \* objects of slrpc_batch_req_pool
    Item,        \* items of work
    Far,         \* the items for the second of two destinations
    Size,        \* bq_size: items in a full batch
    MaxInflight, \* slrpc_batch_max_inflight
    FaultPlans   \* the faults a behaviour may have: records of "may", a subset of
                 \* {"new", "send", "ack", "drop", "die"}, and "left", their bound

ASSUME Sizes ==
    /\ Size \in Nat \ {0} /\ MaxInflight \in Nat \ {0}
    /\ IsFiniteSet(Obj) /\ IsFiniteSet(Item) /\ Far \subseteq Item
    /\ FaultPlans \subseteq [may : SUBSET {"new", "send", "ack", "drop", "die"}, left : Nat]

VARIABLES
    bq,       \* the objects
    add,      \* the threads that add items
    snd,      \* slrpc_batch_thr_main()
    rpc,      \* SRMT_BATCH_RQ requests that are not completed
    peer,     \* batches the peers work on
    reply,    \* SRMT_BATCH_RP requests that are not completed
    work,     \* work items of slrpc_batch_req_sched_finish(), per object
    batchcnt, \* res_batchcnt
    down,     \* destinations whose connection is lost but not yet dropped
    called,   \* what the callbacks of each item were told
    bid,      \* the last id given to a batch
    faults    \* the faults that may still happen

vars == <<bq, add, snd, rpc, peer, reply, work, batchcnt, down, called, bid, faults>>

Res == {1, 2}
To(i) == IF i \in Far THEN 2 ELSE 1

Blank == [at |-> "pool", flags |-> {}, items |-> {}, bid |-> 0, res |-> 1,
          expired |-> FALSE]

Idle == [pc |-> "idle"]
Pool == {o \in Obj : bq[o].at = "pool"}
Waitrep == {o \in Obj : bq[o].at = "waitrep"}

Fault(f) ==
    /\ f \in faults.may /\ faults.left > 0
    /\ faults' = [faults EXCEPT !.left = @ - 1]

-----------------------------------------------------------------------------
(* slrpc_batch_req_add() *)

\* The batches on the list of delayed ones that can take item i
Open(i) ==
    {o \in Obj : /\ bq[o].at = "delayed"
                 /\ Cardinality(bq[o].items) < Size
                 /\ "infl" \notin bq[o].flags
                 /\ bq[o].res = To(i)}

\* The item is put into batch o, and a batch the thread made in vain is freed
AddTo(i) ==
    /\ add[i].pc \in {"look", "made"}
    /\ \E o \in Open(i) :
          bq' = [x \in Obj |->
                   IF x = o THEN [bq[x] EXCEPT !.items = @ \cup {i}]
                   ELSE IF add[i].pc = "made" /\ x = add[i].new
                   THEN Blank
                   ELSE bq[x]]
    /\ add' = [add EXCEPT ![i] = [pc |-> "added"]]
    /\ UNCHANGED <<snd, rpc, peer, reply, work, batchcnt, down, called, bid, faults>>

AddStart(i) ==
    /\ add[i] = Idle
    /\ add' = [add EXCEPT ![i] = [pc |-> "look"]]
    /\ UNCHANGED <<bq, snd, rpc, peer, reply, work, batchcnt, down, called, bid, faults>>

\* None is found: make one, outside of the lock of the list
AddNew(i) ==
    /\ add[i].pc = "look"
    /\ Open(i) = {}
    /\ \E o \in Pool :
          /\ bq' = [bq EXCEPT ![o] = [Blank EXCEPT !.at = "made", !.bid = bid + 1,
                                                   !.res = To(i)]]
          /\ add' = [add EXCEPT ![i] = [pc |-> "made", new |-> o]]
    /\ bid' = bid + 1
    /\ UNCHANGED <<snd, rpc, peer, reply, work, batchcnt, down, called, faults>>

\* SL_RSX_NEWREQ() fails
AddFail(i) ==
    /\ add[i].pc = "look"
    /\ Open(i) = {}
    /\ Fault("new")
    /\ add' = [add EXCEPT ![i] = [pc |-> "refused"]]
    /\ UNCHANGED <<bq, snd, rpc, peer, reply, work, batchcnt, down, called, bid>>

\* Mutant: the item is put into the batch that is published, and again on the retry.
AddPublishWith(i) ==
    /\ add[i].pc = "made"
    /\ Open(i) = {}
    /\ LET o == add[i].new
       IN bq' = [bq EXCEPT ![o] = [bq[o] EXCEPT !.at = "delayed", !.flags = @ \cup {"delay"},
                                                !.items = {i}]]
    /\ add' = [add EXCEPT ![i] = [pc |-> "look"]]
    /\ UNCHANGED <<snd, rpc, peer, reply, work, batchcnt, down, called, bid, faults>>

\* Still none: put the new one on the list, and look again
AddPublish(i) ==
    /\ add[i].pc = "made"
    /\ Open(i) = {}
    /\ LET o == add[i].new
       IN bq' = [bq EXCEPT ![o] = [bq[o] EXCEPT !.at = "delayed", !.flags = @ \cup {"delay"}]]
    /\ add' = [add EXCEPT ![i] = [pc |-> "look"]]
    /\ UNCHANGED <<snd, rpc, peer, reply, work, batchcnt, down, called, bid, faults>>

\* The time of batch o comes
Expire(o) ==
    /\ bq[o].at = "delayed" /\ ~bq[o].expired
    /\ bq' = [bq EXCEPT ![o].expired = TRUE]
    /\ UNCHANGED <<add, snd, rpc, peer, reply, work, batchcnt, down, called, bid, faults>>

-----------------------------------------------------------------------------
(* The sender *)

\* Mutant: the batches in flight are not counted.
ReadyAny(o) ==
    /\ bq[o].at = "delayed" /\ bq[o].items # {}
    /\ Cardinality(bq[o].items) = Size \/ bq[o].expired

Ready(o) ==
    /\ bq[o].at = "delayed" /\ bq[o].items # {}
    /\ Cardinality(bq[o].items) = Size \/ bq[o].expired
    /\ batchcnt[bq[o].res] < MaxInflight

\* slrpc_batch_thr_main() chooses a batch, slrpc_batch_req_send() marks it
SendPick ==
    /\ snd = Idle
    /\ \E o \in Obj :
          /\ Ready(o)
          /\ bq' = [bq EXCEPT ![o].flags = (@ \cup {"infl"}) \ {"delay"}]
          /\ batchcnt' = [batchcnt EXCEPT ![bq[o].res] = @ + 1]
          /\ snd' = [pc |-> "move", o |-> o, bid |-> bq[o].bid, res |-> bq[o].res]
    /\ UNCHANGED <<add, rpc, peer, reply, work, down, called, bid, faults>>

SendMove ==
    /\ snd.pc = "move"
    /\ bq' = [bq EXCEPT ![snd.o].at = "waitrep"]
    /\ snd' = [snd EXCEPT !.pc = "send"]
    /\ UNCHANGED <<add, rpc, peer, reply, work, batchcnt, down, called, bid, faults>>

Send ==
    /\ snd.pc = "send"
    /\ rpc' = rpc \cup {[o |-> snd.o, bid |-> snd.bid, res |-> snd.res, st |-> "net"]}
    /\ snd' = Idle
    /\ UNCHANGED <<bq, add, peer, reply, work, batchcnt, down, called, bid, faults>>

\* Mutant: the batch stays on the list of those that wait for a reply.
SchedFinishListed(O) ==
    /\ UNCHANGED bq
    /\ work' = [o \in Obj |-> IF o \in O THEN work[o] + 1 ELSE work[o]]

\* lc_remove() and slrpc_batch_req_sched_finish()
SchedFinish(O) ==
    /\ bq' = [o \in Obj |-> IF o \in O THEN [bq[o] EXCEPT !.at = "queued"] ELSE bq[o]]
    /\ work' = [o \in Obj |-> IF o \in O THEN work[o] + 1 ELSE work[o]]

\* The bulk transfer or the request set refuses the request
SendFail ==
    /\ snd.pc = "send"
    /\ Fault("send")
    /\ SchedFinish({snd.o})
    /\ snd' = Idle
    /\ UNCHANGED <<add, rpc, peer, reply, batchcnt, down, called, bid>>

-----------------------------------------------------------------------------
(* The network and the peer *)

\* slrpc_batch_handle_request() at the peer
Deliver(r) ==
    /\ r.st = "net" /\ r.res \notin down
    /\ rpc' = (rpc \ {r}) \cup {[r EXCEPT !.st = "ok"]}
    /\ peer' = peer \cup {[bid |-> r.bid, res |-> r.res]}
    /\ UNCHANGED <<bq, add, snd, reply, work, batchcnt, down, called, bid, faults>>

\* The request fails, or it is delivered and its acknowledgement is lost
DeliverFail(r) ==
    /\ r.st \in {"net", "ok"}
    /\ IF r.res \in down THEN UNCHANGED faults ELSE Fault("ack")
    /\ rpc' = (rpc \ {r}) \cup {[r EXCEPT !.st = "err"]}
    /\ UNCHANGED <<bq, add, snd, peer, reply, work, batchcnt, down, called, bid>>

\* slrpc_batch_req_send_cb(), by the pointer it was given
SendCb(r) ==
    /\ r.st \in {"ok", "err"}
    /\ rpc' = rpc \ {r}
    /\ IF r.st = "ok"
       THEN /\ bq' = [bq EXCEPT ![r.o].flags = IF bq[r.o].at = "pool" THEN @
                                               ELSE (@ \ {"infl"}) \cup {"reply"}]
            /\ UNCHANGED work
       ELSE SchedFinish({r.o} \cap Waitrep)
    /\ UNCHANGED <<add, snd, peer, reply, batchcnt, down, called, bid, faults>>

\* slrpc_batch_rep_decref() of the last piece of work: the peer replies
PeerReply(p) ==
    /\ p.res \notin down
    /\ peer' = peer \ {p}
    /\ reply' = reply \cup {[bid |-> p.bid, res |-> p.res, tried |-> FALSE]}
    /\ UNCHANGED <<bq, add, snd, rpc, work, batchcnt, down, called, bid, faults>>

Match(p) == {o \in Waitrep : bq[o].bid = p.bid}

\* Mutant: a reply does not wait for the acknowledgement of the request.
HandleReplyEarly(p) ==
    /\ Match(p) # {}
    /\ \E o \in Match(p) : SchedFinish({o})
    /\ reply' = reply \ {p}
    /\ UNCHANGED <<add, snd, rpc, peer, batchcnt, down, called, bid, faults>>

\* slrpc_batch_handle_reply() finds the batch; it waits for BATCHF_REPLY
HandleReply(p) ==
    /\ \E o \in Match(p) : "reply" \in bq[o].flags /\ SchedFinish({o})
    /\ reply' = reply \ {p}
    /\ UNCHANGED <<add, snd, rpc, peer, batchcnt, down, called, bid, faults>>

\* ... or finds none, twice
HandleReplyNone(p) ==
    /\ Match(p) = {}
    /\ reply' = (reply \ {p}) \cup IF p.tried THEN {} ELSE {[p EXCEPT !.tried = TRUE]}
    /\ UNCHANGED <<bq, add, snd, rpc, peer, work, batchcnt, down, called, bid, faults>>

\* The connection to a destination is lost, maybe with all it was doing
Lose(d, dies) ==
    /\ Fault(IF dies THEN "die" ELSE "drop")
    /\ d \notin down
    /\ down' = down \cup {d}
    /\ peer' = IF dies THEN {p \in peer : p.res # d} ELSE peer
    /\ reply' = IF dies THEN {p \in reply : p.res # d} ELSE reply
    /\ UNCHANGED <<bq, add, snd, rpc, work, batchcnt, called, bid>>


\* slrpc_batches_drop()
Drop(d) ==
    /\ d \in down
    /\ down' = down \ {d}
    /\ SchedFinish({o \in Waitrep : bq[o].res = d})
    /\ UNCHANGED <<add, snd, rpc, peer, reply, batchcnt, called, bid, faults>>

-----------------------------------------------------------------------------
\* slrpc_batch_req_done(): call back, and free
Done(o) ==
    /\ work[o] > 0
    /\ work' = [work EXCEPT ![o] = @ - 1]
    /\ called' = [i \in Item |-> IF i \in bq[o].items THEN called[i] + 1 ELSE called[i]]
    /\ batchcnt' = [batchcnt EXCEPT ![bq[o].res] = @ - 1]
    /\ bq' = [bq EXCEPT ![o] = Blank]
    /\ UNCHANGED <<add, snd, rpc, peer, reply, down, bid, faults>>

Init ==
    /\ bq = [o \in Obj |-> Blank]
    /\ add = [i \in Item |-> Idle]
    /\ snd = Idle
    /\ rpc = {} /\ peer = {} /\ reply = {}
    /\ work = [o \in Obj |-> 0]
    /\ batchcnt = [d \in Res |-> 0]
    /\ down = {}
    /\ called = [i \in Item |-> 0]
    /\ bid = 0 /\ faults \in FaultPlans

Next ==
    \/ \E i \in Item : \/ AddStart(i) \/ AddTo(i) \/ AddNew(i)
                       \/ AddFail(i) \/ AddPublish(i)
    \/ \E o \in Obj : Expire(o) \/ Done(o)
    \/ SendPick \/ SendMove \/ Send \/ SendFail
    \/ \E r \in rpc : Deliver(r)
    \/ \E r \in rpc : DeliverFail(r)
    \/ \E r \in rpc : SendCb(r)
    \/ \E p \in peer : PeerReply(p)
    \/ \E p \in reply : HandleReply(p)
    \/ \E p \in reply : HandleReplyNone(p)
    \/ \E d \in Res, dies \in BOOLEAN : Lose(d, dies)
    \/ \E d \in Res : Drop(d)

Spec == Init /\ [][Next]_vars

\* Threads run on, time passes, requests and replies to live peers complete, and
\* a lost connection is noticed
Fairness ==
    /\ \A i \in Item : WF_vars(AddTo(i)) /\ WF_vars(AddNew(i)) /\ WF_vars(AddPublish(i))
    /\ \A o \in Obj : WF_vars(Expire(o)) /\ WF_vars(Done(o))
    /\ WF_vars(SendPick) /\ WF_vars(SendMove) /\ WF_vars(Send)
    /\ \A n \in 1..Cardinality(Item) * 2 :
          /\ WF_vars(\E r \in rpc : r.bid = n /\ (Deliver(r) \/ SendCb(r)))
          /\ WF_vars(\E r \in rpc : r.bid = n /\ r.res \in down /\ DeliverFail(r))
          /\ WF_vars(\E p \in peer : p.bid = n /\ PeerReply(p))
          /\ WF_vars(\E p \in reply : p.bid = n /\ (HandleReply(p) \/ HandleReplyNone(p)))
    /\ \A d \in Res : WF_vars(Drop(d))

FairSpec == Spec /\ Fairness

-----------------------------------------------------------------------------
\* The state is well formed, and a batch never holds more than bq_size items
\* (slrpc_batch_req_add() asserts it).
TypeOK ==
    /\ \A o \in Obj : /\ bq[o].at \in {"pool", "made", "delayed", "waitrep", "queued"}
                      /\ bq[o].flags \subseteq {"delay", "infl", "reply"}
                      /\ Cardinality(bq[o].items) <= Size
    /\ \A i \in Item : add[i].pc \in {"idle", "look", "made", "added", "refused"}
    /\ down \subseteq Res
    /\ bid \in Nat

\* No behaviour has both a send that fails locally and a connection that drops:
\* together they finish a batch twice, for slrpc_batch_req_send() does not look
\* whether the batch is still on the list it takes it off.
Calm == "send" \in faults.may => faults.may \cap {"drop", "die"} = {}

\* A batch is finished once: when slrpc_batch_req_done() runs for it, the batch
\* waits for that, and was not freed by an earlier run; and it was sent, as
\* slrpc_batch_req_done() asserts.
FinishedOnce ==
    \A o \in Obj : work[o] > 0 =>
        work[o] = 1 /\ bq[o].at = "queued" /\ bq[o].flags \cap {"infl", "reply"} # {}

\* The callback of an item runs once at most, and for no item that
\* slrpc_batch_req_add() refused: slm_batch_repl_cb() frees what it is given.
CalledOnce == \A i \in Item : called[i] <= IF add[i].pc = "added" THEN 1 ELSE 0

\* res_batchcnt counts the batches between slrpc_batch_thr_main() and
\* slrpc_batch_req_done(), and a destination never has more than it may have.
Throttled ==
    \A d \in Res :
        /\ batchcnt[d] <= MaxInflight
        /\ batchcnt[d] = Cardinality({o \in Obj :
              /\ bq[o].res = d
              /\ \/ bq[o].at \in {"waitrep", "queued"}
                 \/ bq[o].at = "delayed" /\ snd.pc = "move" /\ snd.o = o})

\* A callback given to slrpc_batch_req_send_cb() finds the batch it was made for,
\* unless a dropped connection has finished the batch in between.
NoStalePointer ==
    faults.may \cap {"drop", "die"} = {} => \A r \in rpc : bq[r.o].at # "pool" /\ bq[r.o].bid = r.bid

=============================================================================
