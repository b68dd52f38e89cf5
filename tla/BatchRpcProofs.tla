---------------------------- MODULE BatchRpcProofs ----------------------------
(***************************************************************************)
(* Proofs about BatchRpc, for any number of objects, items and faults: the *)
(* inductive invariant, that every step keeps it, and what follows.        *)
(***************************************************************************)
EXTENDS BatchRpc, FiniteSetTheorems, TLAPS

Batch ==
  [at : {"pool", "made", "delayed", "waitrep", "queued"},
   flags : SUBSET {"delay", "infl", "reply"}, items : SUBSET Item,
   bid : Nat, res : Res, expired : BOOLEAN]
Adder == [pc : {"idle", "look", "added", "refused"}] \cup [pc : {"made"}, new : Obj]
Sender == {Idle} \cup [pc : {"move", "send"}, o : Obj, bid : Nat, res : Res]
Rpc == [o : Obj, bid : Nat, res : Res, st : {"net", "ok", "err"}]
Plan == [may : SUBSET {"new", "send", "ack", "drop", "die"}, left : Nat]

Types ==
  /\ bq \in [Obj -> Batch]
  /\ add \in [Item -> Adder]
  /\ snd \in Sender
  /\ rpc \in SUBSET Rpc
  /\ work \in [Obj -> Nat]
  /\ batchcnt \in [Res -> Int]
  /\ down \in SUBSET Res
  /\ called \in [Item -> Nat]
  /\ bid \in Nat
  /\ faults \in Plan

(* A batch holds at most bq_size items.                                    *)
Fits == \A o \in Obj : Cardinality(bq[o].items) <= Size

(* An item is in one batch at most, and only from the time it was added to *)
(* the time it is called back.                                             *)
Placed ==
  \A i \in Item :
    /\ called[i] <= IF add[i].pc = "added" THEN 1 ELSE 0
    /\ \A o \in Obj : i \in bq[o].items => add[i].pc = "added" /\ called[i] = 0
    /\ \A o, p \in Obj : i \in bq[o].items /\ i \in bq[p].items => o = p

(* Where a batch is in its life: a thread owns the one it made, the sender *)
(* the one it moves, and a worker one it has a work item for.              *)
Made ==
  /\ \A i \in Item : add[i].pc = "made" => bq[add[i].new].at = "made"
  /\ \A i, j \in Item :
       add[i].pc = "made" /\ add[j].pc = "made" /\ add[i].new = add[j].new => i = j
Sent(o) == bq[o].flags \cap {"infl", "reply"} # {}
Moving(o) == bq[o].at = "delayed" /\ snd.pc = "move" /\ snd.o = o
Life ==
  /\ snd.pc = "move" => Moving(snd.o) /\ bq[snd.o].res = snd.res
  /\ \A o \in Obj : Moving(o) \/ bq[o].at \in {"waitrep", "queued"} => Sent(o)
  /\ \A o \in Obj : work[o] = IF bq[o].at = "queued" THEN 1 ELSE 0

(* While connections hold, a request refers to a batch that waits for its  *)
(* acknowledgement, and nobody but the request and the sender can finish   *)
(* that batch.                                                             *)
Connected == faults.may \cap {"drop", "die"} = {}
Waits(o, b) == bq[o].at = "waitrep" /\ "reply" \notin bq[o].flags /\ bq[o].bid = b
Exact ==
  /\ down = {}
  /\ \A o \in Obj : "reply" \in bq[o].flags => bq[o].at \in {"waitrep", "queued"}
  /\ snd.pc = "move" => bq[snd.o].bid = snd.bid
  /\ snd.pc = "send" => Waits(snd.o, snd.bid) /\ \A r \in rpc : r.o # snd.o
  /\ \A r \in rpc : Waits(r.o, r.bid)
  /\ \A r, q \in rpc : r.o = q.o => r = q

IInv ==
  /\ Types /\ Fits /\ Placed
  /\ Calm => Made /\ Life /\ Throttled
  /\ Connected => Exact

-----------------------------------------------------------------------------
(* Helpers *)

LEMMA AdderFacts ==
  ASSUME Types, NEW i \in Item
  PROVE  /\ add[i].pc \in {"idle", "look", "added", "refused", "made"}
         /\ add[i].pc = "made" => add[i].new \in Obj
  BY Zenon DEF Types, Adder

LEMMA SenderFacts ==
  ASSUME Types
  PROVE  /\ snd.pc \in {"idle", "move", "send"}
         /\ snd.pc # "idle" => /\ snd \in [pc : {"move", "send"}, o : Obj, bid : Nat, res : Res]
                               /\ snd.o \in Obj /\ snd.bid \in Nat /\ snd.res \in Res
         /\ snd.pc = "idle" <=> snd = Idle
  BY DEF Types, Sender, Idle

LEMMA FaultFacts ==
  ASSUME faults \in Plan, (\E f \in {"new", "send", "ack", "drop", "die"} : Fault(f)) \/ UNCHANGED faults
  PROVE  faults' \in Plan /\ faults'.may = faults.may
  BY DEF Fault, Plan

LEMMA BlankFacts == Blank \in Batch /\ Blank.at = "pool" /\ Blank.items = {} /\ Blank.flags = {}
  BY Zenon DEF Blank, Batch, Res

LEMMA MadeBatch ==
  ASSUME NEW b \in Nat, NEW d \in Res
  PROVE  LET r == [Blank EXCEPT !.at = "made", !.bid = b, !.res = d]
         IN  r \in Batch /\ r.at = "made" /\ r.items = {} /\ r.flags = {}
<1>1. Blank \in Batch
  BY Zenon, BlankFacts
<1>2. LET r == [Blank EXCEPT !.at = "made", !.bid = b, !.res = d]
      IN  r \in Batch /\ r.at = "made" /\ r.items = Blank.items /\ r.flags = Blank.flags
  BY ZenonT(30), <1>1 DEF Batch
<1>. QED
  BY Zenon, <1>2, BlankFacts

(* Batch o becomes r and no other changes. *)
Becomes(o, r) ==
  /\ bq' \in [Obj -> Batch]
  /\ bq'[o] = r
  /\ \A x \in Obj \ {o} : bq'[x] = bq[x]

LEMMA BecomesFacts ==
  ASSUME Types, NEW o \in Obj, NEW r \in Batch, bq' = [bq EXCEPT ![o] = r]
  PROVE  Becomes(o, r)
  BY Zenon DEF Types, Becomes

(* The batches that res_batchcnt counts. *)
Counted(d) ==
  {o \in Obj : /\ bq[o].res = d
               /\ \/ bq[o].at \in {"waitrep", "queued"}
                  \/ bq[o].at = "delayed" /\ snd.pc = "move" /\ snd.o = o}

LEMMA ThrottledIs ==
  Throttled <=> \A d \in Res : batchcnt[d] <= MaxInflight /\ batchcnt[d] = Cardinality(Counted(d))
  BY Zenon DEF Throttled, Counted

LEMMA CountedFinite ==
  ASSUME NEW d
  PROVE  IsFiniteSet(Counted(d)) /\ Cardinality(Counted(d)) \in Nat
<1>1. Counted(d) \subseteq Obj
  BY Zenon DEF Counted
<1>2. IsFiniteSet(Counted(d))
  BY Zenon, <1>1, FS_Subset, Sizes
<1>. QED
  BY Zenon, <1>2, FS_CardinalityType

LEMMA AddOne ==
  ASSUME NEW S, IsFiniteSet(S), NEW x
  PROVE  /\ Cardinality(S) \in Nat /\ Cardinality(S \cup {x}) \in Nat
         /\ Cardinality(S \cup {x}) <= Cardinality(S) + 1
<1>1. Cardinality(S) \in Nat
  BY Zenon, FS_CardinalityType
<1>2. Cardinality(S \cup {x}) = IF x \in S THEN Cardinality(S) ELSE Cardinality(S) + 1
  BY Zenon, FS_AddElement
<1>. QED
  BY <1>1, <1>2

(* The batches counted are the same when those that change stay counted.   *)
LEMMA ThrottledSame ==
  ASSUME Throttled, batchcnt' = batchcnt, \A d \in Res : Counted(d)' = Counted(d)
  PROVE  Throttled'
<1>1. \A d \in Res : batchcnt'[d] <= MaxInflight /\ batchcnt'[d] = Cardinality(Counted(d)')
  BY Zenon, ThrottledIs
<1>. QED
  BY Zenon, <1>1 DEF Throttled, Counted

LEMMA FitsSame ==
  ASSUME Fits, \A o \in Obj : bq'[o].items = bq[o].items
  PROVE  Fits'
  BY Zenon DEF Fits

LEMMA PlacedSame ==
  ASSUME Placed, \A o \in Obj : bq'[o].items = bq[o].items, called' = called,
         \A i \in Item : add'[i].pc = add[i].pc \/ (add[i].pc # "added" /\ add'[i].pc # "added")
  PROVE  Placed'
  BY Zenon DEF Placed

-----------------------------------------------------------------------------
(* Batches O are finished *)

Finishes(O) ==
  /\ bq' \in [Obj -> Batch] /\ work' \in [Obj -> Nat]
  /\ \A x \in Obj : /\ bq'[x].at = IF x \in O THEN "queued" ELSE bq[x].at
                    /\ bq'[x].flags = bq[x].flags /\ bq'[x].items = bq[x].items
                    /\ bq'[x].bid = bq[x].bid /\ bq'[x].res = bq[x].res
                    /\ work'[x] = IF x \in O THEN work[x] + 1 ELSE work[x]

LEMMA DoneIInv ==
  ASSUME IInv, NEW o \in Obj, Done(o)
  PROVE  IInv'
<1>0. bq[o] \in Batch
  BY Zenon DEF IInv, Types
<1>e. PICK e \in Res : e = bq[o].res
  BY Zenon, <1>0 DEF Batch
<1>1. /\ work[o] > 0 /\ work' = [work EXCEPT ![o] = work[o] - 1]
      /\ called' = [i \in Item |-> IF i \in bq[o].items THEN called[i] + 1 ELSE called[i]]
      /\ batchcnt' = [batchcnt EXCEPT ![e] = batchcnt[e] - 1]
      /\ bq' = [bq EXCEPT ![o] = Blank]
      /\ UNCHANGED <<add, snd, rpc, down, bid, faults>>
  BY Zenon, <1>e DEF Done
<1>2. Becomes(o, Blank)
  BY ZenonT(30), <1>1, BlankFacts, BecomesFacts DEF IInv
<1>3. /\ work' \in [Obj -> Nat] /\ work'[o] = work[o] - 1
      /\ \A x \in Obj \ {o} : work'[x] = work[x]
  BY <1>1 DEF IInv, Types
<1>4. /\ called' \in [Item -> Nat]
      /\ \A i \in Item : called'[i] = IF i \in bq[o].items THEN called[i] + 1 ELSE called[i]
  BY <1>1 DEF IInv, Types
<1>5. /\ batchcnt' \in [Res -> Int] /\ batchcnt'[e] = batchcnt[e] - 1
      /\ \A d \in Res \ {e} : batchcnt'[d] = batchcnt[d]
  BY <1>1 DEF IInv, Types
<1>6. Types'
  BY Zenon, <1>1, <1>2, <1>3, <1>4, <1>5 DEF IInv, Types, Becomes
<1>7. Fits'
  <2>1. Cardinality(bq'[o].items) <= Size
    <3>1. bq'[o].items = {}
      BY Zenon, <1>2, BlankFacts DEF Becomes
    <3>. QED
      BY <3>1, FS_EmptySet, Sizes
  <2>. QED
    BY Zenon, <1>2, <2>1 DEF IInv, Fits, Becomes
<1>8. Placed'
  <2>1. \A x \in Obj : bq'[x].items = IF x = o THEN {} ELSE bq[x].items
    BY Zenon, <1>2, BlankFacts DEF Becomes
  <2>2. Placed
    BY Zenon DEF IInv
  <2>3. ASSUME NEW i \in Item
        PROVE  called'[i] <= IF add'[i].pc = "added" THEN 1 ELSE 0
    <3>1. /\ called[i] \in Nat /\ add'[i] = add[i]
          /\ called[i] <= IF add[i].pc = "added" THEN 1 ELSE 0
          /\ i \in bq[o].items => add[i].pc = "added" /\ called[i] = 0
      BY Zenon, <1>1, <2>2 DEF Placed, IInv, Types
    <3>2. called'[i] = IF i \in bq[o].items THEN called[i] + 1 ELSE called[i]
      BY Zenon, <1>4
    <3>. QED
      BY <3>1, <3>2
  <2>4. ASSUME NEW i \in Item, NEW x \in Obj, i \in bq'[x].items
        PROVE  add'[i].pc = "added" /\ called'[i] = 0
    BY <1>1, <1>4, <2>1, <2>2, <2>4 DEF Placed
  <2>. QED
    BY Zenon, <2>1, <2>2, <2>3, <2>4 DEF Placed
<1>9. Calm' => Made' /\ Life' /\ Throttled'
  <2> SUFFICES ASSUME Calm PROVE Made' /\ Life' /\ Throttled'
    BY Zenon, <1>1 DEF Calm
  <2>1. Made /\ Life /\ Throttled /\ bq[o].at = "queued" /\ work[o] = 1
    BY <1>1 DEF IInv, Life, Types
  <2>2. Made'
    <3>1. \A j \in Item : add[j].pc = "made" => add[j].new \in Obj \ {o}
      BY Zenon, <2>1, AdderFacts DEF IInv, Made
    <3>. QED
      BY Zenon, <3>1, <1>1, <1>2, <2>1 DEF Made, Becomes
  <2>3. Life'
    <3>1. snd'.pc = "move" => Moving(snd.o)' /\ bq'[snd'.o].res = snd'.res
      BY Zenon, <1>1, <1>2, <2>1, SenderFacts DEF Life, Moving, IInv, Becomes
    <3>2. ASSUME NEW x \in Obj, Moving(x)' \/ bq'[x].at \in {"waitrep", "queued"} PROVE Sent(x)'
      BY Zenon, <3>2, <1>1, <1>2, <2>1, BlankFacts DEF Life, Moving, Sent, Becomes
    <3>3. ASSUME NEW x \in Obj PROVE work'[x] = IF bq'[x].at = "queued" THEN 1 ELSE 0
      <4>1. work[x] = IF bq[x].at = "queued" THEN 1 ELSE 0
        BY Zenon, <2>1 DEF Life
      <4>2. CASE x = o
        <5>1. work'[x] = 0 /\ bq'[x].at # "queued"
          BY <1>2, <1>3, <2>1, <4>2, BlankFacts DEF Becomes
        <5>. QED
          BY Zenon, <5>1
      <4>3. CASE x # o
        <5>1. work'[x] = work[x] /\ bq'[x] = bq[x]
          BY Zenon, <1>2, <1>3, <4>3 DEF Becomes
        <5>. QED
          BY Zenon, <4>1, <5>1
      <4>. QED
        BY Zenon, <4>2, <4>3
    <3>. QED
      BY Zenon, <1>1, <3>1, <3>2, <3>3 DEF Life
  <2>4. Throttled'
    <3>1. ASSUME NEW d \in Res \ {e} PROVE Counted(d)' = Counted(d)
      BY Zenon, <1>1, <1>2, <1>e, BlankFacts DEF Counted, Becomes
    <3>2. Counted(e)' = Counted(e) \ {o} /\ o \in Counted(e)
      BY Zenon, <1>1, <1>2, <1>e, <2>1, BlankFacts DEF Counted, Becomes
    <3>3. Cardinality(Counted(e)') = Cardinality(Counted(e)) - 1
      BY ZenonT(30), <3>2, CountedFinite, FS_RemoveElement
    <3>4. /\ batchcnt[e] = Cardinality(Counted(e)) /\ Cardinality(Counted(e)) \in Nat
          /\ batchcnt[e] <= MaxInflight
      BY Zenon, <2>1, CountedFinite, ThrottledIs
    <3>5. \A d \in Res \ {e} : batchcnt'[d] <= MaxInflight /\ batchcnt'[d] = Cardinality(Counted(d)')
      BY Zenon, <1>5, <2>1, <3>1, ThrottledIs
    <3>6. batchcnt'[e] <= MaxInflight /\ batchcnt'[e] = Cardinality(Counted(e)')
      BY <1>5, <3>3, <3>4, Sizes
    <3>7. ASSUME NEW d \in Res
          PROVE  batchcnt'[d] <= MaxInflight /\ batchcnt'[d] = Cardinality(Counted(d)')
      <4>1. CASE d = e
        BY Zenon, <3>6, <4>1
      <4>2. CASE d # e
        BY Zenon, <3>5, <4>2
      <4>. QED
        BY Zenon, <4>1, <4>2
    <3>. QED
      BY Zenon, <3>7 DEF Throttled, Counted
  <2>. QED
    BY Zenon, <2>2, <2>3, <2>4
<1>10. Connected' => Exact'
  <2> SUFFICES ASSUME Connected PROVE Exact'
    BY Zenon, <1>1 DEF Connected
  <2>1. Exact /\ Life /\ bq[o].at = "queued"
    BY <1>1 DEF IInv, Connected, Calm, Life
  <2>2. \A q \in rpc : q.o \in Obj \ {o}
    BY Zenon, <2>1 DEF Exact, Waits, IInv, Types, Rpc
  <2>3. snd.pc # "idle" => snd.o \in Obj \ {o}
    BY ZenonT(30), <2>1, SenderFacts DEF Exact, Waits, Life, Moving, IInv
  <2>4. \A x \in Obj : "reply" \in bq'[x].flags => bq'[x].at \in {"waitrep", "queued"}
    BY ZenonT(30), <1>2, <2>1, BlankFacts DEF Exact, Becomes
  <2>. QED
    BY <1>1, <1>2, <2>1, <2>2, <2>3, <2>4 DEF Exact, Waits, Becomes
<1>. QED
  BY Zenon, <1>6, <1>7, <1>8, <1>9, <1>10 DEF IInv

-----------------------------------------------------------------------------
(* The theorems *)

LEMMA AddQuietIInv ==
  ASSUME IInv, NEW i \in Item, AddStart(i) \/ AddFail(i)
  PROVE  IInv'
<1>1. UNCHANGED <<bq, snd, rpc, work, batchcnt, down, called, bid>>
  BY Zenon DEF AddStart, AddFail
<1>2. \E a \in [pc : {"look", "refused"}] : add' = [add EXCEPT ![i] = a]
  BY ZenonT(30) DEF AddStart, AddFail
<1>3. add[i].pc \in {"idle", "look"}
  BY DEF AddStart, AddFail, Idle
<1>4. PICK a \in [pc : {"look", "refused"}] : add' = [add EXCEPT ![i] = a]
  BY ZenonT(30), <1>2
<1>5. a \in Adder /\ a.pc \in {"look", "refused"}
  BY Zenon DEF Adder
<1>6. add' \in [Item -> Adder] /\ add'[i] = a /\ \A j \in Item \ {i} : add'[j] = add[j]
  BY Zenon, <1>4, <1>5 DEF IInv, Types
<1>7. faults' \in Plan /\ faults'.may = faults.may
  BY Zenon, FaultFacts DEF AddStart, AddFail, IInv, Types
<1>8. Types'
  BY Zenon, <1>1, <1>6, <1>7 DEF IInv, Types
<1>9. Fits' /\ Placed'
  BY Zenon, <1>1, <1>3, <1>5, <1>6, FitsSame, PlacedSame DEF IInv
<1>10. Calm' => Made' /\ Life' /\ Throttled'
  <2> SUFFICES ASSUME Calm PROVE Made' /\ Life' /\ Throttled'
    BY Zenon, <1>7 DEF Calm
  <2>1. Made'
    BY <1>1, <1>5, <1>6 DEF IInv, Made
  <2>2. Life' /\ Throttled'
    BY <1>1 DEF IInv, Life, Throttled, Moving, Sent
  <2>. QED
    BY Zenon, <2>1, <2>2
<1>11. Connected' => Exact'
  BY Zenon, <1>1, <1>7 DEF IInv, Connected, Exact, Waits
<1>. QED
  BY Zenon, <1>8, <1>9, <1>10, <1>11 DEF IInv

LEMMA AddToIInv ==
  ASSUME IInv, NEW i \in Item, AddTo(i)
  PROVE  IInv'
<1>1. PICK o \in Open(i) :
        bq' = [x \in Obj |->
                 IF x = o THEN [bq[x] EXCEPT !.items = @ \cup {i}]
                 ELSE IF add[i].pc = "made" /\ x = add[i].new THEN Blank ELSE bq[x]]
  BY Zenon DEF AddTo
<1>2. o \in Obj /\ bq[o].at = "delayed" /\ Cardinality(bq[o].items) < Size /\ bq[o] \in Batch
  BY Zenon DEF Open, IInv, Types
<1> DEFINE r == [bq[o] EXCEPT !.items = @ \cup {i}]
           F == {x \in Obj \ {o} : add[i].pc = "made" /\ x = add[i].new}
<1>3. /\ r \in Batch /\ r.at = "delayed" /\ r.flags = bq[o].flags
      /\ r.items = bq[o].items \cup {i} /\ r.bid = bq[o].bid /\ r.res = bq[o].res
  BY Zenon, <1>2 DEF Batch
<1>4. bq' = [x \in Obj |-> IF x = o THEN r ELSE IF x \in F THEN Blank ELSE bq[x]]
  BY Zenon, <1>1
<1>5. F \subseteq Obj \ {o}
  BY Zenon
<1> HIDE DEF r
<1>6. /\ bq' \in [Obj -> Batch] /\ bq'[o] = r
      /\ \A x \in Obj \ {o} : bq'[x] = IF x \in F THEN Blank ELSE bq[x]
  BY Zenon, <1>2, <1>3, <1>4, BlankFacts DEF IInv, Types
<1>7. /\ add' = [add EXCEPT ![i] = [pc |-> "added"]]
      /\ UNCHANGED <<snd, rpc, work, batchcnt, down, called, bid, faults>>
      /\ add[i].pc \in {"look", "made"}
  BY Zenon DEF AddTo
<1>8. add' \in [Item -> Adder] /\ add'[i].pc = "added" /\ \A j \in Item \ {i} : add'[j] = add[j]
  <2>1. [pc |-> "added"] \in Adder
    BY Zenon DEF Adder
  <2>. QED
    BY Zenon, <1>7, <2>1 DEF IInv, Types
<1>9. Types'
  BY Zenon, <1>6, <1>7, <1>8 DEF IInv, Types
<1>10. Fits'
  <2>1. IsFiniteSet(bq[o].items)
    <3>1. bq[o].items \subseteq Item
      BY Zenon, <1>2 DEF Batch
    <3>. QED
      BY Zenon, <3>1, FS_Subset, Sizes
  <2>2. /\ Cardinality(bq[o].items) \in Nat /\ Cardinality(bq[o].items \cup {i}) \in Nat
        /\ Cardinality(bq[o].items \cup {i}) <= Cardinality(bq[o].items) + 1
    BY ZenonT(30), <2>1, AddOne
  <2>3. Cardinality(bq[o].items \cup {i}) <= Size
    BY <1>2, <2>2, Sizes
  <2>4. bq'[o].items = bq[o].items \cup {i}
    BY Zenon, <1>3, <1>6
  <2>5. Cardinality(bq'[o].items) <= Size
    BY Zenon, <2>3, <2>4
  <2>6. Cardinality(Blank.items) <= Size
    BY BlankFacts, FS_EmptySet, Sizes
  <2>. QED
    BY Zenon, <1>6, <2>5, <2>6 DEF Fits, IInv
<1>11. Placed'
  <2>1. Placed
    BY Zenon DEF IInv
  <2>2. \A x \in Obj : i \notin bq[x].items
    BY Zenon, <1>7, <2>1 DEF Placed
  <2>3. ASSUME NEW x \in Obj
        PROVE  bq'[x].items \subseteq bq[x].items \/ (x = o /\ bq'[x].items = bq[x].items \cup {i})
    BY Zenon, <1>3, <1>6, BlankFacts
  <2>4. called[i] = 0
    BY <1>7, <2>1 DEF Placed, IInv, Types
  <2>. QED
    BY <1>7, <1>8, <2>1, <2>2, <2>3, <2>4 DEF Placed
<1>12. Calm' => Made' /\ Life' /\ Throttled'
  <2> SUFFICES ASSUME Calm PROVE Made' /\ Life' /\ Throttled'
    BY Zenon, <1>7 DEF Calm
  <2>1. Made /\ Life /\ Throttled
    BY Zenon DEF IInv
  <2>2. \A x \in F : bq[x].at = "made" /\ \A j \in Item \ {i} : add[j].pc = "made" => add[j].new # x
    BY Zenon, <2>1 DEF Made
  <2>3. \A x \in Obj \ F : bq'[x].at = bq[x].at /\ bq'[x].flags = bq[x].flags /\ bq'[x].res = bq[x].res
    BY Zenon, <1>2, <1>3, <1>6
  <2>4. \A x \in F : bq'[x].at = "pool"
    BY Zenon, <1>6, BlankFacts
  <2>5. Made'
    <3>1. ASSUME NEW j \in Item, add'[j].pc = "made"
          PROVE  j # i /\ add'[j] = add[j] /\ add[j].new \in Obj \ F
      BY Zenon, <3>1, <1>8, <2>2, AdderFacts DEF IInv
    <3>. QED
      BY <3>1, <2>1, <2>3 DEF Made
  <2>6. Life'
    <3>1. snd'.pc = "move" => Moving(snd.o)' /\ bq'[snd'.o].res = snd'.res
      BY Zenon, <1>7, <2>1, <2>2, <2>3, SenderFacts DEF Life, Moving, IInv
    <3>2. ASSUME NEW x \in Obj, Moving(x)' \/ bq'[x].at \in {"waitrep", "queued"} PROVE Sent(x)'
      BY <3>2, <1>7, <2>1, <2>3, <2>4 DEF Life, Moving, Sent
    <3>3. ASSUME NEW x \in Obj PROVE work'[x] = IF bq'[x].at = "queued" THEN 1 ELSE 0
      BY <1>7, <2>1, <2>2, <2>3, <2>4 DEF Life
    <3>. QED
      BY Zenon, <1>7, <3>1, <3>2, <3>3 DEF Life
  <2>7. ASSUME NEW d \in Res PROVE Counted(d)' = Counted(d)
    BY <1>7, <2>2, <2>3, <2>4 DEF Counted
  <2>. QED
    BY Zenon, <1>7, <2>1, <2>5, <2>6, <2>7, ThrottledSame
<1>13. Connected' => Exact'
  <2> SUFFICES ASSUME Connected PROVE Exact'
    BY Zenon, <1>7 DEF Connected
  <2>1. Exact /\ Made
    BY Zenon DEF IInv, Connected, Calm
  <2>2. \A x \in F : bq[x].at = "made"
    BY Zenon, <2>1 DEF Made
  <2>3. \A x \in Obj \ F : /\ bq'[x].at = bq[x].at /\ bq'[x].flags = bq[x].flags
                           /\ bq'[x].bid = bq[x].bid
    BY Zenon, <1>2, <1>3, <1>6
  <2>4. \A x \in F : bq'[x].flags = {}
    BY Zenon, <1>6, BlankFacts
  <2>5. \A q \in rpc : q.o \in Obj \ F
    BY Zenon, <2>1, <2>2 DEF Exact, Waits, IInv, Types, Rpc
  <2>6. snd.pc # "idle" => snd.o \in Obj \ F
    <3>1. snd.pc = "send" => snd.o \in Obj \ F
      BY Zenon, <2>1, <2>2, SenderFacts DEF Exact, Waits, IInv
    <3>2. snd.pc = "move" => snd.o \in Obj \ F
      BY Zenon, <2>2, SenderFacts DEF Life, Moving, IInv, Calm, Connected
    <3>. QED
      BY Zenon, <3>1, <3>2, SenderFacts DEF IInv
  <2>7. \A x \in Obj : "reply" \in bq'[x].flags => bq'[x].at \in {"waitrep", "queued"}
    BY Zenon, <2>1, <2>3, <2>4 DEF Exact
  <2>. QED
    BY <1>7, <2>1, <2>3, <2>5, <2>6, <2>7 DEF Exact, Waits
<1>. QED
  BY Zenon, <1>9, <1>10, <1>11, <1>12, <1>13 DEF IInv

LEMMA AddNewIInv ==
  ASSUME IInv, NEW i \in Item, AddNew(i)
  PROVE  IInv'
<1>1. PICK o \in Pool :
        /\ bq' = [bq EXCEPT ![o] = [Blank EXCEPT !.at = "made", !.bid = bid + 1, !.res = To(i)]]
        /\ add' = [add EXCEPT ![i] = [pc |-> "made", new |-> o]]
  BY ZenonT(30) DEF AddNew
<1> DEFINE r == [Blank EXCEPT !.at = "made", !.bid = bid + 1, !.res = To(i)]
           a == [pc |-> "made", new |-> o]
<1>2. o \in Obj /\ bq[o].at = "pool"
  BY Zenon DEF Pool
<1>3. r \in Batch /\ r.at = "made" /\ r.items = {} /\ r.flags = {}
  <2>1. bid + 1 \in Nat /\ To(i) \in Res
    BY DEF IInv, Types, To, Res
  <2>. QED
    BY ZenonT(30), <2>1, MadeBatch
<1>4. a \in Adder /\ a.pc = "made" /\ a.new = o
  BY Zenon, <1>2 DEF Adder
<1>5. bq' = [bq EXCEPT ![o] = r] /\ add' = [add EXCEPT ![i] = a]
  BY Zenon, <1>1
<1> HIDE DEF r, a
<1>6. Becomes(o, r)
  BY ZenonT(30), <1>2, <1>3, <1>5, BecomesFacts DEF IInv
<1>7. add' \in [Item -> Adder] /\ add'[i] = a /\ \A j \in Item \ {i} : add'[j] = add[j]
  BY Zenon, <1>4, <1>5 DEF IInv, Types
<1>8. /\ UNCHANGED <<snd, rpc, work, batchcnt, down, called, faults>> /\ bid' = bid + 1
      /\ add[i].pc = "look"
  BY Zenon DEF AddNew
<1>9. Types'
  BY <1>6, <1>7, <1>8 DEF IInv, Types, Becomes
<1>10. Fits'
  <2>1. Cardinality(bq'[o].items) <= Size
    <3>1. bq'[o].items = {}
      BY Zenon, <1>3, <1>6 DEF Becomes
    <3>. QED
      BY <3>1, FS_EmptySet, Sizes
  <2>. QED
    BY Zenon, <1>6, <2>1 DEF IInv, Fits, Becomes
<1>11. Placed'
  <2>1. \A x \in Obj : bq'[x].items \subseteq bq[x].items
    BY Zenon, <1>3, <1>6 DEF Becomes
  <2>2. \A j \in Item : add'[j].pc = "added" <=> add[j].pc = "added"
    BY Zenon, <1>4, <1>7, <1>8
  <2>. QED
    BY Zenon, <1>8, <2>1, <2>2 DEF IInv, Placed
<1>12. Calm' => Made' /\ Life' /\ Throttled'
  <2> SUFFICES ASSUME Calm PROVE Made' /\ Life' /\ Throttled'
    BY Zenon, <1>8 DEF Calm
  <2>1. Made /\ Life /\ Throttled
    BY Zenon DEF IInv
  <2>2. Made'
    <3>1. \A j \in Item \ {i} : add[j].pc = "made" => add[j].new \in Obj \ {o}
      BY Zenon, <1>2, <2>1, AdderFacts DEF IInv, Made
    <3>. QED
      BY <3>1, <1>3, <1>4, <1>6, <1>7, <2>1 DEF Made, Becomes
  <2>3. Life'
    <3>1. snd'.pc = "move" => Moving(snd.o)' /\ bq'[snd'.o].res = snd'.res
      BY Zenon, <1>2, <1>6, <1>8, <2>1, SenderFacts DEF Life, Moving, IInv, Becomes
    <3>2. ASSUME NEW x \in Obj, Moving(x)' \/ bq'[x].at \in {"waitrep", "queued"} PROVE Sent(x)'
      BY Zenon, <3>2, <1>3, <1>6, <1>8, <2>1 DEF Life, Moving, Sent, Becomes
    <3>3. ASSUME NEW x \in Obj PROVE work'[x] = IF bq'[x].at = "queued" THEN 1 ELSE 0
      BY Zenon, <1>2, <1>3, <1>6, <1>8, <2>1 DEF Life, Becomes
    <3>. QED
      BY Zenon, <1>8, <3>1, <3>2, <3>3 DEF Life
  <2>4. ASSUME NEW d \in Res PROVE Counted(d)' = Counted(d)
    BY Zenon, <1>2, <1>3, <1>6, <1>8 DEF Counted, Becomes
  <2>. QED
    BY Zenon, <1>8, <2>1, <2>2, <2>3, <2>4, ThrottledSame
<1>13. Connected' => Exact'
  <2> SUFFICES ASSUME Connected PROVE Exact'
    BY Zenon, <1>8 DEF Connected
  <2>1. Exact /\ Life
    BY Zenon DEF IInv, Connected, Calm
  <2>2. \A q \in rpc : q.o \in Obj \ {o}
    BY Zenon, <1>2, <2>1 DEF Exact, Waits, IInv, Types, Rpc
  <2>3. snd.pc # "idle" => snd.o \in Obj \ {o}
    BY Zenon, <1>2, <2>1, SenderFacts DEF Exact, Waits, Life, Moving, IInv
  <2>4. \A x \in Obj : "reply" \in bq'[x].flags => bq'[x].at \in {"waitrep", "queued"}
    BY Zenon, <1>3, <1>6, <2>1 DEF Exact, Becomes
  <2>. QED
    BY <1>6, <1>8, <2>1, <2>2, <2>3, <2>4 DEF Exact, Waits, Becomes
<1>. QED
  BY Zenon, <1>9, <1>10, <1>11, <1>12, <1>13 DEF IInv

LEMMA AddPublishIInv ==
  ASSUME IInv, NEW i \in Item, AddPublish(i)
  PROVE  IInv'
<1> DEFINE o == add[i].new
           r == [bq[o] EXCEPT !.at = "delayed", !.flags = @ \cup {"delay"}]
           a == [pc |-> "look"]
<1>1. o \in Obj /\ add[i].pc = "made"
  BY Zenon, AdderFacts DEF AddPublish, IInv
<1>2. /\ r \in Batch /\ r.at = "delayed" /\ r.items = bq[o].items
      /\ r.flags = bq[o].flags \cup {"delay"} /\ r.res = bq[o].res
  <2>1. bq[o] \in Batch
    BY Zenon, <1>1 DEF IInv, Types
  <2>. QED
    BY ZenonT(30), <2>1 DEF Batch
<1>3. a \in Adder /\ a.pc = "look"
  BY Zenon DEF Adder
<1>4. bq' = [bq EXCEPT ![o] = r] /\ add' = [add EXCEPT ![i] = a]
  BY Zenon DEF AddPublish
<1>5. Made => \A j \in Item \ {i} : add[j].pc = "made" => add[j].new \in Obj \ {o}
  BY Zenon, <1>1, AdderFacts DEF IInv, Made
<1>6. Made => bq[o].at = "made"
  BY Zenon, <1>1 DEF Made
<1> HIDE DEF o, r, a
<1>7. Becomes(o, r)
  BY ZenonT(30), <1>1, <1>2, <1>4, BecomesFacts DEF IInv
<1>8. add' \in [Item -> Adder] /\ add'[i] = a /\ \A j \in Item \ {i} : add'[j] = add[j]
  BY Zenon, <1>3, <1>4 DEF IInv, Types
<1>9. UNCHANGED <<snd, rpc, work, batchcnt, down, called, bid, faults>>
  BY Zenon DEF AddPublish
<1>10. Types'
  BY Zenon, <1>7, <1>8, <1>9 DEF IInv, Types, Becomes
<1>11. \A x \in Obj : bq'[x].items = bq[x].items
  BY Zenon, <1>2, <1>7 DEF Becomes
<1>12. Fits' /\ Placed'
  BY Zenon, <1>1, <1>3, <1>8, <1>9, <1>11, FitsSame, PlacedSame DEF IInv
<1>13. Calm' => Made' /\ Life' /\ Throttled'
  <2> SUFFICES ASSUME Calm PROVE Made' /\ Life' /\ Throttled'
    BY Zenon, <1>9 DEF Calm
  <2>1. Made /\ Life /\ Throttled
    BY Zenon DEF IInv
  <2>2. Made'
    BY <1>3, <1>5, <1>7, <1>8, <2>1 DEF Made, Becomes
  <2>3. snd.pc = "move" => snd.o \in Obj \ {o}
    BY Zenon, <1>6, <2>1, SenderFacts DEF Life, Moving, IInv
  <2>4. Life'
    <3>1. snd'.pc = "move" => Moving(snd.o)' /\ bq'[snd'.o].res = snd'.res
      BY Zenon, <1>7, <1>9, <2>1, <2>3 DEF Life, Moving, Becomes
    <3>2. ASSUME NEW x \in Obj, Moving(x)' \/ bq'[x].at \in {"waitrep", "queued"} PROVE Sent(x)'
      BY <3>2, <1>2, <1>7, <1>9, <2>1, <2>3 DEF Life, Moving, Sent, Becomes
    <3>3. ASSUME NEW x \in Obj PROVE work'[x] = IF bq'[x].at = "queued" THEN 1 ELSE 0
      BY Zenon, <1>2, <1>6, <1>7, <1>9, <2>1 DEF Life, Becomes
    <3>. QED
      BY Zenon, <1>9, <3>1, <3>2, <3>3 DEF Life
  <2>5. ASSUME NEW d \in Res PROVE Counted(d)' = Counted(d)
    BY <1>2, <1>6, <1>7, <1>9, <2>1, <2>3 DEF Counted, Becomes
  <2>. QED
    BY Zenon, <1>9, <2>1, <2>2, <2>4, <2>5, ThrottledSame
<1>14. Connected' => Exact'
  <2> SUFFICES ASSUME Connected PROVE Exact'
    BY Zenon, <1>9 DEF Connected
  <2>1. Exact /\ Life /\ bq[o].at = "made"
    BY Zenon, <1>6 DEF IInv, Connected, Calm
  <2>2. \A q \in rpc : q.o \in Obj \ {o}
    BY Zenon, <2>1 DEF Exact, Waits, IInv, Types, Rpc
  <2>3. snd.pc # "idle" => snd.o \in Obj \ {o}
    BY Zenon, <2>1, SenderFacts DEF Exact, Waits, Life, Moving, IInv
  <2>4. \A x \in Obj : "reply" \in bq'[x].flags => bq'[x].at \in {"waitrep", "queued"}
    BY <1>1, <1>2, <1>7, <2>1 DEF Exact, Becomes
  <2>. QED
    BY <1>7, <1>9, <2>1, <2>2, <2>3, <2>4 DEF Exact, Waits, Becomes
<1>. QED
  BY Zenon, <1>10, <1>12, <1>13, <1>14 DEF IInv

LEMMA SendPickIInv ==
  ASSUME IInv, SendPick
  PROVE  IInv'
<1>1. PICK o \in Obj :
        /\ Ready(o)
        /\ bq' = [bq EXCEPT ![o].flags = (@ \cup {"infl"}) \ {"delay"}]
        /\ batchcnt' = [batchcnt EXCEPT ![bq[o].res] = @ + 1]
        /\ snd' = [pc |-> "move", o |-> o, bid |-> bq[o].bid, res |-> bq[o].res]
  BY ZenonT(30) DEF SendPick
<1> DEFINE r == [bq[o] EXCEPT !.flags = (@ \cup {"infl"}) \ {"delay"}]
<1>0. bq[o] \in Batch
  BY Zenon DEF IInv, Types
<1>e. PICK e \in Res : e = bq[o].res
  BY Zenon, <1>0 DEF Batch
<1>2. /\ r \in Batch /\ r.at = bq[o].at /\ r.items = bq[o].items
      /\ r.flags = (bq[o].flags \cup {"infl"}) \ {"delay"} /\ r.res = e /\ r.bid = bq[o].bid
      /\ bq[o].bid \in Nat
  BY Zenon, <1>0, <1>e DEF Batch
<1>3. bq' = [bq EXCEPT ![o] = r] /\ batchcnt' = [batchcnt EXCEPT ![e] = batchcnt[e] + 1]
  BY Zenon, <1>1, <1>e
<1>4. bq[o].at = "delayed" /\ batchcnt[e] < MaxInflight
  BY Zenon, <1>1, <1>e DEF Ready
<1> HIDE DEF r
<1>5. Becomes(o, r)
  BY ZenonT(30), <1>2, <1>3, BecomesFacts DEF IInv
<1>6. /\ batchcnt' \in [Res -> Int] /\ batchcnt'[e] = batchcnt[e] + 1
      /\ \A d \in Res \ {e} : batchcnt'[d] = batchcnt[d]
  BY <1>2, <1>3 DEF IInv, Types
<1>7. /\ snd' \in Sender /\ snd'.pc = "move" /\ snd'.o = o /\ snd'.bid = bq[o].bid
      /\ snd'.res = e /\ snd.pc = "idle"
  BY Zenon, <1>1, <1>2, <1>e DEF Sender, SendPick, Idle
<1>8. UNCHANGED <<add, rpc, work, down, called, bid, faults>>
  BY Zenon DEF SendPick
<1>9. Types'
  BY Zenon, <1>5, <1>6, <1>7, <1>8 DEF IInv, Types, Becomes
<1>10. \A x \in Obj : /\ bq'[x].at = bq[x].at /\ bq'[x].items = bq[x].items
                      /\ bq'[x].res = bq[x].res /\ bq'[x].bid = bq[x].bid
  BY Zenon, <1>2, <1>5, <1>e DEF Becomes
<1>11. Fits' /\ Placed'
  BY Zenon, <1>8, <1>10, FitsSame, PlacedSame DEF IInv
<1>12. Calm' => Made' /\ Life' /\ Throttled'
  <2> SUFFICES ASSUME Calm PROVE Made' /\ Life' /\ Throttled'
    BY ZenonT(30), <1>8 DEF Calm
  <2>1. Made /\ Life /\ Throttled
    BY Zenon DEF IInv
  <2>2. Made'
    BY <1>8, <1>10, <2>1, AdderFacts DEF Made, IInv
  <2>3. Life'
    <3>1. Moving(snd.o)' /\ bq'[snd'.o].res = snd'.res
      BY Zenon, <1>4, <1>7, <1>10, <1>e DEF Moving
    <3>2. ASSUME NEW x \in Obj, Moving(x)' \/ bq'[x].at \in {"waitrep", "queued"} PROVE Sent(x)'
      BY <3>2, <1>2, <1>4, <1>5, <1>7, <1>10, <2>1 DEF Life, Moving, Sent, Becomes
    <3>3. ASSUME NEW x \in Obj PROVE work'[x] = IF bq'[x].at = "queued" THEN 1 ELSE 0
      BY Zenon, <1>8, <1>10, <2>1 DEF Life
    <3>. QED
      BY Zenon, <3>1, <3>2, <3>3 DEF Life
  <2>4. Throttled'
    <3>1. ASSUME NEW d \in Res \ {e} PROVE Counted(d)' = Counted(d)
      BY <1>7, <1>10, <1>e DEF Counted
    <3>2. Counted(e)' = Counted(e) \cup {o} /\ o \notin Counted(e)
      BY <1>4, <1>7, <1>10, <1>e DEF Counted
    <3>3. Cardinality(Counted(e)') = Cardinality(Counted(e)) + 1
      BY Zenon, <3>2, CountedFinite, FS_AddElement
    <3>4. batchcnt[e] = Cardinality(Counted(e)) /\ Cardinality(Counted(e)) \in Nat
      BY Zenon, <2>1, CountedFinite, ThrottledIs
    <3>5. \A d \in Res \ {e} : batchcnt'[d] <= MaxInflight /\ batchcnt'[d] = Cardinality(Counted(d)')
      BY Zenon, <1>6, <2>1, <3>1, ThrottledIs
    <3>6. batchcnt'[e] <= MaxInflight /\ batchcnt'[e] = Cardinality(Counted(e)')
      BY <1>4, <1>6, <3>3, <3>4, Sizes
    <3>7. ASSUME NEW d \in Res
          PROVE  batchcnt'[d] <= MaxInflight /\ batchcnt'[d] = Cardinality(Counted(d)')
      <4>1. CASE d = e
        BY Zenon, <3>6, <4>1
      <4>2. CASE d # e
        BY Zenon, <3>5, <4>2
      <4>. QED
        BY Zenon, <4>1, <4>2
    <3>. QED
      BY Zenon, <3>7 DEF Throttled, Counted
  <2>. QED
    BY Zenon, <2>2, <2>3, <2>4
<1>13. Connected' => Exact'
  <2> SUFFICES ASSUME Connected PROVE Exact'
    BY Zenon, <1>8 DEF Connected
  <2>1. Exact
    BY Zenon DEF IInv
  <2>2. \A q \in rpc : q.o \in Obj \ {o}
    BY Zenon, <1>4, <2>1 DEF Exact, Waits, IInv, Types, Rpc
  <2>3. \A x \in Obj : "reply" \in bq'[x].flags => bq'[x].at \in {"waitrep", "queued"}
    BY <1>2, <1>5, <2>1 DEF Exact, Becomes
  <2>. QED
    BY <1>5, <1>7, <1>8, <1>10, <2>1, <2>2, <2>3 DEF Exact, Waits, Becomes
<1>. QED
  BY Zenon, <1>9, <1>11, <1>12, <1>13 DEF IInv

LEMMA FinishFacts ==
  ASSUME Types, NEW O \in SUBSET Obj, SchedFinish(O)
  PROVE  Finishes(O)
<1> DEFINE q(x) == [bq[x] EXCEPT !.at = "queued"]
<1>1. ASSUME NEW x \in Obj
      PROVE  /\ q(x) \in Batch /\ q(x).at = "queued" /\ q(x).flags = bq[x].flags
             /\ q(x).items = bq[x].items /\ q(x).bid = bq[x].bid /\ q(x).res = bq[x].res
  <2>1. bq[x] \in Batch
    BY Zenon DEF Types
  <2>. QED
    BY Zenon, <2>1 DEF Batch
<1>2. bq' = [x \in Obj |-> IF x \in O THEN q(x) ELSE bq[x]]
  BY Zenon DEF SchedFinish
<1>3. work' = [x \in Obj |-> IF x \in O THEN work[x] + 1 ELSE work[x]]
  BY Zenon DEF SchedFinish
<1> HIDE DEF q
<1>4. \A x \in Obj : bq[x] \in Batch /\ work[x] \in Nat
  BY Zenon DEF Types
<1>5. bq' \in [Obj -> Batch] /\ work' \in [Obj -> Nat]
  BY <1>1, <1>2, <1>3, <1>4
<1>6. ASSUME NEW x \in Obj
      PROVE  /\ bq'[x].at = IF x \in O THEN "queued" ELSE bq[x].at
             /\ bq'[x].flags = bq[x].flags /\ bq'[x].items = bq[x].items
             /\ bq'[x].bid = bq[x].bid /\ bq'[x].res = bq[x].res
             /\ work'[x] = IF x \in O THEN work[x] + 1 ELSE work[x]
  BY Zenon, <1>1, <1>2, <1>3
<1>. QED
  BY Zenon, <1>5, <1>6 DEF Finishes

LEMMA FinishLife ==
  ASSUME Types, Made, Life, Throttled, NEW O \in SUBSET Waitrep, Finishes(O),
         UNCHANGED <<add, batchcnt>>,
         snd' = snd \/ (snd' = Idle /\ snd.pc = "send")
  PROVE  Made' /\ Life' /\ Throttled'
<1> USE DEF Finishes, Waitrep
<1>1. snd'.pc = "move" <=> snd.pc = "move"
  BY DEF Idle
<1>2. snd.pc = "move" => snd' = snd
  BY Zenon DEF Idle
<1>3. Made'
  BY AdderFacts DEF Made
<1>4. Life'
  <2>1. snd'.pc = "move" => Moving(snd.o)' /\ bq'[snd'.o].res = snd'.res
    BY SMTT(30), <1>1, <1>2, SenderFacts DEF Life, Moving
  <2>2. ASSUME NEW o \in Obj, Moving(o)' \/ bq'[o].at \in {"waitrep", "queued"}
        PROVE  Sent(o)'
    BY <2>2, <1>1, <1>2 DEF Life, Moving, Sent
  <2>3. ASSUME NEW o \in Obj
        PROVE  work'[o] = IF bq'[o].at = "queued" THEN 1 ELSE 0
    BY DEF Life
  <2>. QED
    BY Zenon, <1>1, <1>2, <2>1, <2>2, <2>3 DEF Life
<1>5. ASSUME NEW d \in Res
      PROVE  Counted(d)' = Counted(d)
  BY <1>1, <1>2 DEF Counted
<1>. QED
  BY Zenon, <1>3, <1>4, <1>5, ThrottledSame

LEMMA FinishExact ==
  ASSUME Types, Exact, NEW O \in SUBSET Waitrep, Finishes(O),
         \A r \in rpc' : r \in rpc /\ r.o \notin O, down' = down,
         (snd' = snd /\ (snd.pc = "send" => snd.o \notin O)) \/ snd' = Idle
  PROVE  Exact'
<1> USE DEF Finishes, Waitrep
<1>1. snd'.pc \in {"move", "send"} => snd' = snd /\ snd.o \in Obj
  BY SenderFacts DEF Idle
<1>2. \A r \in rpc : r.o \in Obj
  BY Zenon DEF Types, Rpc
<1>3. \A o \in Obj : "reply" \in bq'[o].flags => bq'[o].at \in {"waitrep", "queued"}
  BY Zenon DEF Exact
<1>4. snd'.pc = "move" => bq'[snd'.o].bid = snd'.bid
  BY <1>1 DEF Exact
<1>5. snd'.pc = "send" => Waits(snd.o, snd.bid)' /\ \A r \in rpc' : r.o # snd'.o
  BY <1>1 DEF Exact, Waits, Idle
<1>6. ASSUME NEW r \in rpc'
      PROVE  bq'[r.o].at = "waitrep" /\ "reply" \notin bq'[r.o].flags /\ bq'[r.o].bid = r.bid
  BY <1>2 DEF Exact, Waits
<1>7. \A r, q \in rpc' : r.o = q.o => r = q
  BY Zenon DEF Exact
<1>8. down' = {}
  BY Zenon DEF Exact
<1>. QED
  BY Zenon, <1>1, <1>3, <1>4, <1>5, <1>6, <1>7, <1>8 DEF Exact, Waits

-----------------------------------------------------------------------------
(* Steps that change no batch *)

(* A step that leaves the batches, the sender and the requests alone, or   *)
(* changes a request only in how far it has come.                          *)
LEMMA QuietStep ==
  ASSUME IInv, faults' \in Plan, faults'.may = faults.may,
         UNCHANGED <<bq, add, snd, work, batchcnt, called, bid>>, down' \in SUBSET Res,
         down' = down \/ ~Connected, rpc' \in SUBSET Rpc,
         \A r \in rpc' : \E q \in rpc : r.o = q.o /\ r.bid = q.bid,
         \A r, q \in rpc' : r.o = q.o /\ Connected => r = q
  PROVE  IInv'
<1>1. Types'
  BY Zenon DEF IInv, Types
<1>2. Fits' /\ Placed'
  BY Zenon, FitsSame, PlacedSame DEF IInv
<1>3. Calm' <=> Calm
  BY Zenon DEF Calm
<1>4. Made /\ Life /\ Throttled => Made' /\ Life' /\ Throttled'
  BY DEF Made, Life, Throttled, Moving, Sent
<1>5. Connected' <=> Connected
  BY Zenon DEF Connected
<1>6. Exact /\ Connected => Exact'
  <2> SUFFICES ASSUME Exact, Connected PROVE Exact'
    BY Zenon
  <2>1. \A r \in rpc' : Waits(r.o, r.bid)'
    BY DEF Exact, Waits
  <2>2. snd'.pc = "send" => Waits(snd.o, snd.bid)' /\ \A r \in rpc' : r.o # snd'.o
    BY DEF Exact, Waits
  <2>. QED
    BY Zenon, <2>1, <2>2 DEF Exact
<1>. QED
  BY Zenon, <1>1, <1>2, <1>3, <1>4, <1>5, <1>6 DEF IInv

LEMMA DeliverIInv == ASSUME IInv, NEW r \in rpc, Deliver(r) PROVE IInv'
<1> DEFINE n == [r EXCEPT !.st = "ok"]
<1>1. r \in Rpc
  BY Zenon DEF IInv, Types
<1>2. n \in Rpc /\ n.o = r.o /\ n.bid = r.bid
  BY Zenon, <1>1 DEF Rpc
<1>3. rpc' = (rpc \ {r}) \cup {n}
  BY Zenon DEF Deliver
<1> HIDE DEF n
<1>4. rpc' \in SUBSET Rpc
  BY Zenon, <1>2, <1>3 DEF IInv, Types
<1>5. \A x, q \in rpc' : x.o = q.o /\ Connected => x = q
  BY <1>2, <1>3 DEF IInv, Exact
<1>6. \A x \in rpc' : \E q \in rpc : x.o = q.o /\ x.bid = q.bid
  BY Zenon, <1>2, <1>3
<1>7. UNCHANGED <<bq, add, snd, work, batchcnt, called, bid, down, faults>>
  BY Zenon DEF Deliver
<1>8. faults' \in Plan /\ faults'.may = faults.may /\ down' \in SUBSET Res
  BY Zenon, <1>7 DEF IInv, Types
<1>. QED
  BY Zenon, <1>4, <1>5, <1>6, <1>7, <1>8, QuietStep

LEMMA DeliverFailIInv == ASSUME IInv, NEW r \in rpc, DeliverFail(r) PROVE IInv'
<1> DEFINE n == [r EXCEPT !.st = "err"]
<1>1. r \in Rpc
  BY DEF IInv, Types
<1>2. n \in Rpc /\ n.o = r.o /\ n.bid = r.bid
  BY Zenon, <1>1 DEF Rpc
<1>3. rpc' = (rpc \ {r}) \cup {n}
  BY Zenon DEF DeliverFail
<1> HIDE DEF n
<1>4. rpc' \in SUBSET Rpc
  BY <1>2, <1>3 DEF IInv, Types
<1>5. \A x, q \in rpc' : x.o = q.o /\ Connected => x = q
  BY <1>2, <1>3 DEF IInv, Exact
<1>6. \A x \in rpc' : \E q \in rpc : x.o = q.o /\ x.bid = q.bid
  BY <1>2, <1>3
<1>7. UNCHANGED <<bq, add, snd, work, batchcnt, called, bid, down>>
  BY Zenon DEF DeliverFail
<1>8. faults' \in Plan /\ faults'.may = faults.may
  BY Zenon, FaultFacts DEF DeliverFail, IInv, Types
<1>9. down' \in SUBSET Res
  BY Zenon, <1>7 DEF IInv, Types
<1>. QED
  BY Zenon, <1>4, <1>5, <1>6, <1>7, <1>8, <1>9, QuietStep

LEMMA QuietIInv ==
  ASSUME IInv,
         \/ \E p \in peer : PeerReply(p)
         \/ \E p \in reply : HandleReplyNone(p)
         \/ \E d \in Res, dies \in BOOLEAN : Lose(d, dies)
         \/ UNCHANGED vars
  PROVE  IInv'
<1>1. UNCHANGED <<bq, add, snd, rpc, work, batchcnt, called, bid>>
  BY Zenon DEF PeerReply, HandleReplyNone, Lose, vars
<1>2. (\E f \in {"new", "send", "ack", "drop", "die"} : Fault(f)) \/ UNCHANGED faults
  BY Zenon DEF PeerReply, HandleReplyNone, Lose, vars
<1>3. faults' \in Plan /\ faults'.may = faults.may
  BY Zenon, <1>2, FaultFacts DEF IInv, Types
<1>4. down' \in SUBSET Res
  BY Zenon DEF IInv, Types, PeerReply, HandleReplyNone, Lose, vars
<1>5. rpc' \in SUBSET Rpc
  BY Zenon, <1>1 DEF IInv, Types
<1>6. \A r \in rpc' : \E q \in rpc : r.o = q.o /\ r.bid = q.bid
  BY Zenon, <1>1
<1>7. \A r, q \in rpc' : r.o = q.o /\ Connected => r = q
  BY Zenon, <1>1 DEF IInv, Exact
<1>8. down' = down \/ ~Connected
  BY Zenon DEF PeerReply, HandleReplyNone, Lose, vars, Fault, Connected
<1>. QED
  BY Zenon, <1>1, <1>3, <1>4, <1>5, <1>6, <1>7, <1>8, QuietStep

-----------------------------------------------------------------------------
(* slrpc_batch_req_add() *)

LEMMA ExpireIInv ==
  ASSUME IInv, NEW o \in Obj, Expire(o)
  PROVE  IInv'
<1> DEFINE r == [bq[o] EXCEPT !.expired = TRUE]
<1>1. /\ r \in Batch /\ r.at = bq[o].at /\ r.items = bq[o].items
      /\ r.flags = bq[o].flags /\ r.res = bq[o].res /\ r.bid = bq[o].bid
  <2>1. bq[o] \in Batch
    BY Zenon DEF IInv, Types
  <2>. QED
    BY ZenonT(30), <2>1 DEF Batch
<1>2. bq' = [bq EXCEPT ![o] = r]
  BY Zenon DEF Expire
<1> HIDE DEF r
<1>3. Becomes(o, r)
  BY ZenonT(30), <1>1, <1>2, BecomesFacts DEF IInv
<1>4. UNCHANGED <<add, snd, rpc, work, batchcnt, down, called, bid, faults>>
  BY Zenon DEF Expire
<1>5. \A x \in Obj : /\ bq'[x].at = bq[x].at /\ bq'[x].items = bq[x].items
                     /\ bq'[x].flags = bq[x].flags /\ bq'[x].res = bq[x].res
                     /\ bq'[x].bid = bq[x].bid
  BY Zenon, <1>1, <1>3 DEF Becomes
<1>6. Types'
  BY Zenon, <1>3, <1>4 DEF IInv, Types, Becomes
<1>7. Fits' /\ Placed'
  BY Zenon, <1>4, <1>5, FitsSame, PlacedSame DEF IInv
<1>8. Calm' => Made' /\ Life' /\ Throttled'
  <2> SUFFICES ASSUME Calm PROVE Made' /\ Life' /\ Throttled'
    BY Zenon, <1>4 DEF Calm
  <2>1. Made /\ Life /\ Throttled
    BY Zenon DEF IInv
  <2>2. Made'
    BY SMTT(30), <1>4, <1>5, <2>1, AdderFacts DEF Made, IInv
  <2>3. Life'
    BY <1>4, <1>5, <2>1, SenderFacts DEF Life, Moving, Sent, IInv
  <2>4. ASSUME NEW d \in Res PROVE Counted(d)' = Counted(d)
    BY Zenon, <1>4, <1>5 DEF Counted
  <2>. QED
    BY Zenon, <1>4, <2>1, <2>2, <2>3, <2>4, ThrottledSame
<1>9. Connected' => Exact'
  BY <1>4, <1>5, SenderFacts DEF IInv, Connected, Exact, Waits, Types, Rpc
<1>. QED
  BY Zenon, <1>6, <1>7, <1>8, <1>9 DEF IInv

-----------------------------------------------------------------------------
(* The sender *)

LEMMA SendMoveIInv ==
  ASSUME IInv, SendMove
  PROVE  IInv'
<1> DEFINE o == snd.o
           r == [bq[o] EXCEPT !.at = "waitrep"]
<1>1. /\ o \in Obj /\ snd.pc = "move"
      /\ snd \in [pc : {"move", "send"}, o : Obj, bid : Nat, res : Res]
  BY Zenon, SenderFacts DEF SendMove, IInv
<1>2. /\ r \in Batch /\ r.at = "waitrep" /\ r.items = bq[o].items
      /\ r.flags = bq[o].flags /\ r.res = bq[o].res /\ r.bid = bq[o].bid
  <2>1. bq[o] \in Batch
    BY Zenon, <1>1 DEF IInv, Types
  <2>. QED
    BY Zenon, <2>1 DEF Batch
<1>3. bq' = [bq EXCEPT ![o] = r]
  BY Zenon DEF SendMove
<1>4. /\ snd' \in Sender /\ snd'.pc = "send" /\ snd'.o = o /\ snd'.bid = snd.bid
      /\ snd'.res = snd.res
  BY Zenon, <1>1 DEF SendMove, Sender
<1> HIDE DEF r
<1>5. Becomes(o, r)
  BY ZenonT(30), <1>1, <1>2, <1>3, BecomesFacts DEF IInv
<1>6. UNCHANGED <<add, rpc, work, batchcnt, down, called, bid, faults>>
  BY Zenon DEF SendMove
<1>7. Types'
  BY Zenon, <1>4, <1>5, <1>6 DEF IInv, Types, Becomes
<1>8. \A x \in Obj : /\ bq'[x].items = bq[x].items /\ bq'[x].flags = bq[x].flags
                     /\ bq'[x].res = bq[x].res /\ bq'[x].bid = bq[x].bid
  BY Zenon, <1>2, <1>5 DEF Becomes
<1>9. Fits' /\ Placed'
  BY Zenon, <1>6, <1>8, FitsSame, PlacedSame DEF IInv
<1>10. Calm' => Made' /\ Life' /\ Throttled'
  <2> SUFFICES ASSUME Calm PROVE Made' /\ Life' /\ Throttled'
    BY Zenon, <1>6 DEF Calm
  <2>1. Made /\ Life /\ Throttled /\ bq[o].at = "delayed"
    BY Zenon, <1>1 DEF IInv, Life, Moving
  <2>2. Made'
    BY Zenon, <1>2, <1>5, <1>6, <2>1, AdderFacts DEF Made, IInv, Becomes
  <2>3. Life'
    <3>1. ASSUME NEW x \in Obj, Moving(x)' \/ bq'[x].at \in {"waitrep", "queued"} PROVE Sent(x)'
      BY <3>1, <1>1, <1>4, <1>5, <1>8, <2>1 DEF Life, Moving, Sent, Becomes
    <3>2. ASSUME NEW x \in Obj PROVE work'[x] = IF bq'[x].at = "queued" THEN 1 ELSE 0
      BY Zenon, <1>2, <1>5, <1>6, <2>1 DEF Life, Becomes
    <3>. QED
      BY Zenon, <1>4, <3>1, <3>2 DEF Life
  <2>4. ASSUME NEW d \in Res PROVE Counted(d)' = Counted(d)
    BY <1>1, <1>2, <1>4, <1>5, <1>8, <2>1 DEF Counted, Becomes
  <2>. QED
    BY Zenon, <1>6, <2>1, <2>2, <2>3, <2>4, ThrottledSame
<1>11. Connected' => Exact'
  <2> SUFFICES ASSUME Connected PROVE Exact'
    BY Zenon, <1>6 DEF Connected
  <2>1. Exact /\ bq[o].at = "delayed" /\ "reply" \notin bq[o].flags /\ bq[o].bid = snd.bid
    BY Zenon, <1>1 DEF IInv, Life, Moving, Connected, Calm, Exact
  <2>2. \A q \in rpc : q.o \in Obj \ {o}
    BY Zenon, <2>1 DEF Exact, Waits, IInv, Types, Rpc
  <2>3. \A x \in Obj : "reply" \in bq'[x].flags => bq'[x].at \in {"waitrep", "queued"}
    BY <1>2, <1>5, <2>1 DEF Exact, Becomes
  <2>4. bq'[o].at = "waitrep" /\ "reply" \notin bq'[o].flags /\ bq'[o].bid = snd.bid
    BY Zenon, <1>2, <1>5, <2>1 DEF Becomes
  <2> HIDE DEF o
  <2>. QED
    BY ZenonT(30), <1>4, <1>5, <1>6, <2>1, <2>2, <2>3, <2>4 DEF Exact, Waits, Becomes
<1>. QED
  BY Zenon, <1>7, <1>9, <1>10, <1>11 DEF IInv

LEMMA SendIInv ==
  ASSUME IInv, Send
  PROVE  IInv'
<1> DEFINE n == [o |-> snd.o, bid |-> snd.bid, res |-> snd.res, st |-> "net"]
<1>1. snd.pc = "send" /\ snd.o \in Obj /\ snd.bid \in Nat /\ snd.res \in Res
  BY Zenon, SenderFacts DEF Send, IInv
<1>2. n \in Rpc /\ n.o = snd.o /\ n.bid = snd.bid
  BY Zenon, <1>1 DEF Rpc
<1>3. rpc' = rpc \cup {n}
  BY Zenon DEF Send
<1> HIDE DEF n
<1>4. /\ UNCHANGED <<bq, add, work, batchcnt, down, called, bid, faults>>
      /\ snd' \in Sender /\ snd'.pc = "idle"
  BY Zenon DEF Send, Idle, Sender
<1>5. Types'
  BY Zenon, <1>2, <1>3, <1>4 DEF IInv, Types
<1>6. Fits' /\ Placed'
  BY Zenon, <1>4, FitsSame, PlacedSame DEF IInv
<1>7. Calm' => Made' /\ Life' /\ Throttled'
  <2> SUFFICES ASSUME Calm PROVE Made' /\ Life' /\ Throttled'
    BY Zenon, <1>4 DEF Calm
  <2>1. Made /\ Life /\ Throttled
    BY Zenon DEF IInv
  <2>2. Made'
    BY Zenon, <1>4, <2>1 DEF Made
  <2>3. Life'
    BY Zenon, <1>4, <2>1 DEF Life, Moving, Sent
  <2>4. ASSUME NEW d \in Res PROVE Counted(d)' = Counted(d)
    BY Zenon, <1>1, <1>4 DEF Counted
  <2>. QED
    BY Zenon, <1>4, <2>1, <2>2, <2>3, <2>4, ThrottledSame
<1>8. Connected' => Exact'
  <2> SUFFICES ASSUME Connected PROVE Exact'
    BY Zenon, <1>4 DEF Connected
  <2>1. Exact /\ Waits(snd.o, snd.bid) /\ \A q \in rpc : q.o # snd.o
    BY Zenon, <1>1 DEF IInv, Exact
  <2>2. \A q \in rpc' : Waits(q.o, q.bid)'
    BY Zenon, <1>2, <1>3, <1>4, <2>1 DEF Exact, Waits
  <2>3. \A q, p \in rpc' : q.o = p.o => q = p
    BY Zenon, <1>2, <1>3, <2>1 DEF Exact
  <2>. QED
    BY Zenon, <1>4, <2>1, <2>2, <2>3 DEF Exact, Waits
<1>. QED
  BY <1>5, <1>6, <1>7, <1>8 DEF IInv

(* Steps that finish batches: the items and their owners are not affected. *)
LEMMA FinishRest ==
  ASSUME IInv, NEW O \in SUBSET Obj, SchedFinish(O),
         faults' \in Plan, UNCHANGED <<add, batchcnt, called, bid>>,
         down' \in SUBSET Res, snd' \in Sender, rpc' \in SUBSET Rpc
  PROVE  Finishes(O) /\ Types' /\ Fits' /\ Placed'
<1>1. Finishes(O)
  BY Zenon, FinishFacts DEF IInv
<1>2. Types'
  BY Zenon, <1>1 DEF IInv, Types, Finishes
<1>3. \A x \in Obj : bq'[x].items = bq[x].items
  BY Zenon, <1>1 DEF Finishes
<1>4. Fits' /\ Placed'
  BY Zenon, <1>3, FitsSame, PlacedSame DEF IInv
<1>. QED
  BY Zenon, <1>1, <1>2, <1>4

LEMMA SendFailIInv ==
  ASSUME IInv, SendFail
  PROVE  IInv'
<1>1. snd.pc = "send" /\ snd.o \in Obj
  BY Zenon, SenderFacts DEF SendFail, IInv
<1>2. /\ SchedFinish({snd.o}) /\ "send" \in faults.may
      /\ UNCHANGED <<add, rpc, batchcnt, down, called, bid>>
      /\ snd' = Idle /\ snd' \in Sender
  BY Zenon DEF SendFail, Fault, Sender
<1>3. faults' \in Plan /\ faults'.may = faults.may
  BY Zenon, FaultFacts DEF SendFail, IInv, Types
<1>4. Finishes({snd.o}) /\ Types' /\ Fits' /\ Placed'
  <2>1. down' \in SUBSET Res /\ rpc' \in SUBSET Rpc
    BY Zenon, <1>2 DEF IInv, Types
  <2>. QED
    BY Zenon, <1>1, <1>2, <1>3, <2>1, FinishRest
<1>5. Calm => Connected
  BY Zenon, <1>2 DEF Calm, Connected
<1>6. Connected => {snd.o} \in SUBSET Waitrep
  BY Zenon, <1>1 DEF IInv, Exact, Waits, Waitrep
<1>7. Calm' => Made' /\ Life' /\ Throttled'
  <2> SUFFICES ASSUME Calm PROVE Made' /\ Life' /\ Throttled'
    BY Zenon, <1>3 DEF Calm
  <2>. QED
    BY Zenon, <1>1, <1>2, <1>4, <1>5, <1>6, FinishLife DEF IInv
<1>8. Connected' => Exact'
  <2> SUFFICES ASSUME Connected PROVE Exact'
    BY Zenon, <1>3 DEF Connected
  <2>1. \A q \in rpc' : q \in rpc /\ q.o \notin {snd.o}
    BY Zenon, <1>1, <1>2 DEF IInv, Exact
  <2>. QED
    BY Zenon, <1>2, <1>4, <1>6, <2>1, FinishExact DEF IInv
<1>. QED
  BY Zenon, <1>4, <1>7, <1>8 DEF IInv

LEMMA HandleReplyIInv ==
  ASSUME IInv, NEW p \in reply, HandleReply(p)
  PROVE  IInv'
<1>1. PICK o \in Match(p) : "reply" \in bq[o].flags /\ SchedFinish({o})
  BY ZenonT(30) DEF HandleReply
<1>2. {o} \in SUBSET Waitrep /\ o \in Obj
  BY Zenon DEF Match, Waitrep
<1>3. UNCHANGED <<add, snd, rpc, batchcnt, down, called, bid, faults>>
  BY Zenon DEF HandleReply
<1>4. Finishes({o}) /\ Types' /\ Fits' /\ Placed'
  <2>1. down' \in SUBSET Res /\ rpc' \in SUBSET Rpc /\ snd' \in Sender /\ faults' \in Plan
    BY Zenon, <1>3 DEF IInv, Types
  <2>. QED
    BY Zenon, <1>1, <1>2, <1>3, <2>1, FinishRest
<1>5. Calm' => Made' /\ Life' /\ Throttled'
  BY Zenon, <1>2, <1>3, <1>4, FinishLife DEF IInv, Calm
<1>6. Connected' => Exact'
  <2> SUFFICES ASSUME Connected PROVE Exact'
    BY Zenon, <1>3 DEF Connected
  <2>1. \A q \in rpc' : q \in rpc /\ q.o \notin {o}
    BY Zenon, <1>1, <1>3 DEF IInv, Exact, Waits
  <2>2. snd.pc = "send" => snd.o \notin {o}
    BY Zenon, <1>1 DEF IInv, Exact, Waits
  <2>. QED
    BY Zenon, <1>2, <1>3, <1>4, <2>1, <2>2, FinishExact DEF IInv
<1>. QED
  BY Zenon, <1>4, <1>5, <1>6 DEF IInv

(* slrpc_batches_drop() runs only for a connection that was lost.          *)
LEMMA DropIInv ==
  ASSUME IInv, NEW d \in Res, Drop(d)
  PROVE  IInv'
<1> DEFINE O == {o \in Waitrep : bq[o].res = d}
<1>1. O \in SUBSET Waitrep /\ O \in SUBSET Obj
  BY Zenon DEF Waitrep
<1>2. SchedFinish(O) /\ UNCHANGED <<add, snd, rpc, batchcnt, called, bid, faults>>
  BY Zenon DEF Drop
<1> HIDE DEF O
<1>3. Finishes(O) /\ Types' /\ Fits' /\ Placed'
  <2>1. down' \in SUBSET Res /\ rpc' \in SUBSET Rpc /\ snd' \in Sender /\ faults' \in Plan
    BY Zenon, <1>2 DEF IInv, Types, Drop
  <2>. QED
    BY Zenon, <1>1, <1>2, <2>1, FinishRest
<1>4. Calm' => Made' /\ Life' /\ Throttled'
  BY Zenon, <1>1, <1>2, <1>3, FinishLife DEF IInv, Calm
<1>5. ~Connected'
  BY Zenon, <1>2 DEF Drop, Connected, IInv, Exact
<1>. QED
  BY Zenon, <1>3, <1>4, <1>5 DEF IInv

LEMMA SendCbIInv ==
  ASSUME IInv, NEW r \in rpc, SendCb(r)
  PROVE  IInv'
<1>1. /\ r \in Rpc /\ r.o \in Obj /\ rpc' = rpc \ {r}
      /\ UNCHANGED <<add, snd, batchcnt, down, called, bid, faults>>
  BY Zenon DEF SendCb, IInv, Types, Rpc
<1>2. CASE r.st # "ok"
  <2> DEFINE O == {r.o} \cap Waitrep
  <2>1. SchedFinish(O) /\ O \in SUBSET Waitrep /\ O \in SUBSET Obj /\ O \subseteq {r.o}
    BY Zenon, <1>1, <1>2 DEF SendCb, Waitrep
  <2> HIDE DEF O
  <2>2. Finishes(O) /\ Types' /\ Fits' /\ Placed'
    <3>1. down' \in SUBSET Res /\ rpc' \in SUBSET Rpc /\ snd' \in Sender /\ faults' \in Plan
      BY Zenon, <1>1 DEF IInv, Types
    <3>. QED
      BY Zenon, <1>1, <2>1, <3>1, FinishRest
  <2>3. Calm' => Made' /\ Life' /\ Throttled'
    BY Zenon, <1>1, <2>1, <2>2, FinishLife DEF IInv, Calm
  <2>4. Connected' => Exact'
    <3> SUFFICES ASSUME Connected PROVE Exact'
      BY Zenon, <1>1 DEF Connected
    <3>1. \A q \in rpc' : q \in rpc /\ q.o \notin O
      BY Zenon, <1>1, <2>1 DEF IInv, Exact
    <3>2. snd.pc = "send" => snd.o \notin O
      BY Zenon, <2>1 DEF IInv, Exact
    <3>. QED
      BY Zenon, <1>1, <2>1, <2>2, <3>1, <3>2, FinishExact DEF IInv
  <2>. QED
    BY Zenon, <2>2, <2>3, <2>4 DEF IInv
<1>3. CASE r.st = "ok"
  <2> DEFINE o == r.o
             n == [bq[o] EXCEPT !.flags = IF bq[o].at = "pool" THEN @
                                          ELSE (@ \ {"infl"}) \cup {"reply"}]
  <2>1. bq' = [bq EXCEPT ![o] = n] /\ UNCHANGED work
    BY Zenon, <1>3 DEF SendCb
  <2>2. /\ n \in Batch /\ n.at = bq[o].at /\ n.items = bq[o].items
        /\ n.res = bq[o].res /\ n.bid = bq[o].bid
        /\ n.flags = IF bq[o].at = "pool" THEN bq[o].flags
                     ELSE (bq[o].flags \ {"infl"}) \cup {"reply"}
    <3>1. bq[o] \in Batch
      BY Zenon, <1>1 DEF IInv, Types
    <3>. QED
      BY Zenon, <3>1 DEF Batch
  <2> HIDE DEF n
  <2>3. Becomes(o, n)
    BY ZenonT(30), <1>1, <2>1, <2>2, BecomesFacts DEF IInv
  <2>4. \A x \in Obj : /\ bq'[x].at = bq[x].at /\ bq'[x].items = bq[x].items
                       /\ bq'[x].res = bq[x].res /\ bq'[x].bid = bq[x].bid
    BY Zenon, <2>2, <2>3 DEF Becomes
  <2>5. Types'
    BY Zenon, <1>1, <2>1, <2>3 DEF IInv, Types, Becomes
  <2>6. Fits' /\ Placed'
    BY Zenon, <1>1, <2>4, FitsSame, PlacedSame DEF IInv
  <2>7. Calm' => Made' /\ Life' /\ Throttled'
    <3> SUFFICES ASSUME Calm PROVE Made' /\ Life' /\ Throttled'
      BY Zenon, <1>1 DEF Calm
    <3>1. Made /\ Life /\ Throttled
      BY Zenon DEF IInv
    <3>2. Made'
      BY <1>1, <2>4, <3>1, AdderFacts DEF Made, IInv
    <3>3. Life'
      <4>1. snd'.pc = "move" => Moving(snd.o)' /\ bq'[snd'.o].res = snd'.res
        BY Zenon, <1>1, <2>4, <3>1, SenderFacts DEF Life, Moving, IInv
      <4>2. ASSUME NEW x \in Obj, Moving(x)' \/ bq'[x].at \in {"waitrep", "queued"} PROVE Sent(x)'
        BY <4>2, <1>1, <2>2, <2>3, <2>4, <3>1 DEF Life, Moving, Sent, Becomes
      <4>3. ASSUME NEW x \in Obj PROVE work'[x] = IF bq'[x].at = "queued" THEN 1 ELSE 0
        BY Zenon, <2>1, <2>4, <3>1 DEF Life
      <4>. QED
        BY Zenon, <1>1, <4>1, <4>2, <4>3 DEF Life
    <3>4. ASSUME NEW d \in Res PROVE Counted(d)' = Counted(d)
      BY Zenon, <1>1, <2>4 DEF Counted
    <3>. QED
      BY Zenon, <1>1, <3>1, <3>2, <3>3, <3>4, ThrottledSame
  <2>8. Connected' => Exact'
    <3> SUFFICES ASSUME Connected PROVE Exact'
      BY <1>1 DEF Connected
    <3>1. Exact /\ bq[o].at = "waitrep"
      BY Zenon DEF IInv, Exact, Waits
    <3>2. \A q \in rpc' : q \in rpc /\ q.o \in Obj \ {o}
      BY Zenon, <1>1, <3>1 DEF Exact, IInv, Types, Rpc
    <3>3. snd.pc = "send" => snd.o \in Obj \ {o}
      BY Zenon, <3>1, SenderFacts DEF Exact, IInv
    <3>4. \A x \in Obj : "reply" \in bq'[x].flags => bq'[x].at \in {"waitrep", "queued"}
      BY <2>2, <2>3, <2>4, <3>1 DEF Exact, Becomes
    <3>5. snd'.pc = "move" => bq'[snd'.o].bid = snd'.bid
      BY Zenon, <1>1, <2>4, <3>1, SenderFacts DEF Exact, IInv
    <3>6. \A q \in rpc' : bq'[q.o] = bq[q.o]
      BY Zenon, <2>3, <3>2 DEF Becomes
    <3>7. snd.pc = "send" => bq'[snd.o] = bq[snd.o]
      BY Zenon, <2>3, <3>3 DEF Becomes
    <3>. QED
      BY SMTT(30), <1>1, <3>1, <3>2, <3>3, <3>4, <3>5, <3>6, <3>7 DEF Exact, Waits
  <2>. QED
    BY Zenon, <2>5, <2>6, <2>7, <2>8 DEF IInv
<1>. QED
  BY Zenon, <1>2, <1>3

LEMMA InitIInv == Init => IInv
<1> SUFFICES ASSUME Init PROVE IInv
  BY Zenon
<1>1. /\ \A o \in Obj : bq[o] = Blank /\ work[o] = 0
      /\ \A i \in Item : add[i] = Idle /\ called[i] = 0
      /\ snd.pc = "idle" /\ rpc = {} /\ down = {}
  BY Zenon DEF Init, Idle
<1>2. Types
  <2>1. Idle \in Adder /\ faults \in Plan
    BY Zenon, Sizes DEF Idle, Adder, Init, Plan
  <2>. QED
    BY <2>1, BlankFacts DEF Init, Types, Sender, Res
<1>3. Fits /\ Placed
  <2>1. \A o \in Obj : bq[o].items = {}
    BY Zenon, <1>1, BlankFacts
  <2>2. Fits
    <3>1. Cardinality({}) = 0
      BY Zenon, FS_EmptySet
    <3>2. 0 <= Size
      BY Sizes
    <3>. QED
      BY Zenon, <2>1, <3>1, <3>2 DEF Fits
  <2>3. \A i \in Item : called[i] <= IF add[i].pc = "added" THEN 1 ELSE 0
    BY <1>1
  <2>. QED
    BY Zenon, <2>1, <2>2, <2>3 DEF Placed
<1>4. Made /\ Life
  BY <1>1, BlankFacts DEF Made, Life, Moving, Idle
<1>5. Throttled
  <2>1. \A d \in Res : Counted(d) = {} /\ batchcnt[d] = 0
    BY Zenon, <1>1, BlankFacts DEF Counted, Init
  <2>. QED
    BY <2>1, ThrottledIs, FS_EmptySet, Sizes
<1>6. Exact
  BY Zenon, <1>1, BlankFacts DEF Exact
<1>. QED
  BY Zenon, <1>2, <1>3, <1>4, <1>5, <1>6 DEF IInv

LEMMA NextIInv == IInv /\ [Next]_vars => IInv'
  BY Zenon, AddQuietIInv, AddToIInv, AddNewIInv, AddPublishIInv, ExpireIInv, DoneIInv,
     SendPickIInv, SendMoveIInv, SendIInv, SendFailIInv, DeliverIInv, DeliverFailIInv,
     SendCbIInv, HandleReplyIInv, DropIInv, QuietIInv DEF Next

LEMMA BatchIInv == Spec => []IInv
  BY InitIInv, NextIInv, PTL DEF Spec

(* Type correctness; with it, the assertion of slrpc_batch_req_add() that  *)
(* a batch never has more than bq_size items.                              *)
THEOREM BatchTypeOK == Spec => []TypeOK
<1>1. IInv => TypeOK
  <2> SUFFICES ASSUME IInv PROVE TypeOK
    BY Zenon
  <2>1. \A o \in Obj : bq[o].at \in {"pool", "made", "delayed", "waitrep", "queued"}
                       /\ bq[o].flags \subseteq {"delay", "infl", "reply"}
    BY Zenon DEF IInv, Types, Batch
  <2>2. \A i \in Item : add[i].pc \in {"idle", "look", "made", "added", "refused"}
    BY Zenon, AdderFacts DEF IInv
  <2>. QED
    BY Zenon, <2>1, <2>2 DEF TypeOK, IInv, Types, Fits
<1>. QED
  BY <1>1, BatchIInv, PTL

(* slrpc_batch_req_done() runs once for a batch, which was sent, whatever  *)
(* fails, is lost or dropped: except that a send that fails locally may    *)
(* not coincide with a dropped connection.                                 *)
THEOREM BatchFinishedOnce == Spec => [](Calm => FinishedOnce)
<1>1. IInv => (Calm => FinishedOnce)
  BY DEF IInv, Life, FinishedOnce, Types, Sent
<1>. QED
  BY <1>1, BatchIInv, PTL

(* The callback of an item runs once at most, and never for an item that   *)
(* was refused, whatever fails.                                            *)
THEOREM BatchCalledOnce == Spec => []CalledOnce
<1>1. IInv => CalledOnce
  BY Zenon DEF IInv, Placed, CalledOnce
<1>. QED
  BY <1>1, BatchIInv, PTL

(* res_batchcnt is exact and never above the limit of                      *)
(* slrpc_batch_thr_main().                                                 *)
THEOREM BatchThrottled == Spec => [](Calm => Throttled)
<1>1. IInv => (Calm => Throttled)
  BY Zenon DEF IInv
<1>. QED
  BY <1>1, BatchIInv, PTL

(* slrpc_batch_req_send_cb() finds the batch it was given.                 *)
THEOREM BatchNoStalePointer == Spec => []NoStalePointer
<1>1. IInv => NoStalePointer
  BY Zenon DEF IInv, Connected, Exact, Waits, NoStalePointer
<1>. QED
  BY <1>1, BatchIInv, PTL
===============================================================================
