------------------------------- MODULE RefCache -------------------------------
(***************************************************************************)
(* What a cache of reference counted objects promises its users: the FID   *)
(* cache (share/fidc_common.c) and the bmap cache of a file                *)
(* (share/bmap.c).  A key has at most one object that a lookup may return; *)
(* an object that is used stays; an object on its way out is never         *)
(* returned again.                                                         *)
(***************************************************************************)
CONSTANTS User, Key, Obj,
          NoObj         \* "no object"

VARIABLES
  state,   \* object -> "free", "live" or "dying"
  key,     \* object -> its key, meaningless if the object is free
  use      \* user -> the object it holds

rcvars == <<state, key, use>>

RefCacheTypeOK ==
  /\ state \in [Obj -> {"free", "live", "dying"}]
  /\ key \in [Obj -> Key]
  /\ use \in [User -> Obj \cup {NoObj}]

RCInit ==
  /\ state = [o \in Obj |-> "free"]
  /\ key \in [Obj -> Key]
  /\ use = [u \in User |-> NoObj]

Live(k) == {o \in Obj : state[o] = "live" /\ key[o] = k}

(* A lookup that misses creates the object. *)
Create(u, k, o) ==
  /\ use[u] = NoObj /\ state[o] = "free" /\ Live(k) = {}
  /\ state' = [state EXCEPT ![o] = "live"]
  /\ key' = [key EXCEPT ![o] = k]
  /\ use' = [use EXCEPT ![u] = o]

(* A lookup that hits returns the object that is there. *)
Acquire(u, o) ==
  /\ use[u] = NoObj /\ state[o] = "live"
  /\ use' = [use EXCEPT ![u] = o]
  /\ UNCHANGED <<state, key>>

(* An object is not to be found any more. *)
Doom(o) ==
  /\ state[o] = "live"
  /\ state' = [state EXCEPT ![o] = "dying"]
  /\ UNCHANGED <<key, use>>

(* A user lets its object go; the object may be doomed at once. *)
Drop(u) ==
  /\ use[u] # NoObj
  /\ use' = [use EXCEPT ![u] = NoObj]
  /\ state' \in {state, [state EXCEPT ![use[u]] = "dying"]}
  /\ UNCHANGED key

Destroy(o) ==
  /\ state[o] = "dying" /\ \A u \in User : use[u] # o
  /\ state' = [state EXCEPT ![o] = "free"]
  /\ UNCHANGED <<key, use>>

RCNext ==
  \/ \E u \in User, k \in Key, o \in Obj : Create(u, k, o)
  \/ \E u \in User, o \in Obj : Acquire(u, o)
  \/ \E u \in User : Drop(u)
  \/ \E o \in Obj : Doom(o) \/ Destroy(o)

RCSpec == RCInit /\ [][RCNext]_rcvars

-------------------------------------------------------------------------------
(* An object in use has not been given back, and a key has one object at   *)
(* most for the next lookup.                                               *)
InUse == \A u \in User : use[u] # NoObj => state[use[u]] # "free"
OneLive == \A o, p \in Obj :
             state[o] = "live" /\ state[p] = "live" /\ key[o] = key[p] => o = p
===============================================================================
