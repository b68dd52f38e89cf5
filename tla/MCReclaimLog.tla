---------------------------- MODULE MCReclaimLog ----------------------------
(* Instances of ReclaimLog for TLC. *)
EXTENDS ReclaimLog

\* Servers that go away, RPCs that fail, damaged files, a collection that is disabled.
Troubled == [begun |-> 1, stuck |-> {}, gcmay |-> IOS, xids |-> 5,
             may |-> {"net", "down", "gc", "odd"}, left |-> 3]

\* The MDS crashes, while servers go away.
Restarted == [Troubled EXCEPT !.gcmay = {}, !.xids = 4, !.may = {"net", "down", "crash"}, !.left = 2]

AllPlans == {Troubled, Restarted}

\* One crash and nothing else.
OneCrash == {[Restarted EXCEPT !.xids = 5, !.may = {"crash"}, !.left = 1]}
=============================================================================
