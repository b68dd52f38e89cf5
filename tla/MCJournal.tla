------------------------------ MODULE MCJournal ------------------------------
(* The instance of Journal for TLC. *)
EXTENDS Journal

Ops(ks) == [k \in AllKinds |-> Cardinality({i \in DOMAIN ks : ks[i] = k})]

\* Two operations at a time: renames, which need the whole journal and may log
\* twice, against each other and against an entry logged outside ZFS with its
\* buffer taken first; and entries inside and outside ZFS that share the journal.
Pairs == {Ops(<<"rename", "rename">>), Ops(<<"rename", "seq">>),
          Ops(<<"ns", "assign">>)}
==============================================================================
