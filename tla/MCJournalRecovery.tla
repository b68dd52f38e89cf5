-------------------------- MODULE MCJournalRecovery --------------------------
(* Instances of JournalRecovery for TLC. *)
EXTENDS JournalRecovery, TLC

Symmetry == Permutations(Op)

==============================================================================
