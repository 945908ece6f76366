--------------------------- MODULE MCJournalSync ---------------------------
(* Instances of JournalSync for TLC. *)
EXTENDS JournalSync, TLC

Symmetry == Permutations(Items) \cup Permutations(Handlers) \cup Permutations(Members)
=============================================================================
