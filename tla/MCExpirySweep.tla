--------------------------- MODULE MCExpirySweep ---------------------------
(* Instances of ExpirySweep for TLC. *)
EXTENDS ExpirySweep, TLC

Symmetry == Permutations(Items) \cup Permutations(Requests)
=============================================================================
