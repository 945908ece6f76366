---------------------------- MODULE MCItemStore ----------------------------
(* Instances of ItemStore for TLC. *)
EXTENDS ItemStore, TLC

\* Two units: a file of size 2, or two of size 1, fill a space.
MCQuota == [s \in Spaces |-> 2]

\* Not a multiple of the file size 2: a second file goes over.
MCQuotaOdd == [s \in Spaces |-> 3]

MCQuotaOne == [s \in Spaces |-> 1]

\* Ids are interchangeable: no action tells one from another.
Symmetry == Permutations(Spaces) \cup Permutations(Items) \cup Permutations(Requests)
=============================================================================
