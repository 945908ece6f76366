---------------------------- MODULE MCMembership ----------------------------
(* Instances of Membership for TLC. *)
EXTENDS Membership, TLC

Symmetry ==
  Permutations(Members) \cup Permutations(Invitations) \cup Permutations(Pins)
    \cup Permutations(Items) \cup Permutations(Admins) \cup Permutations(Clients)
=============================================================================
