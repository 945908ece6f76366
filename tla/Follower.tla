------------------------------ MODULE Follower ------------------------------
(***************************************************************************)
(* What a device promises that keeps a copy of a space by its journal:     *)
(* what it has acknowledged, and so will not be told again, it holds, and  *)
(* held before it acknowledged it.                                         *)
(***************************************************************************)
CONSTANT Items

VARIABLES
  due,   \* the rows of the space the journal will not report again
  held   \* the items the device would still have after a restart

Init == due = {} /\ held \in SUBSET Items

\* It may drop what is not due; rows that are deleted, or shared again, are due no
\* more.
Step ==
  /\ held' \in SUBSET Items
  /\ due' \in SUBSET held'
  /\ due' \ due \subseteq held

Spec == Init /\ [][Step]_<<due, held>>
=============================================================================
