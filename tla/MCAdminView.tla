---------------------------- MODULE MCAdminView ----------------------------
(* Instances of AdminView for TLC. *)
EXTENDS AdminView, TLC

CONSTANTS x, y, a, b, m1, i1

\* The spaces are on one server; the other has none.
MCHome == a :> x @@ b :> x @@ m1 :> a @@ i1 :> a
=============================================================================
