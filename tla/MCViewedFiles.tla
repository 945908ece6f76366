---------------------------- MODULE MCViewedFiles ----------------------------
(* Instances of ViewedFiles for TLC. *)
EXTENDS ViewedFiles

CONSTANTS a, b, f1, f2, f3

\* Two files of one space, which together go over the budget, and one of the other,
\* which alone does.
MCSpaces == {a, b}
MCFiles == {f1, f2, f3}
MCHome == [f \in MCFiles |-> IF f = f3 THEN b ELSE a]
MCSize == [f \in MCFiles |-> CASE f = f1 -> 1 [] f = f2 -> 2 [] f = f3 -> 3]
=============================================================================
