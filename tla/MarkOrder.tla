----------------------------- MODULE MarkOrder -----------------------------
(***************************************************************************)
(* Marks are named by their arrival numbers.  Pending marks are a function *)
(* from arrival numbers; the order in which rtw_playout.c walks its dense  *)
(* array of marks is the order of the arrival numbers.                     *)
(***************************************************************************)
EXTENDS Naturals, FiniteSets

\* No pending mark.
NoMarks == [k \in {} |-> 0]

\* The pending marks f after the marks of S were taken out.
Without(f, S) == [k \in DOMAIN f \ S |-> f[k]]

\* The first n elements of S, all of S when there are no more.
First(n, S) == {k \in S : Cardinality({j \in S : j <= k}) <= n}

\* The i-th element of S.
Nth(S, i) == CHOOSE k \in S : Cardinality({j \in S : j <= k}) = i
=============================================================================
