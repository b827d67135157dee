----------------------------- MODULE Subsequences -----------------------------
(***************************************************************************)
(* Array filters without recursion, so that facts about them can be proved. *)
(***************************************************************************)
EXTENDS Naturals, Sequences, FiniteSets

UpTo(P, i) == {j \in P : j <= i}

(* The nth of a set of positions. *)
Nth(P, n) == CHOOSE i \in P : Cardinality(UpTo(P, i)) = n

(* What a sequence holds at a set of positions, in its order. *)
Picked(s, P) == [n \in 1..Cardinality(P) |-> s[Nth(P, n)]]
=============================================================================
