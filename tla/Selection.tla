----------------------------- MODULE Selection ------------------------------
(***************************************************************************)
(* The elements of a sequence at some of its places, in their order: what  *)
(* a SELECT ... WHERE ... ORDER BY id returns of a table kept as a         *)
(* sequence.  Written without recursion, so that it can be proved about.   *)
(***************************************************************************)
EXTENDS Naturals, Sequences, FiniteSets

Rank(I, i) == Cardinality({j \in I : j <= i})
Selected(s, I) == [n \in 1..Cardinality(I) |-> s[CHOOSE i \in I : Rank(I, i) = n]]
=============================================================================
