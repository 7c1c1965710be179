------------------------------- MODULE Ranking -------------------------------
(* The elements of a set of numbers by their rank.                           *)
EXTENDS Integers, FiniteSets

\* The k-th least of a set of numbers.
Ranked(S, k) == CHOOSE m \in S : Cardinality({x \in S : x <= m}) = k
=============================================================================
