------------------------------ MODULE Sublists ------------------------------
(* Entries of a list chosen by their places: what a filtering loop leaves. *)
(* SelectSeq says the same recursively, out of the proofs' reach.          *)
EXTENDS Integers, Sequences, FiniteSets

\* How many of the places P are no later than i.
Rank(P, i) == Cardinality({j \in P : j <= i})

\* The entries of s at the places P, in their order.
Sublist(s, P) == [n \in 1..Cardinality(P) |-> s[CHOOSE i \in P : Rank(P, i) = n]]
=============================================================================
