----------------------------- MODULE Subsequences -----------------------------
(***************************************************************************)
(* The part of a sequence at a set of its indexes, in order, as the list   *)
(* comprehensions of the code build it ([x for x in s if ...]).            *)
(***************************************************************************)
EXTENDS Naturals, Sequences, FiniteSets

\* The index that comes k-th in a set of numbers.
Kth(k, I) == CHOOSE i \in I : Cardinality({j \in I : j <= i}) = k

Picked(s, I) == [k \in 1 .. Cardinality(I) |-> s[Kth(k, I)]]
==============================================================================
