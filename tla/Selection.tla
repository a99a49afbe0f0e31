------------------------------ MODULE Selection ------------------------------
(***************************************************************************)
(* The elements of a sequence at given places, in order.  It is SelectSeq  *)
(* with the set of places instead of a test, defined without recursion.    *)
(***************************************************************************)
EXTENDS Naturals, Sequences, FiniteSets

\* The j-th of the numbers in K.
Nth(K, j) == CHOOSE i \in K : Cardinality({k \in K : k <= i}) = j

Select(q, K) == [j \in 1 .. Cardinality(K) |-> q[Nth(K, j)]]
=============================================================================
