------------------------------- MODULE Sublists -------------------------------
(***************************************************************************)
(* A part of a sequence: its elements at some of its places, in order      *)
(* (SelectSeq without recursion, for modules with proofs), and the order   *)
(* of the elements of a sequence.                                          *)
(***************************************************************************)
EXTENDS Integers, Sequences, FiniteSets

\* The n-th of the places P
Nth(P, n) == CHOOSE i \in P : Cardinality({ j \in P : j <= i }) = n

Sublist(s, P) == [ n \in 1 .. Cardinality(P) |-> s[Nth(P, n)] ]

Precedes(s, e, f) == \E i, j \in DOMAIN s : i < j /\ s[i] = e /\ s[j] = f
===============================================================================
