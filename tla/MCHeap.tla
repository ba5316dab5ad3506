------------------------------- MODULE MCHeap -------------------------------
(* Small instances of Heap: the real header, slack and initial block, three *)
(* clients, a heap of a few segments.                                       *)
EXTENDS Heap, TLC

Symmetry == Permutations(Clients)
=============================================================================
