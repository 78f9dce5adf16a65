------------------------------- MODULE MCHeap -------------------------------
(* Heap with two sizes of block, and requests for each and for a whole page.       *)
EXTENDS Heap, TLC

MCsizes == <<6, 8>>
MCFrame == 0 .. 4
Symmetry == Permutations(Thread)
=============================================================================
