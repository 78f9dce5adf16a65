-------------------------------- MODULE MCSfs --------------------------------
(* SFS on a small disk.                                                    *)
EXTENDS Sfs

MCBlock == 1 .. 4
Symmetry == Permutations(Thread) \cup Permutations(Name)
=============================================================================
