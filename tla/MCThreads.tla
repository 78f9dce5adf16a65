----------------------------- MODULE MCThreads -----------------------------
(***************************************************************************)
(* A small instance of Threads: the threads are interchangeable.           *)
(***************************************************************************)
EXTENDS Threads, TLC

ThreadSymmetry == Permutations(Thread)
=============================================================================
