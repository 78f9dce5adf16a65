------------------------------- MODULE MCDisk -------------------------------
(***************************************************************************)
(* A small instance of Disk: a request of two passes that runs over the    *)
(* end of the disk, its end being 0 modulo WORD, and one whose sector is   *)
(* cut to a word.                                                          *)
(***************************************************************************)
EXTENDS Disk

MCRequest ==
  {[rw |-> "UIO_READ", sector |-> 2, len |-> 2],
   [rw |-> "UIO_WRITE", sector |-> WORD, len |-> 1]}
=============================================================================
