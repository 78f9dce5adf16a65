---------------------------- MODULE VirtualMemory ----------------------------
(***************************************************************************)
(* What demand paging promises a program: a memory of pages, each absent   *)
(* until it is first touched, that only the program's own stores change.   *)
(* No frames, no swap file, no TLB.                                        *)
(***************************************************************************)
CONSTANTS
  Pages,    \* the valid pages of the program
  NoPage,   \* no access is in progress
  Values,   \* what a page can contain
  Absent    \* the page has not been touched yet

VARIABLES
  memory,   \* what a load of each page would return
  access    \* the page the program is loading from or storing to

vars == <<memory, access>>

Init ==
  /\ memory = [p \in Pages |-> Absent]
  /\ access = NoPage

Begin(p) ==
  /\ access = NoPage
  /\ access' = p
  /\ UNCHANGED memory

\* The first touch gives the page some contents.
Materialize(v) ==
  /\ access \in Pages
  /\ memory[access] = Absent
  /\ memory' = [memory EXCEPT ![access] = v]
  /\ UNCHANGED access

Load ==
  /\ access \in Pages
  /\ memory[access] # Absent
  /\ access' = NoPage
  /\ UNCHANGED memory

Store(v) ==
  /\ access \in Pages
  /\ memory[access] # Absent
  /\ memory' = [memory EXCEPT ![access] = v]
  /\ access' = NoPage

\* The program exits; the next one starts with nothing.
Discard ==
  /\ access = NoPage
  /\ memory' = [p \in Pages |-> Absent]
  /\ UNCHANGED access

Next ==
  \/ \E p \in Pages : Begin(p)
  \/ \E v \in Values : Materialize(v) \/ Store(v)
  \/ Load
  \/ Discard

Spec == Init /\ [][Next]_vars
=============================================================================
