------------------------------ MODULE Coremap ------------------------------
(***************************************************************************)
(* The coremap: one entry per physical frame, and the two searches the     *)
(* kernel makes in it (kern/vm/coremap.c, kern/arch/mips/vm/vm.c).         *)
(*                                                                         *)
(* The searches are loops in C.  Here each is the relation between its     *)
(* input and its result; VictimScan runs the loop of the harder one step   *)
(* by step and compares it with this relation.                             *)
(***************************************************************************)
EXTENDS Integers

CONSTANTS
  nRamFrames,      \* number of physical frames
  firstFreeFrame   \* first frame that is not kernel image or coremap

ASSUME CoremapAssumption ==
  /\ nRamFrames \in Nat
  /\ firstFreeFrame \in Nat
  /\ 0 < firstFreeFrame
  /\ firstFreeFrame < nRamFrames

Frames == 0 .. (nRamFrames - 1)

\* The frames coremap_init leaves to the allocators.
Managed == firstFreeFrame .. (nRamFrames - 1)

\* FREE stands for FREE and CLEAN: every test in the code accepts both.
Status == {"FREE", "DIRTY", "FIXED"}

---------------------------------------------------------------------------
(* getppages' and getuserppage's search for free frames.                   *)

\* Mutant: a frame that is not FIXED is taken for a free one.
UnfixedRun(st, i, n) ==
  /\ i \in Managed
  /\ i + n - 1 \in Managed
  /\ \A j \in i .. (i + n - 1) : st[j] # "FIXED"

FreeRun(st, i, n) ==
  /\ i \in Managed
  /\ i + n - 1 \in Managed
  /\ \A j \in i .. (i + n - 1) : st[j] = "FREE"

FirstFreeRun(st, i, n) ==
  /\ FreeRun(st, i, n)
  /\ \A k \in Managed : FreeRun(st, k, n) => i <= k

NoFreeRun(st, n) == \A k \in Managed : ~FreeRun(st, k, n)

---------------------------------------------------------------------------
(* coremap_victim_selection(n): first-fit from next_victim, wrapping once. *)

ScanStart(next) ==
  IF next = 0 \/ next >= nRamFrames THEN firstFreeFrame ELSE next

\* Mutant: the scan does not skip FIXED frames.
AnyRunEndsAt(st, from, carry, n, e) == e - from + 1 >= n

\* A pass that starts at frame `from' with `carry' frames already counted has
\* counted n frames in a row when it has looked at frame e.
RunEndsAt(st, from, carry, n, e) ==
  \/ /\ e - from + 1 >= n
     /\ \A j \in (e - n + 1) .. e : st[j] # "FIXED"
  \/ /\ carry > 0
     /\ carry + e - from + 1 = n
     /\ \A j \in from .. e : st[j] # "FIXED"

FirstRunEnd(st, from, carry, n, e) ==
  /\ e \in from .. (nRamFrames - 1)
  /\ RunEndsAt(st, from, carry, n, e)
  /\ \A d \in from .. (e - 1) : ~RunEndsAt(st, from, carry, n, d)

\* victimsfound is not reset when the scan wraps: the c evictable frames at the
\* end of memory count towards the run that begins at firstFreeFrame.
Carry(st, start, c) ==
  /\ c \in 0 .. (nRamFrames - 1 - start)
  /\ st[nRamFrames - 1 - c] = "FIXED"
  /\ \A j \in (nRamFrames - c) .. (nRamFrames - 1) : st[j] # "FIXED"

\* The first pass completes a run at frame e.
FoundBeforeWrap(st, next, n, e) == FirstRunEnd(st, ScanStart(next), 0, n, e)

NothingBeforeWrap(st, next, n) ==
  \A e \in Frames : ~FoundBeforeWrap(st, next, n, e)

\* The second pass completes one at frame e.  A run that ends in the very last
\* frame is found and then refused: the wrap check panics before the loop
\* condition is looked at.
FoundAfterWrap(st, next, n, e) ==
  /\ NothingBeforeWrap(st, next, n)
  /\ e < nRamFrames - 1
  /\ \E c \in Frames : /\ Carry(st, ScanStart(next), c)
                       /\ FirstRunEnd(st, firstFreeFrame, c, n, e)

\* The scan selects the n frames that end at frame e, e - n + 1 first.
VictimEnd(st, next, n, e) ==
  FoundBeforeWrap(st, next, n, e) \/ FoundAfterWrap(st, next, n, e)

\* The scan panics or fails its assertion.
NoVictim(st, next, n) == \A e \in Frames : ~VictimEnd(st, next, n, e)

\* The assertion KASSERT(victimsfound == nvictims) fails: the first pass met no
\* FIXED frame but ran out of frames, and the loop ended with found = 1.
ScanAsserts(st, next, n) ==
  /\ NothingBeforeWrap(st, next, n)
  /\ \A j \in ScanStart(next) .. (nRamFrames - 1) : st[j] # "FIXED"
=============================================================================
