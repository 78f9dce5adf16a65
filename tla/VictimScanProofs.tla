-------------------------- MODULE VictimScanProofs --------------------------
(***************************************************************************)
(* coremap_victim_selection computes what module Coremap says of it, for   *)
(* every coremap and every request.                                        *)
(*                                                                         *)
(* The inductive invariant says what the loop knows in the middle of a     *)
(* pass: the length of the run of evictable frames it has just looked at,  *)
(* and that no run was complete before.  A second pass starts with the     *)
(* frames counted at the end of the first.                                 *)
(***************************************************************************)
EXTENDS VictimScan, TLAPS

\* The provers that a step is given to, one after the other, and their time in seconds.
USE SMTT(30), Z3T(30), ZenonT(20)

Start == ScanStart(entry)

AllEvictable(s, a, b) == \A j \in a .. b : s[j] # "FIXED"

\* A pass over coremap s from frame `from', c frames having been counted before
\* it, has come to frame k with vf of the n victims found.
PassAt(s, from, c, n, k, vf) ==
  /\ from <= k
  /\ vf = n => from < k /\ RunEndsAt(s, from, c, n, k - 1)
  /\ \A e \in from .. (k - 1) :
       RunEndsAt(s, from, c, n, e) => e = k - 1 /\ vf = n
  /\ \/ vf = c + (k - from) /\ AllEvictable(s, from, k - 1)
     \/ /\ vf < k - from
        /\ s[k - vf - 1] = "FIXED"
        /\ AllEvictable(s, k - vf, k - 1)

Pass(from, c) == PassAt(st, from, c, nvictims, i, victimsfound)

\* The first pass found nothing.
NoRunIn(s, start, n) ==
  \A e \in start .. (nRamFrames - 1) : ~RunEndsAt(s, start, 0, n, e)

NoRun == NoRunIn(st, Start, nvictims)

Opening ==
  /\ victimsfound < nvictims
  /\ \/ iteration = 0 /\ i = Start /\ victimsfound = 0
     \/ iteration = 1 /\ i = firstFreeFrame /\ NoRun /\ Carry(st, Start, victimsfound)

Scanning ==
  \/ iteration = 0 /\ Pass(Start, 0)
  \/ /\ iteration = 1
     /\ NoRun
     /\ \E c \in 0 .. (nvictims - 1) : Carry(st, Start, c) /\ Pass(firstFreeFrame, c)

\* What found stands for at the end of the first pass.
FoundInFirstPass == iteration = 0 => (found = 1 <=> AllEvictable(st, Start, i - 1))

ScanInv ==
  /\ TypeOK
  /\ entry = 0 \/ entry > firstFreeFrame
  /\ pc \in {"while", "for", "wrap"} => iteration <= 1
  /\ pc = "while" /\ found = 0 => Opening
  /\ pc = "while" /\ found = 1 =>
       \/ /\ victimsfound = nvictims
          /\ VictimEnd(st, entry, nvictims, victim + nvictims - 1)
       \/ /\ victimsfound < nvictims
          /\ ScanAsserts(st, entry, nvictims)
          /\ nvictims # 1
  /\ pc \in {"for", "wrap"} => Scanning
  /\ pc = "for" => FoundInFirstPass
  /\ pc = "wrap" => \/ victimsfound = nvictims /\ found = 1 /\ victim = i - nvictims
                    \/ victimsfound < nvictims /\ i = nRamFrames /\ FoundInFirstPass
  /\ ScanMatchesRelation
  /\ OneVictimIsEvictable

---------------------------------------------------------------------------
(* Facts about coremaps, whatever the state of the loop.                   *)

\* A frame that is FIXED ends the run: nothing is complete at frame k.
LEMMA PassFixed ==
  ASSUME NEW s, NEW from \in Managed, NEW c \in Nat, NEW n \in Nat \ {0},
         NEW k \in Managed, NEW vf \in Nat, vf < n,
         PassAt(s, from, c, n, k, vf), s[k] = "FIXED"
  PROVE  PassAt(s, from, c, n, k + 1, 0)
<1>1. ~RunEndsAt(s, from, c, n, k)
  BY CoremapAssumption DEF PassAt, RunEndsAt, Managed
<1>2. \A e \in from .. k : ~RunEndsAt(s, from, c, n, e)
  <2>1. \A e \in from .. (k - 1) : ~RunEndsAt(s, from, c, n, e)
    BY CoremapAssumption DEF PassAt, Managed
  <2>2. QED  BY <1>1, <2>1, CoremapAssumption DEF Managed
<1>3. QED
  BY <1>2, CoremapAssumption DEF PassAt, AllEvictable, Managed

\* A frame that is not FIXED extends the run by one.
LEMMA PassEvictable ==
  ASSUME NEW s, NEW from \in Managed, NEW c \in Nat, NEW n \in Nat \ {0},
         NEW k \in Managed, NEW vf \in Nat, vf < n,
         PassAt(s, from, c, n, k, vf), s[k] # "FIXED"
  PROVE  PassAt(s, from, c, n, k + 1, vf + 1)
<1> USE CoremapAssumption DEF Managed
<1>1. \A e \in from .. (k - 1) : ~RunEndsAt(s, from, c, n, e)
  BY DEF PassAt
<1>2. \/ vf + 1 = c + (k + 1 - from) /\ AllEvictable(s, from, k)
      \/ /\ vf + 1 < k + 1 - from
         /\ s[(k + 1) - (vf + 1) - 1] = "FIXED"
         /\ AllEvictable(s, (k + 1) - (vf + 1), k)
  BY DEF PassAt, AllEvictable
<1>3. vf + 1 = n => RunEndsAt(s, from, c, n, k)
  BY <1>2 DEF RunEndsAt, AllEvictable
<1>4. RunEndsAt(s, from, c, n, k) => vf + 1 = n
  <2>1. CASE vf + 1 = c + (k + 1 - from) /\ AllEvictable(s, from, k)
    BY <2>1 DEF RunEndsAt
  <2>2. CASE /\ vf + 1 < k + 1 - from
             /\ s[(k + 1) - (vf + 1) - 1] = "FIXED"
             /\ AllEvictable(s, (k + 1) - (vf + 1), k)
    BY <2>2 DEF RunEndsAt
  <2>3. QED  BY <1>2, <2>1, <2>2
<1>5. from <= k  BY DEF PassAt
<1>6. (k + 1) - 1 = k  OBVIOUS
<1>7. \A e \in from .. k : RunEndsAt(s, from, c, n, e) => e = k /\ vf + 1 = n
  BY <1>1, <1>4
<1>8. QED
  BY <1>2, <1>3, <1>5, <1>6, <1>7 DEF PassAt

\* The frames counted at the end of the first pass are determined by the coremap.
LEMMA CarryIsUnique ==
  ASSUME NEW s, NEW start \in Managed, NEW c, NEW d,
         Carry(s, start, c), Carry(s, start, d)
  PROVE  c = d
  BY CoremapAssumption DEF Carry, Managed

\* A run that the first pass completes is the result.
LEMMA FirstPassFinds ==
  ASSUME NEW n \in Nat \ {0}, NEW k \in firstFreeFrame .. nRamFrames,
         Start \in Managed, PassAt(st, Start, 0, n, k, n)
  PROVE  VictimEnd(st, entry, n, k - 1)
<1> USE CoremapAssumption DEF Managed
<1>1. Start < k /\ RunEndsAt(st, Start, 0, n, k - 1)
  BY DEF PassAt
<1>2. \A d \in Start .. (k - 1 - 1) : ~RunEndsAt(st, Start, 0, n, d)
  BY DEF PassAt
<1>3. FirstRunEnd(st, Start, 0, n, k - 1)
  BY <1>1, <1>2 DEF FirstRunEnd
<1>4. QED
  BY <1>3 DEF VictimEnd, FoundBeforeWrap, Start

\* No run at all means no first one.
LEMMA NoRunNothingFound ==
  ASSUME NEW n, NoRunIn(st, Start, n)
  PROVE  NothingBeforeWrap(st, entry, n)
  BY DEF NoRunIn, NothingBeforeWrap, FoundBeforeWrap, FirstRunEnd, Start

\* A run that the second pass completes before the last frame is the result.
LEMMA SecondPassFinds ==
  ASSUME NEW n \in Nat \ {0}, NEW k \in firstFreeFrame .. (nRamFrames - 1),
         NEW c \in Nat, Start \in Managed, NoRunIn(st, Start, n),
         Carry(st, Start, c), PassAt(st, firstFreeFrame, c, n, k, n)
  PROVE  VictimEnd(st, entry, n, k - 1)
<1> USE CoremapAssumption DEF Managed
<1>1. firstFreeFrame < k /\ RunEndsAt(st, firstFreeFrame, c, n, k - 1)
  BY DEF PassAt
<1>2. \A d \in firstFreeFrame .. (k - 1 - 1) :
        ~RunEndsAt(st, firstFreeFrame, c, n, d)
  BY DEF PassAt
<1>3. FirstRunEnd(st, firstFreeFrame, c, n, k - 1)
  BY <1>1, <1>2 DEF FirstRunEnd
<1>4. c \in Frames
  BY DEF Carry, Frames
<1>5. QED
  BY <1>3, <1>4, NoRunNothingFound DEF VictimEnd, FoundAfterWrap, Start

\* A second pass that comes to the end of memory has no result: a run that ends
\* in the last frame is refused.
LEMMA SecondPassFails ==
  ASSUME NEW n \in Nat \ {0}, NEW vf \in 0 .. n, NEW c \in Nat, Start \in Managed,
         NoRunIn(st, Start, n), Carry(st, Start, c),
         PassAt(st, firstFreeFrame, c, n, nRamFrames, vf)
  PROVE  /\ NoVictim(st, entry, n)
         /\ ~ScanAsserts(st, entry, n)
         /\ n = 1 => \A f \in Managed : st[f] = "FIXED"
<1> USE CoremapAssumption DEF Managed
<1>1. \A e \in Frames : ~FoundBeforeWrap(st, entry, n, e)
  BY NoRunNothingFound DEF NothingBeforeWrap
<1>2. \A e \in firstFreeFrame .. (nRamFrames - 2) :
        ~RunEndsAt(st, firstFreeFrame, c, n, e)
  BY DEF PassAt
<1>3. ASSUME NEW e \in Frames, FoundAfterWrap(st, entry, n, e)
      PROVE  FALSE
  <2>1. PICK d \in Frames : /\ Carry(st, Start, d)
                            /\ FirstRunEnd(st, firstFreeFrame, d, n, e)
    BY <1>3 DEF FoundAfterWrap, Start
  <2>2. c = d
    BY <2>1, CarryIsUnique
  <2>3. e \in firstFreeFrame .. (nRamFrames - 2)
    BY <1>3, <2>1 DEF FoundAfterWrap, FirstRunEnd, Frames
  <2>4. QED
    BY <1>2, <2>1, <2>2, <2>3 DEF FirstRunEnd
<1>4. ~ScanAsserts(st, entry, n)
  BY DEF ScanAsserts, Carry, Start
<1>5. ASSUME n = 1, NEW f \in Managed
      PROVE  st[f] = "FIXED"
  <2>1. CASE f = nRamFrames - 1
    BY <1>5, <2>1 DEF NoRunIn, RunEndsAt
  <2>2. CASE f < nRamFrames - 1
    BY <1>2, <1>5, <2>2 DEF RunEndsAt
  <2>3. QED  BY <2>1, <2>2
<1>6. QED
  BY <1>1, <1>3, <1>4, <1>5 DEF NoVictim, VictimEnd

---------------------------------------------------------------------------
(* The loop.                                                               *)

\* The scan starts in a frame that the allocators manage.
LEMMA StartIsManaged ==
  ScanInv => Start \in Managed
  BY CoremapAssumption DEF ScanInv, TypeOK, Start, ScanStart, Managed

\* The scan begins with nothing found.
LEMMA InitScanInv ==
  Init => ScanInv
<1> SUFFICES ASSUME Init PROVE ScanInv
  OBVIOUS
<1> USE CoremapAssumption, MaxVictimsAssumption
<1>1. Start \in Managed
  BY DEF Init, Start, ScanStart, Managed
<1>2. TypeOK
  BY <1>1 DEF Init, TypeOK, Start, Managed
<1>3. Opening
  BY DEF Init, Opening, Start
<1>4. QED
  BY <1>2, <1>3 DEF Init, ScanInv, ScanMatchesRelation, OneVictimIsEvictable

\* The while loop is entered: a pass begins.
LEMMA AgainScanInv ==
  ScanInv /\ Again => ScanInv'
<1> SUFFICES ASSUME ScanInv, Again PROVE ScanInv'
  OBVIOUS
<1> USE CoremapAssumption
<1>1. Start \in Managed /\ Start' = Start
  BY StartIsManaged DEF Again, args, Start
<1>2. TypeOK'
  BY DEF ScanInv, TypeOK, Again, args
<1>3. Opening
  BY DEF ScanInv, Again
<1>4. CASE iteration = 0 /\ i = Start /\ victimsfound = 0
  <2>1. PassAt(st, Start, 0, nvictims, Start, 0)
    BY <1>1, <1>3, <1>4 DEF PassAt, AllEvictable, Opening, Managed
  <2>2. Scanning'
    BY <1>1, <1>4, <2>1 DEF Scanning, Pass, Again, args
  <2>3. FoundInFirstPass'
    BY <1>1, <1>4 DEF FoundInFirstPass, AllEvictable, Again, args, Managed
  <2>4. QED
    BY <1>2, <2>2, <2>3
    DEF ScanInv, Again, args, ScanMatchesRelation, OneVictimIsEvictable
<1>5. CASE iteration = 1 /\ i = firstFreeFrame /\ NoRun /\ Carry(st, Start, victimsfound)
  <2>1. PassAt(st, firstFreeFrame, victimsfound, nvictims, firstFreeFrame, victimsfound)
    BY <1>3 DEF PassAt, AllEvictable, Opening, ScanInv, TypeOK
  <2>2. victimsfound \in 0 .. (nvictims - 1)
    BY <1>3 DEF Opening, ScanInv, TypeOK
  <2>3. Scanning'
    BY <1>1, <1>5, <2>1, <2>2 DEF Scanning, Pass, NoRun, Again, args
  <2>4. FoundInFirstPass'
    BY <1>5 DEF FoundInFirstPass, Again
  <2>5. QED
    BY <1>2, <2>3, <2>4
    DEF ScanInv, Again, args, ScanMatchesRelation, OneVictimIsEvictable
<1>6. QED
  BY <1>3, <1>4, <1>5 DEF Opening

\* One frame is looked at.
LEMMA LookAtFrameScanInv ==
  ScanInv /\ LookAtFrame => ScanInv'
<1> SUFFICES ASSUME ScanInv, LookAtFrame PROVE ScanInv'
  OBVIOUS
<1> USE CoremapAssumption
<1>1. Start \in Managed /\ Start' = Start /\ firstFreeFrame \in Managed
  BY StartIsManaged DEF LookAtFrame, args, Start, Managed
<1>2. TypeOK'
  BY DEF ScanInv, TypeOK, LookAtFrame, MoreToFind, CountFrame, args
<1>3. /\ i \in Managed
      /\ victimsfound \in Nat
      /\ nvictims \in Nat \ {0}
      /\ victimsfound < nvictims
  BY DEF ScanInv, TypeOK, LookAtFrame, MoreToFind, Managed
<1>4. ASSUME NEW from \in Managed, NEW c \in Nat, Pass(from, c)
      PROVE  PassAt(st, from, c, nvictims, i + 1, victimsfound')
  <2>1. CASE st[i] = "FIXED"
    BY <1>3, <1>4, <2>1, PassFixed DEF Pass, LookAtFrame, CountFrame
  <2>2. CASE st[i] # "FIXED"
    BY <1>3, <1>4, <2>2, PassEvictable DEF Pass, LookAtFrame, CountFrame
  <2>3. QED  BY <2>1, <2>2
<1>5. Scanning
  BY DEF ScanInv, LookAtFrame
<1>6. Scanning'
  <2>1. CASE iteration = 0 /\ Pass(Start, 0)
    BY <1>1, <1>4, <2>1 DEF Scanning, Pass, LookAtFrame, args
  <2>2. CASE /\ iteration = 1
             /\ NoRun
             /\ \E c \in 0 .. (nvictims - 1) :
                  Carry(st, Start, c) /\ Pass(firstFreeFrame, c)
    <3>1. PICK c \in 0 .. (nvictims - 1) :
            Carry(st, Start, c) /\ Pass(firstFreeFrame, c)
      BY <2>2
    <3>2. PassAt(st, firstFreeFrame, c, nvictims, i + 1, victimsfound')
      BY <1>1, <1>4, <3>1
    <3>3. QED
      BY <1>1, <2>2, <3>1, <3>2 DEF Scanning, Pass, NoRun, LookAtFrame, args
  <2>3. QED  BY <1>5, <2>1, <2>2 DEF Scanning
<1>7. FoundInFirstPass'
  <2> SUFFICES ASSUME iteration = 0
               PROVE  found' = 1 <=> AllEvictable(st, Start, i)
    BY <1>1, <1>3 DEF FoundInFirstPass, LookAtFrame, args, Managed
  <2>1. Start <= i
    BY <1>5 DEF Scanning, Pass, PassAt
  <2>2. found = 1 <=> AllEvictable(st, Start, i - 1)
    BY DEF ScanInv, LookAtFrame, FoundInFirstPass
  <2>3. QED
    BY <1>1, <1>3, <2>1, <2>2 DEF AllEvictable, LookAtFrame, CountFrame, Managed
<1>8. QED
  BY <1>2, <1>6, <1>7
  DEF ScanInv, LookAtFrame, args, ScanMatchesRelation, OneVictimIsEvictable

\* The pass is over: all victims were found, or memory ended.
LEMMA LeaveForScanInv ==
  ScanInv /\ LeaveFor => ScanInv'
<1> SUFFICES ASSUME ScanInv, LeaveFor PROVE ScanInv'
  OBVIOUS
<1> USE CoremapAssumption
<1>1. Start' = Start
  BY DEF LeaveFor, args, Start
<1>2. TypeOK'
  BY DEF ScanInv, TypeOK, LeaveFor, FirstOfRun, args
<1>3. Scanning'
  BY <1>1 DEF ScanInv, Scanning, Pass, NoRun, LeaveFor, args
<1>4. \/ (victimsfound = nvictims /\ found = 1 /\ victim = i - nvictims)'
      \/ (victimsfound < nvictims /\ i = nRamFrames /\ FoundInFirstPass)'
  <2>1. CASE victimsfound = nvictims
    BY <2>1 DEF LeaveFor, FirstOfRun, args
  <2>2. CASE victimsfound # nvictims
    <3>1. (victimsfound < nvictims /\ i = nRamFrames)'
      BY <2>2 DEF LeaveFor, MoreToFind, ScanInv, TypeOK, args
    <3>2. FoundInFirstPass'
      BY <1>1, <2>2 DEF ScanInv, FoundInFirstPass, LeaveFor, args
    <3>3. QED  BY <3>1, <3>2
  <2>3. QED  BY <2>1, <2>2
<1>5. QED
  BY <1>2, <1>3, <1>4
  DEF ScanInv, LeaveFor, args, ScanMatchesRelation, OneVictimIsEvictable

\* Memory ended: the next pass begins at firstFreeFrame, or the call panics.
LEMMA WrapScanInv ==
  ScanInv /\ Wrap => ScanInv'
<1> SUFFICES ASSUME ScanInv, Wrap PROVE ScanInv'
  OBVIOUS
<1> USE CoremapAssumption
<1>1. Start \in Managed /\ Start' = Start
  BY StartIsManaged DEF Wrap, args, Start
<1>2. /\ nvictims \in Nat \ {0}
      /\ victimsfound \in 0 .. nvictims
      /\ i = nRamFrames
      /\ iteration \in {0, 1}
  BY DEF ScanInv, TypeOK, Wrap
<1>3. TypeOK'
  BY <1>2 DEF ScanInv, TypeOK, Wrap, NextIteration, args
<1>4. Scanning
  BY DEF ScanInv, Wrap
<1>5. CASE iteration = 0
  <2>1. PassAt(st, Start, 0, nvictims, nRamFrames, victimsfound)
    BY <1>2, <1>4, <1>5 DEF Scanning, Pass
  <2>2. CASE victimsfound = nvictims
    <3>1. VictimEnd(st, entry, nvictims, nRamFrames - 1)
      BY <1>1, <1>2, <2>1, <2>2, FirstPassFinds
    <3>2. found = 1 /\ victim + nvictims - 1 = nRamFrames - 1
      BY <1>2, <2>2 DEF ScanInv, Wrap
    <3>3. QED
      BY <1>3, <1>5, <2>2, <3>1, <3>2
      DEF ScanInv, Wrap, NextIteration, args, ScanMatchesRelation, OneVictimIsEvictable
  <2>3. CASE victimsfound < nvictims
    <3>1. NoRunIn(st, Start, nvictims)
      BY <1>1, <1>2, <2>1, <2>3 DEF PassAt, NoRunIn
    <3>2. found = 1 <=> AllEvictable(st, Start, nRamFrames - 1)
      BY <1>2, <1>5, <2>3 DEF ScanInv, Wrap, FoundInFirstPass
    <3>3. found = 0 => Carry(st, Start, victimsfound)
      BY <1>1, <1>2, <2>1, <3>2 DEF PassAt, Carry, AllEvictable, Managed
    <3>4. found = 0 => Opening'
      BY <1>1, <1>5, <2>3, <3>1, <3>3 DEF Opening, NoRun, Wrap, NextIteration, args
    <3>5. found = 1 => ScanAsserts(st, entry, nvictims)
      BY <3>1, <3>2, NoRunNothingFound DEF ScanAsserts, AllEvictable, Start
    <3>6. found = 1 => nvictims # 1
      BY <1>1, <3>1, <3>2 DEF NoRunIn, RunEndsAt, AllEvictable, Managed
    <3>7. QED
      BY <1>3, <1>5, <2>3, <3>4, <3>5, <3>6
      DEF ScanInv, Wrap, NextIteration, args, ScanMatchesRelation, OneVictimIsEvictable
  <2>4. QED  BY <1>2, <2>2, <2>3
<1>6. CASE iteration = 1
  <2>1. PICK c \in 0 .. (nvictims - 1) :
          Carry(st, Start, c) /\ Pass(firstFreeFrame, c)
    BY <1>4, <1>6 DEF Scanning
  <2>2. NoRunIn(st, Start, nvictims)
    BY <1>4, <1>6 DEF Scanning, NoRun
  <2>3. PassAt(st, firstFreeFrame, c, nvictims, nRamFrames, victimsfound)
    BY <1>2, <2>1 DEF Pass
  <2>4. /\ NoVictim(st, entry, nvictims)
        /\ ~ScanAsserts(st, entry, nvictims)
        /\ nvictims = 1 => \A f \in Managed : st[f] = "FIXED"
    BY <1>1, <1>2, <2>1, <2>2, <2>3, SecondPassFails
  <2>5. pc' = "panic"
    BY <1>6 DEF Wrap, NextIteration
  <2>6. QED
    BY <1>3, <2>4, <2>5
    DEF ScanInv, Wrap, args, ScanMatchesRelation, OneVictimIsEvictable
<1>7. QED  BY <1>2, <1>5, <1>6

\* The run was found before memory ended.
LEMMA NoWrapScanInv ==
  ScanInv /\ NoWrap => ScanInv'
<1> SUFFICES ASSUME ScanInv, NoWrap PROVE ScanInv'
  OBVIOUS
<1> USE CoremapAssumption
<1>1. Start \in Managed
  BY StartIsManaged
<1>2. /\ nvictims \in Nat \ {0}
      /\ i \in firstFreeFrame .. (nRamFrames - 1)
      /\ victimsfound = nvictims
      /\ found = 1
      /\ victim + nvictims - 1 = i - 1
  BY DEF ScanInv, TypeOK, NoWrap
<1>3. TypeOK'
  BY DEF ScanInv, TypeOK, NoWrap, args
<1>4. Scanning
  BY DEF ScanInv, NoWrap
<1>5. VictimEnd(st, entry, nvictims, i - 1)
  <2>1. CASE Pass(Start, 0)
    BY <1>1, <1>2, <2>1, FirstPassFinds DEF Pass
  <2>2. CASE NoRun /\ \E c \in 0 .. (nvictims - 1) :
                        Carry(st, Start, c) /\ Pass(firstFreeFrame, c)
    BY <1>1, <1>2, <2>2, SecondPassFinds DEF Pass, NoRun
  <2>3. QED  BY <1>4, <2>1, <2>2 DEF Scanning
<1>6. QED
  BY <1>2, <1>3, <1>5
  DEF ScanInv, NoWrap, args, ScanMatchesRelation, OneVictimIsEvictable

\* The loop is left: the assertion is evaluated and the victim returned.
LEMMA ReturnScanInv ==
  ScanInv /\ Return => ScanInv'
<1> SUFFICES ASSUME ScanInv, Return PROVE ScanInv'
  OBVIOUS
<1> USE CoremapAssumption
<1>1. Start \in Managed
  BY StartIsManaged
<1>2. TypeOK'
  BY DEF ScanInv, TypeOK, Return, args
<1>3. CASE victimsfound = nvictims
  <2>1. VictimEnd(st, entry, nvictims, victim + nvictims - 1)
    BY <1>3 DEF ScanInv, TypeOK, Return
  <2>2. nvictims = 1 => victim \in Managed /\ st[victim] # "FIXED"
    BY <1>1, <2>1
    DEF VictimEnd, FoundBeforeWrap, FoundAfterWrap, FirstRunEnd, RunEndsAt, Carry,
        ScanInv, TypeOK, Start, Managed, Frames
  <2>3. QED
    BY <1>2, <1>3, <2>1, <2>2
    DEF ScanInv, Return, args, ScanMatchesRelation, OneVictimIsEvictable
<1>4. CASE victimsfound # nvictims
  BY <1>2, <1>4
  DEF ScanInv, Return, args, ScanMatchesRelation, OneVictimIsEvictable
<1>5. QED  BY <1>3, <1>4

\* ScanInv is an invariant of the call.
LEMMA ScanInvariant ==
  Spec => []ScanInv
<1>1. ScanInv /\ [Next]_vars => ScanInv'
  <2> SUFFICES ASSUME ScanInv, [Next]_vars PROVE ScanInv'
    OBVIOUS
  <2>1. CASE UNCHANGED vars
    BY <2>1
    DEF vars, ScanInv, TypeOK, Opening, Scanning, Pass, NoRun, Start, FoundInFirstPass,
        ScanMatchesRelation, OneVictimIsEvictable
  <2>2. QED
    BY <2>1, AgainScanInv, LookAtFrameScanInv, LeaveForScanInv, WrapScanInv,
       NoWrapScanInv, ReturnScanInv DEF Next
<1>2. QED
  BY <1>1, InitScanInv, PTL DEF Spec

\* Every variable of coremap_victim_selection keeps its range: the loop indexes
\* the coremap only with frames that exist, and wraps at most twice.
THEOREM ScanTypeCorrect ==
  Spec => []TypeOK
<1>1. ScanInv => TypeOK
  BY DEF ScanInv
<1>2. QED  BY <1>1, ScanInvariant, PTL

\* For every coremap, request and value of next_victim, the loop of
\* coremap_victim_selection returns, panics or fails its assertion as the
\* relations of module Coremap say: what the paging model uses is the loop.
THEOREM ScanIsItsRelation ==
  Spec => []ScanMatchesRelation
<1>1. ScanInv => ScanMatchesRelation
  BY DEF ScanInv
<1>2. QED  BY <1>1, ScanInvariant, PTL

\* A request for one victim, as getuserppage makes it, never returns a FIXED
\* frame or one of the kernel image, and panics only when all frames are FIXED.
THEOREM OneVictimRequestIsSafe ==
  Spec => []OneVictimIsEvictable
<1>1. ScanInv => OneVictimIsEvictable
  BY DEF ScanInv
<1>2. QED  BY <1>1, ScanInvariant, PTL
=============================================================================
