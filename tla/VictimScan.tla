----------------------------- MODULE VictimScan -----------------------------
(***************************************************************************)
(* One call of coremap_victim_selection (kern/vm/coremap.c), one iteration *)
(* of its inner loop per step, on an arbitrary coremap.                    *)
(***************************************************************************)
EXTENDS Coremap

CONSTANT MaxVictims   \* the largest request that is modelled

ASSUME MaxVictimsAssumption == MaxVictims \in Nat \ {0}

VARIABLES
  st,            \* status of every frame; the call only reads it
  nvictims,      \* the argument
  entry,         \* the static next_victim when the call is made
  nextVictim,    \* next_victim
  i, victim, victimsfound, found, iteration,   \* the locals
  pc             \* "while", "for", "wrap", then "done", "panic" or "kassert"

vars == <<st, nvictims, entry, nextVictim, i, victim, victimsfound, found,
          iteration, pc>>

args == <<st, nvictims, entry>>

\* next_victim is 0 before the first call and one past the last victim later.
Init ==
  /\ st \in {s \in [Frames -> Status] :
               \A f \in Frames \ Managed : s[f] = "FIXED"}
  /\ nvictims \in 1 .. MaxVictims
  /\ entry \in {0} \cup (firstFreeFrame + 1) .. nRamFrames
  /\ nextVictim = ScanStart(entry)
  /\ victim = nextVictim
  /\ i = victim
  /\ victimsfound = 0
  /\ found = 0
  /\ iteration = 0
  /\ pc = "while"

Again ==
  /\ pc = "while"
  /\ found = 0
  /\ found' = 1
  /\ pc' = "for"
  /\ UNCHANGED <<args, nextVictim, i, victim, victimsfound, iteration>>

\* Mutant: the loop counts one victim too many.
MoreThanEnough == i < nRamFrames /\ victimsfound <= nvictims

\* The condition of the for loop.
MoreToFind == i < nRamFrames /\ victimsfound < nvictims

\* Mutant: a FIXED frame does not interrupt the run.
CountEveryFrame ==
  /\ victimsfound' = victimsfound + 1
  /\ found' = IF st[i] = "FIXED" THEN 0 ELSE found

CountFrame ==
  \/ /\ st[i] = "FIXED"
     /\ found' = 0
     /\ victimsfound' = 0
  \/ /\ st[i] # "FIXED"
     /\ victimsfound' = victimsfound + 1
     /\ found' = found

LookAtFrame ==
  /\ pc = "for"
  /\ MoreToFind
  /\ CountFrame
  /\ i' = i + 1
  /\ UNCHANGED <<args, nextVictim, victim, iteration, pc>>

\* Mutant: off by one.
SecondOfRun == i - nvictims + 1

\* i is one past the last frame of the run.
FirstOfRun == i - nvictims

LeaveFor ==
  /\ pc = "for"
  /\ ~MoreToFind
  /\ IF victimsfound = nvictims
     THEN victim' = FirstOfRun /\ found' = 1
     ELSE UNCHANGED <<victim, found>>
  /\ pc' = "wrap"
  /\ UNCHANGED <<args, nextVictim, i, victimsfound, iteration>>

\* Mutant: the passes are not counted.
SameIteration == iteration

NextIteration == iteration + 1

Wrap ==
  /\ pc = "wrap"
  /\ i >= nRamFrames
  /\ i' = firstFreeFrame
  /\ iteration' = NextIteration
  /\ pc' = IF NextIteration >= 2 THEN "panic" ELSE "while"
  /\ UNCHANGED <<args, nextVictim, victim, victimsfound, found>>

NoWrap ==
  /\ pc = "wrap"
  /\ i < nRamFrames
  /\ pc' = "while"
  /\ UNCHANGED <<args, nextVictim, i, victim, victimsfound, found, iteration>>

Return ==
  /\ pc = "while"
  /\ found = 1
  /\ IF victimsfound = nvictims
     THEN pc' = "done" /\ nextVictim' = victim + nvictims
     ELSE pc' = "kassert" /\ UNCHANGED nextVictim
  /\ UNCHANGED <<args, i, victim, victimsfound, found, iteration>>

Next == Again \/ LookAtFrame \/ LeaveFor \/ Wrap \/ NoWrap \/ Return

Spec == Init /\ [][Next]_vars

FairSpec == Spec /\ WF_vars(Next)

---------------------------------------------------------------------------

\* Every variable of the call stays in its range; i and next_victim never pass
\* the end of the coremap.
TypeOK ==
  /\ st \in [Frames -> Status]
  /\ nvictims \in 1 .. MaxVictims
  /\ entry \in 0 .. nRamFrames
  /\ nextVictim \in Int
  /\ i \in firstFreeFrame .. nRamFrames
  /\ victim \in Int
  /\ victimsfound \in 0 .. nvictims
  /\ found \in {0, 1}
  /\ iteration \in 0 .. 2
  /\ pc \in {"while", "for", "wrap", "done", "panic", "kassert"}

\* The loop computes what the relations of module Coremap say: it returns the
\* run VictimEnd describes, fails its assertion exactly when ScanAsserts says,
\* and panics in the remaining cases (coremap_victim_selection as a whole).
ScanMatchesRelation ==
  /\ pc = "done" => /\ VictimEnd(st, entry, nvictims, victim + nvictims - 1)
                    /\ nextVictim = victim + nvictims
  /\ pc = "kassert" => ScanAsserts(st, entry, nvictims)
  /\ pc = "panic" => /\ NoVictim(st, entry, nvictims)
                     /\ ~ScanAsserts(st, entry, nvictims)

\* A request for one victim, the only size the page-fault path makes, returns a
\* frame above the kernel image that is not FIXED, and it panics only when
\* there is no such frame; the assertion at the end of the scan holds.
OneVictimIsEvictable ==
  nvictims = 1 =>
    /\ pc = "done" => victim \in Managed /\ st[victim] # "FIXED"
    /\ pc = "panic" => \A f \in Managed : st[f] = "FIXED"
    /\ pc # "kassert"

\* The scan always ends: it wraps at most twice.
ScanTerminates == <>(pc \in {"done", "panic", "kassert"})
=============================================================================
