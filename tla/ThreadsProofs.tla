--------------------------- MODULE ThreadsProofs ---------------------------
(***************************************************************************)
(* Theorems about Threads, for any number of processors, threads and       *)
(* channels: its inductive invariant, that fork, sleep, wakeups,           *)
(* interrupts, thread_switch and thread_consider_migration keep it, and    *)
(* what it says.                                                           *)
(***************************************************************************)
EXTENDS Threads, Queues

\* The provers that a step is given to, one after the other, and their time in seconds.
USE SMTT(30), Z3T(30), ZenonT(20)

State == {"none", "S_RUN", "S_READY", "S_SLEEP", "S_ZOMBIE"}

KernelPc == {"thread", "sleep", "yield", "placed", "pick", "idle", "wake", "count", "take",
             "send", "sending"}

MigRecord ==
  [i : Nat, my_count : Nat, total_count : Nat, one_share : Nat, to_send : Nat]

ThreadsType ==
  /\ t_state \in [Thread -> State]
  /\ t_cpu \in [Thread -> CPU]
  /\ lk \in [Thread -> Channel \cup {NoChannel}]
  /\ c_curthread \in [CPU -> Thread]
  /\ c_runqueue \in [CPU -> Queue(Thread)]
  /\ c_zombies \in [CPU -> Queue(Thread)]
  /\ list \in [CPU -> Queue(Thread)]
  /\ wc_threads \in [Channel -> Queue(Thread)]
  /\ c_isidle \in [CPU -> BOOLEAN]
  /\ c_ipi \in [CPU -> BOOLEAN]
  /\ rqlock \in [CPU -> 0 .. NCPU]
  /\ wclock \in [Channel -> 0 .. NCPU]
  /\ kpc \in [CPU -> KernelPc]
  /\ newstate \in [CPU -> State]
  /\ chan \in [CPU -> Channel \cup {NoChannel}]
  /\ mig \in [CPU -> MigRecord]

---------------------------------------------------------------------------
(* Where threads are.                                                      *)

Kind == {"run", "ready", "dead", "woken", "victim", "sleep"}

Place(k, x) ==
  IF k = "sleep" THEN x \in Channel
  ELSE k \in {"run", "ready", "dead", "woken", "victim"} /\ x \in CPU

Running(c) == c_isidle[c] = FALSE /\ kpc[c] # "placed"

Migrating(c) == kpc[c] \in {"send", "sending"}

\* The threads at a place.
Content(k, x) ==
  CASE k = "run"    -> IF Running(x) THEN {c_curthread[x]} ELSE {}
    [] k = "ready"  -> Range(c_runqueue[x])
    [] k = "dead"   -> Range(c_zombies[x])
    [] k = "woken"  -> IF kpc[x] = "wake" THEN Range(list[x]) ELSE {}
    [] k = "victim" -> IF Migrating(x) THEN Range(list[x]) ELSE {}
    [] k = "sleep"  -> Range(wc_threads[x])

\* The state of a thread, or the one that thread_switch is about to store.
Becoming(t) ==
  IF kpc[t_cpu[t]] = "placed" /\ c_curthread[t_cpu[t]] = t
  THEN newstate[t_cpu[t]] ELSE t_state[t]

StateAt(k) ==
  CASE k = "run"                   -> "S_RUN"
    [] k \in {"ready", "victim"}  -> "S_READY"
    [] k \in {"sleep", "woken"}   -> "S_SLEEP"
    [] k = "dead"                  -> "S_ZOMBIE"

\* A thread is in one place at most, ...
OnePlace ==
  \A k, l \in Kind, x, y \in CPU \cup Channel :
    Place(k, x) /\ Place(l, y) /\ Content(k, x) \cap Content(l, y) # {} => k = l /\ x = y

\* ... in one if it exists, ...
SomePlace ==
  \A t \in Thread : t_state[t] # "none" =>
    \E k \in Kind, x \in CPU \cup Channel : Place(k, x) /\ t \in Content(k, x)

\* ... and the place says what is known of it.
Known(t, k, x) ==
  /\ t_state[t] # "none"
  /\ Becoming(t) = StateAt(k)
  /\ k \in {"run", "ready", "dead", "victim"} => t_cpu[t] = x
  /\ k \in {"ready", "victim"} => t_state[t] = "S_READY"

AllKnown ==
  \A k \in Kind, x \in CPU \cup Channel :
    Place(k, x) => \A t \in Content(k, x) : Known(t, k, x)

PlaceInv == OnePlace /\ SomePlace /\ AllKnown

---------------------------------------------------------------------------
(* What each processor may rely on.                                        *)

CurthreadInv(c) ==
  /\ t_cpu[c_curthread[c]] = c
  /\ t_state[c_curthread[c]] # "none"
  /\ kpc[c] = "sleep" => lk[c_curthread[c]] \in Channel

IdleInv(c) ==
  /\ kpc[c] \in {"thread", "sleep", "placed"} => c_isidle[c] = FALSE
  /\ kpc[c] \in {"idle", "pick"} => c_isidle[c] = TRUE
  /\ kpc[c] = "idle" /\ c_runqueue[c] # <<>> => c_ipi[c] = TRUE

SwitchInv(c) ==
  kpc[c] = "placed" => rqlock[c] = c /\ newstate[c] \in {"S_READY", "S_SLEEP", "S_ZOMBIE"}

\* Other processors only add to a run queue: what was counted on it is still there.
MigrationInv(c) ==
  /\ kpc[c] \notin {"wake", "send", "sending"} => list[c] = <<>>
  /\ kpc[c] = "wake" => chan[c] \in Channel
  /\ kpc[c] # "count" => mig[c].my_count = 0
  /\ kpc[c] = "count" => mig[c].i \in CPU /\ mig[c].my_count <= Len(c_runqueue[c])
  /\ kpc[c] = "take" => mig[c].to_send <= Len(c_runqueue[c])
  /\ Migrating(c) => mig[c].i > 0 /\ mig[c].to_send <= Len(list[c])
  /\ kpc[c] = "sending" => mig[c].i \in CPU /\ mig[c].i # c /\ rqlock[mig[c].i] = c

CpuInv(c) == CurthreadInv(c) /\ IdleInv(c) /\ SwitchInv(c) /\ MigrationInv(c)

ThreadsInv == ThreadsType /\ PlaceInv /\ \A c \in CPU : CpuInv(c)

---------------------------------------------------------------------------
(* Steps that move threads.                                                *)

\* The threads at a place, kind by kind.
LEMMA ContentIs ==
  /\ \A c \in CPU :
       /\ Content("run", c) = IF Running(c) THEN {c_curthread[c]} ELSE {}
       /\ Content("ready", c) = Range(c_runqueue[c])
       /\ Content("dead", c) = Range(c_zombies[c])
       /\ Content("woken", c) = IF kpc[c] = "wake" THEN Range(list[c]) ELSE {}
       /\ Content("victim", c) = IF Migrating(c) THEN Range(list[c]) ELSE {}
  /\ \A w \in Channel : Content("sleep", w) = Range(wc_threads[w])
  BY DEF Content

\* The threads mv go to (k0, x0) and the threads gone cease to exist.
Transferred(k0, x0, mv, gone) ==
  /\ \A k \in Kind, x \in CPU \cup Channel : Place(k, x) /\ ~(k = k0 /\ x = x0) =>
       Content(k, x)' = Content(k, x) \ (mv \cup gone)
  /\ Content(k0, x0)' = Content(k0, x0) \cup mv
  /\ \A t \in gone : t_state'[t] = "none" /\ t \notin Content(k0, x0) /\ t \notin mv
  /\ \A t \in mv : Known(t, k0, x0)'
  /\ \A t \in Thread : t \notin mv \cup gone /\ t_state'[t] # "none" => t_state[t] # "none"
  /\ \A k \in Kind, x \in CPU \cup Channel : Place(k, x) =>
       \A t \in Content(k, x) : t \notin mv \cup gone => Known(t, k, x)'

\* Threads that move to one place, or cease to exist, leave every other place.
LEMMA Transfer ==
  ASSUME PlaceInv, NEW k0 \in Kind, NEW x0 \in CPU \cup Channel, Place(k0, x0),
         NEW mv, NEW gone, Transferred(k0, x0, mv, gone)
  PROVE  PlaceInv'
<1> USE DEF Transferred
<1>1. OnePlace'
  <2> SUFFICES ASSUME NEW k \in Kind, NEW l \in Kind, NEW x \in CPU \cup Channel,
                      NEW y \in CPU \cup Channel, Place(k, x), Place(l, y),
                      NEW t \in Content(k, x)', t \in Content(l, y)'
               PROVE  k = l /\ x = y
    BY DEF OnePlace, Place
  <2>1. CASE t \in mv
    BY <2>1
  <2>2. CASE t \notin mv
    BY <2>2 DEF PlaceInv, OnePlace
  <2> QED BY <2>1, <2>2
<1>2. SomePlace'
  <2> SUFFICES ASSUME NEW t \in Thread, t_state'[t] # "none"
               PROVE  \E k \in Kind, x \in CPU \cup Channel : Place(k, x) /\ t \in Content(k, x)'
    BY DEF SomePlace, Place
  <2>1. CASE t \in mv
    BY <2>1
  <2>2. CASE t \notin mv
    BY <2>2 DEF PlaceInv, SomePlace
  <2> QED BY <2>1, <2>2
<1>3. AllKnown'
  <2> SUFFICES ASSUME NEW k \in Kind, NEW x \in CPU \cup Channel, Place(k, x),
                      NEW t \in Content(k, x)'
               PROVE  Known(t, k, x)'
    BY DEF AllKnown, Place
  <2>1. CASE t \in mv
    BY <2>1
  <2>2. CASE t \notin mv
    BY <2>2 
  <2> QED BY <2>1, <2>2
<1> QED BY <1>1, <1>2, <1>3 DEF PlaceInv

\* Only threads are at a place.
LEMMA ContentType ==
  ASSUME ThreadsType, NEW k \in Kind, NEW x \in CPU \cup Channel, Place(k, x)
  PROVE  Content(k, x) \subseteq Thread
<1>1. \A q \in Queue(Thread) : Range(q) \subseteq Thread
  BY QueueEmpty DEF Queue
<1> QED BY <1>1 DEF ThreadsType, Place, Content, Kind

Other(k, x, k0, x0, k1, x1) == ~(k = k0 /\ x = x0) /\ ~(k = k1 /\ x = x1)

\* The threads mv go from (k1, x1) to (k0, x0); no other changes its state.
Moved(k0, x0, k1, x1, mv) ==
  /\ mv \subseteq Content(k1, x1)
  /\ \A k \in Kind, x \in CPU \cup Channel :
       Place(k, x) /\ Other(k, x, k0, x0, k1, x1) => Content(k, x)' = Content(k, x)
  /\ Content(k1, x1)' = Content(k1, x1) \ mv
  /\ Content(k0, x0)' = Content(k0, x0) \cup mv
  /\ \A t \in mv : Known(t, k0, x0)'
  /\ \A t \in Thread : t \notin mv =>
       t_state'[t] = t_state[t] /\ t_cpu'[t] = t_cpu[t] /\ Becoming(t)' = Becoming(t)

\* A step that moves one thread to another place keeps PlaceInv, ...
LEMMA MoveStep ==
  ASSUME ThreadsInv,
         NEW k0 \in Kind, NEW x0 \in CPU \cup Channel, Place(k0, x0),
         NEW k1 \in Kind, NEW x1 \in CPU \cup Channel, Place(k1, x1),
         ~(k0 = k1 /\ x0 = x1), NEW mv, Moved(k0, x0, k1, x1, mv)
  PROVE  PlaceInv'
<1> USE DEF Moved
<1>2. ASSUME NEW k \in Kind, NEW x \in CPU \cup Channel, Place(k, x), ~(k = k0 /\ x = x0)
      PROVE  Content(k, x)' = Content(k, x) \ mv
  BY <1>2 DEF ThreadsInv, PlaceInv, OnePlace, Other
<1>3. ASSUME NEW k \in Kind, NEW x \in CPU \cup Channel, Place(k, x),
             NEW t \in Content(k, x), t \notin mv
      PROVE  Known(t, k, x)'
  <2>1. t \in Thread /\ Known(t, k, x)
    BY <1>3, ContentType DEF ThreadsInv, PlaceInv, AllKnown
  <2> QED BY Zenon, <1>3, <2>1 DEF Known, StateAt
<1>4. Transferred(k0, x0, mv, {})
  BY <1>2, <1>3 DEF Transferred
<1> QED BY <1>4, Transfer DEF ThreadsInv

\* No thread moves, although states may be stored.
Stayed ==
  /\ \A k \in Kind, x \in CPU \cup Channel : Place(k, x) => Content(k, x)' = Content(k, x)
  /\ \A t \in Thread :
       /\ Becoming(t)' = Becoming(t) /\ t_cpu'[t] = t_cpu[t]
       /\ t_state[t] # "none" <=> t_state'[t] # "none"
       /\ t_state[t] = "S_READY" /\ Becoming(t) = "S_READY" => t_state'[t] = "S_READY"

\* ... as does one that moves none ...
LEMMA StayStep == ASSUME ThreadsInv, Stayed PROVE PlaceInv'
<1> USE DEF ThreadsInv, Stayed
<1>1. OnePlace'
  BY DEF PlaceInv, OnePlace, Place
<1>2. SomePlace'
  BY DEF PlaceInv, SomePlace, Place
<1>3. AllKnown'
  <2> SUFFICES ASSUME NEW k \in Kind, NEW x \in CPU \cup Channel, Place(k, x),
                      NEW t \in Content(k, x)
               PROVE  Known(t, k, x)'
    BY DEF AllKnown, Place
  <2>1. t \in Thread /\ Known(t, k, x)
    BY ContentType DEF PlaceInv, AllKnown
  <2> QED BY Zenon, <2>1 DEF Known, StateAt
<1> QED BY <1>1, <1>2, <1>3 DEF PlaceInv

\* Processor c only goes on to another step, which works on the same list.
Quiet(c) ==
  /\ t_state' = t_state /\ t_cpu' = t_cpu /\ c_curthread' = c_curthread
  /\ c_zombies' = c_zombies /\ c_isidle' = c_isidle /\ c_runqueue' = c_runqueue
  /\ wc_threads' = wc_threads /\ list' = list /\ newstate' = newstate
  /\ \A d \in CPU : d # c => kpc'[d] = kpc[d]
  /\ kpc[c] # "placed" /\ kpc'[c] # "placed"
  /\ \/ list[c] = <<>>
     \/ (kpc'[c] = "wake" <=> kpc[c] = "wake") /\ (Migrating(c)' <=> Migrating(c))

\* ... but only its processor.
LEMMA QuietStep == ASSUME ThreadsInv, NEW c \in CPU, Quiet(c) PROVE PlaceInv'
<1> USE DEF ThreadsInv, ThreadsType, Quiet
<1>1. Range(<<>>) = {}
  BY EmptyQueue
<1>2. ASSUME NEW k \in Kind, NEW x \in CPU \cup Channel, Place(k, x)
      PROVE  Content(k, x)' = Content(k, x)
  BY Zenon, <1>1, <1>2 DEF Content, Running, Migrating, Kind, Place
<1>3. \A t \in Thread : Becoming(t)' = Becoming(t)
  BY DEF Becoming
<1>4. Stayed
  BY Zenon, <1>2, <1>3 DEF Stayed
<1> QED BY <1>4, StayStep

---------------------------------------------------------------------------
(* What a step of one processor leaves to the others.                      *)

\* What processor c does not do to the others.
OthersSame(c) ==
  \A d \in CPU : d # c =>
    /\ kpc'[d] = kpc[d] /\ c_curthread'[d] = c_curthread[d] /\ c_isidle'[d] = c_isidle[d]
    /\ list'[d] = list[d] /\ c_zombies'[d] = c_zombies[d] /\ newstate'[d] = newstate[d]
    /\ mig'[d] = mig[d] /\ chan'[d] = chan[d]

OthersKept(c) ==
  /\ OthersSame(c)
  /\ \A d \in CPU : d # c =>
       /\ t_cpu'[c_curthread[d]] = d /\ t_state'[c_curthread[d]] # "none"
       /\ lk'[c_curthread[d]] = lk[c_curthread[d]]
       /\ \/ c_runqueue'[d] = c_runqueue[d]
          \/ /\ Len(c_runqueue'[d]) >= Len(c_runqueue[d])
             /\ c_isidle[d] = TRUE => c_ipi'[d] = TRUE
       /\ c_ipi[d] = TRUE => c_ipi'[d] = TRUE
  /\ \A e \in CPU : rqlock[e] # 0 /\ rqlock[e] # c => rqlock'[e] = rqlock[e]

\* A step that keeps what the other processors rely on keeps their invariants.
LEMMA OthersStep ==
  ASSUME ThreadsInv, NEW c \in CPU, ThreadsType', OthersKept(c), CpuInv(c)'
  PROVE  \A d \in CPU : CpuInv(d)'
<1> SUFFICES ASSUME NEW d \in CPU, d # c PROVE CpuInv(d)'
  OBVIOUS
<1> USE DEF OthersKept, OthersSame
<1>1. CpuInv(d) /\ d \in Nat \ {0}
  BY ThreadsAssumption DEF ThreadsInv, CPU
<1>2. CurthreadInv(d)'
  BY <1>1 DEF CpuInv, CurthreadInv
<1>3. IdleInv(d)'
  BY Zenon, <1>1 DEF CpuInv, IdleInv
<1>4. SwitchInv(d)'
  BY Zenon, <1>1 DEF CpuInv, SwitchInv
<1>5. MigrationInv(d)'
  <2>1. mig[d] \in MigRecord /\ c_runqueue[d] \in Queue(Thread) /\ c_runqueue'[d] \in Queue(Thread)
    BY ZenonT(60) DEF ThreadsInv, ThreadsType
  <2>2. mig[d].my_count \in Nat /\ mig[d].to_send \in Nat
    BY <2>1 DEF MigRecord
  <2>3. Len(c_runqueue[d]) \in Nat /\ Len(c_runqueue'[d]) \in Nat
    BY <2>1 DEF Queue
  <2>4. Len(c_runqueue'[d]) >= Len(c_runqueue[d])
    BY <2>3
  <2>5. \A n \in Nat : n <= Len(c_runqueue[d]) => n <= Len(c_runqueue'[d])
    BY <2>3, <2>4
  <2>6. MigrationInv(d)
    BY <1>1 DEF CpuInv
  <2>7. kpc[d] = "sending" => rqlock'[mig[d].i] = d
    BY Zenon, <1>1, <2>6 DEF MigrationInv
  <2>8. /\ kpc'[d] = kpc[d] /\ mig'[d] = mig[d] /\ list'[d] = list[d] /\ chan'[d] = chan[d]
    OBVIOUS
  <2> HIDE DEF OthersKept, OthersSame
  <2> QED BY <2>2, <2>5, <2>6, <2>7, <2>8 DEF MigrationInv, Migrating
<1> QED BY <1>2, <1>3, <1>4, <1>5 DEF CpuInv

---------------------------------------------------------------------------
(* The actions.                                                            *)

\* Processors are numbered from 1.
LEMMA CpuNumbers == 0 \in 0 .. NCPU /\ \A c \in CPU : c \in 0 .. NCPU /\ c \in Nat \ {0}
  BY ThreadsAssumption DEF CPU

\* The lock of the channel is taken before a thread sleeps, ...
LEMMA SleepBeginStep ==
  ASSUME ThreadsInv, NEW c \in CPU, NEW w \in Channel, SleepBegin(c, w)
  PROVE  ThreadsInv'
<1> USE DEF ThreadsInv
<1>1. /\ kpc[c] = "thread" /\ kpc' = [kpc EXCEPT ![c] = "sleep"]
      /\ lk' = [lk EXCEPT ![c_curthread[c]] = w] /\ wclock' = [wclock EXCEPT ![w] = c]
      /\ UNCHANGED <<t_state, t_cpu, cpus, queues, c_ipi, rqlock, locals>>
  BY Zenon DEF SleepBegin, InThread
<1> USE DEF cpus, queues, locals
<1>2. ThreadsType'
  BY Zenon, <1>1, CpuNumbers DEF ThreadsType, KernelPc
<1>3. CpuInv(c) /\ list[c] = <<>>
  BY Zenon, <1>1 DEF CpuInv, MigrationInv
<1>4. Quiet(c)
  BY Zenon, <1>1, <1>3 DEF Quiet, ThreadsType
<1>5. OthersKept(c)
  BY ZenonT(60), <1>1 DEF OthersKept, OthersSame, ThreadsType, CpuInv, CurthreadInv
<1>6. CpuInv(c)'
  BY <1>1, <1>3 DEF CpuInv, CurthreadInv, IdleInv, SwitchInv, MigrationInv, Migrating, ThreadsType
<1> QED BY Zenon, <1>2, <1>4, <1>5, <1>6, QuietStep, OthersStep

\* ... and taken once more, for a moment, when it has been woken.
LEMMA SleepEndStep ==
  ASSUME ThreadsInv, NEW c \in CPU, SleepEnd(c)
  PROVE  ThreadsInv'
<1> USE DEF ThreadsInv
<1>1. /\ kpc[c] = "thread" /\ lk' = [lk EXCEPT ![c_curthread[c]] = NoChannel]
      /\ UNCHANGED <<t_state, t_cpu, cpus, queues, c_ipi, locks, kpc, locals>>
  BY Zenon DEF SleepEnd
<1> USE DEF cpus, queues, locks, locals
<1>2. ThreadsType'
  BY <1>1 DEF ThreadsType
<1>3. CpuInv(c)
  BY Zenon
<1>4. Quiet(c)
  BY <1>1 DEF Quiet, ThreadsType, Migrating
<1>5. OthersKept(c)
  BY ZenonT(60), <1>1 DEF OthersKept, OthersSame, ThreadsType, CpuInv, CurthreadInv
<1>6. CpuInv(c)'
  BY <1>1, <1>3 DEF CpuInv, CurthreadInv, IdleInv, SwitchInv, MigrationInv, Migrating, ThreadsType
<1> QED BY Zenon, <1>2, <1>4, <1>5, <1>6, QuietStep, OthersStep

WithI(m, n) == [m EXCEPT !.i = n]
WithToSend(m, n) == [m EXCEPT !.to_send = n]

\* What the progress of a migration is after its loop index has been set, ...
LEMMA SetI ==
  ASSUME NEW m \in MigRecord, NEW n \in Nat
  PROVE  LET r == WithI(m, n)
         IN /\ r \in MigRecord /\ r.i = n /\ r.my_count = m.my_count
            /\ r.total_count = m.total_count /\ r.one_share = m.one_share /\ r.to_send = m.to_send
  BY DEF MigRecord, WithI

\* ... and after to_send has.
LEMMA SetToSend ==
  ASSUME NEW m \in MigRecord, NEW n \in Nat
  PROVE  LET r == WithToSend(m, n)
         IN /\ r \in MigRecord /\ r.i = m.i /\ r.my_count = m.my_count
            /\ r.total_count = m.total_count /\ r.one_share = m.one_share /\ r.to_send = n
  BY Zenon DEF MigRecord, WithToSend

\* A step that only goes to another place in the code, with new locals for migration.
GoesOn(c, at, m) ==
  /\ kpc' = [kpc EXCEPT ![c] = at] /\ mig' = [mig EXCEPT ![c] = m]
  /\ UNCHANGED <<threads, cpus, queues, wclock, newstate, list>>

\* The same with the locals of a migration, for the whole invariant.
LEMMA GoesOnStep ==
  ASSUME ThreadsInv, NEW c \in CPU, NEW at \in KernelPc, NEW m \in MigRecord,
         GoesOn(c, at, m), ThreadsType', CpuInv(c)',
         kpc[c] # "placed", at # "placed",
         \/ list[c] = <<>>
         \/ (at = "wake" <=> kpc[c] = "wake") /\ (at \in {"send", "sending"} <=> Migrating(c)),
         \A d \in CPU : d # c => (c_ipi[d] = TRUE => c_ipi'[d] = TRUE) /\ chan'[d] = chan[d],
         \A e \in CPU : rqlock[e] # 0 /\ rqlock[e] # c => rqlock'[e] = rqlock[e]
  PROVE  ThreadsInv'
<1> USE DEF ThreadsInv, GoesOn, threads, cpus, queues
<1>1. Quiet(c)
  BY Zenon DEF Quiet, ThreadsType, Migrating
<1>2. OthersKept(c)
  BY DEF OthersKept, OthersSame, ThreadsType, CpuInv, CurthreadInv
<1> QED BY Zenon, <1>1, <1>2, QuietStep, OthersStep

\* The progress of a migration has its fields.
LEMMA MigAt == ASSUME ThreadsType, NEW c \in CPU
               PROVE  mig[c] \in MigRecord /\ mig = [mig EXCEPT ![c] = mig[c]]
  BY DEF ThreadsType

\* thread_yield with nothing to do.
LEMMA YieldNothingStep ==
  ASSUME ThreadsInv, NEW c \in CPU, kpc[c] = "yield",
         \/ c_isidle[c] /\ kpc' = [kpc EXCEPT ![c] = "pick"]
         \/ ~c_isidle[c] /\ kpc' = [kpc EXCEPT ![c] = "thread"],
         UNCHANGED <<threads, cpus, queues, c_ipi, locks, locals>>
  PROVE  ThreadsInv'
<1> USE DEF threads, cpus, queues, locks, locals
<1>0. ThreadsType /\ CpuInv(c) /\ list[c] = <<>> /\ c_isidle[c] \in BOOLEAN
  BY Zenon DEF ThreadsInv, ThreadsType, CpuInv, MigrationInv
<1>1. PICK at \in {"pick", "thread"} :
        /\ kpc' = [kpc EXCEPT ![c] = at]
        /\ at = "pick" => c_isidle[c] = TRUE
        /\ at = "thread" => c_isidle[c] = FALSE
  BY <1>0
<1>2. ThreadsType'
  BY Zenon, <1>0, <1>1 DEF ThreadsType, KernelPc
<1>3. CpuInv(c)'
  BY Zenon, <1>0, <1>1 DEF CpuInv, CurthreadInv, IdleInv, SwitchInv, MigrationInv, Migrating, ThreadsType
<1>4. GoesOn(c, at, mig[c])
  BY Zenon, <1>0, <1>1, MigAt DEF GoesOn
<1> QED BY Zenon, <1>0, <1>1, <1>2, <1>3, <1>4, MigAt, GoesOnStep DEF KernelPc

\* wchan_wakeall ends when its list is empty.
LEMMA WakeEndStep ==
  ASSUME ThreadsInv, NEW c \in CPU, WakeEnd(c)
  PROVE  ThreadsInv'
<1>0. ThreadsType /\ CpuInv(c) /\ c_isidle[c] \in BOOLEAN /\ chan[c] \in Channel
  BY Zenon DEF ThreadsInv, ThreadsType, CpuInv, MigrationInv, WakeEnd
<1>1. PICK at \in {"pick", "thread"} :
        /\ kpc' = [kpc EXCEPT ![c] = at]
        /\ at = "pick" => c_isidle[c] = TRUE
        /\ at = "thread" => c_isidle[c] = FALSE
  BY Zenon, <1>0 DEF WakeEnd, Return
<1>2. /\ kpc[c] = "wake" /\ list[c] = <<>> /\ wclock' = [wclock EXCEPT ![chan[c]] = 0]
      /\ chan' = [chan EXCEPT ![c] = NoChannel]
      /\ UNCHANGED <<threads, cpus, queues, c_ipi, rqlock, newstate, list, mig>>
  BY Zenon DEF WakeEnd
<1> USE DEF threads, cpus, queues
<1>3. ThreadsType'
  BY <1>0, <1>1, <1>2, ThreadsAssumption DEF ThreadsType, KernelPc
<1>4. CpuInv(c)'
  BY Zenon, <1>0, <1>1, <1>2 DEF CpuInv, CurthreadInv, IdleInv, SwitchInv, MigrationInv, Migrating,
      ThreadsType
<1>5. Quiet(c)
  BY Zenon, <1>0, <1>1, <1>2 DEF Quiet, ThreadsType
<1>6. OthersKept(c)
  BY Zenon, <1>0, <1>1, <1>2 DEF OthersKept, OthersSame, ThreadsInv, ThreadsType, CpuInv, CurthreadInv
<1> QED BY Zenon, <1>3, <1>4, <1>5, <1>6, QuietStep, OthersStep DEF ThreadsInv

\* The clock interrupt starts a migration or a yield.
LEMMA HardclockStep ==
  ASSUME ThreadsInv, NEW c \in CPU, Hardclock(c)
  PROVE  ThreadsInv'
<1>0. ThreadsType /\ CpuInv(c) /\ list[c] = <<>> /\ mig[c] \in MigRecord /\ mig[c].my_count = 0
      /\ kpc[c] \in {"thread", "idle"}
  BY Zenon DEF ThreadsInv, ThreadsType, CpuInv, MigrationInv, Hardclock
<1>1. UNCHANGED <<threads, cpus, queues, c_ipi, locks, newstate, chan, list>>
  BY DEF Hardclock
<1> USE DEF threads, cpus, queues, locks
<1>2. CASE kpc' = [kpc EXCEPT ![c] = "yield"] /\ mig' = mig
  <2>1. ThreadsType'
    BY Zenon, <1>0, <1>1, <1>2 DEF ThreadsType, KernelPc
  <2>2. CpuInv(c)'
    BY Zenon, <1>0, <1>1, <1>2 DEF CpuInv, CurthreadInv, IdleInv, SwitchInv, MigrationInv, Migrating,
        ThreadsType
  <2>3. GoesOn(c, "yield", mig[c])
    BY Zenon, <1>0, <1>1, <1>2, MigAt DEF GoesOn
  <2> QED BY Zenon, <1>0, <1>1, <2>1, <2>2, <2>3, GoesOnStep DEF KernelPc
<1>3. CASE kpc' = [kpc EXCEPT ![c] = "count"] /\ mig' = [mig EXCEPT ![c].i = 1]
  <2> DEFINE m == WithI(mig[c], 1)
  <2>0. mig' = [mig EXCEPT ![c] = m] /\ kpc' = [kpc EXCEPT ![c] = "count"]
    BY Zenon, <1>3 DEF WithI
  <2>m. m \in MigRecord /\ m.i = 1 /\ m.my_count = 0
    BY Zenon, <1>0, SetI
  <2> HIDE DEF m
  <2>1. ThreadsType'
    BY Zenon, <1>0, <1>1, <2>0, <2>m DEF ThreadsType, KernelPc
  <2>c. 1 \in CPU /\ 0 <= Len(c_runqueue[c])
    BY <1>0, ThreadsAssumption DEF CPU, ThreadsType, Queue
  <2>k. mig'[c] = m /\ kpc'[c] = "count"
    BY Zenon, <1>0, <2>0 DEF ThreadsType
  <2>2. CpuInv(c)'
    BY Zenon, <1>0, <1>1, <2>k, <2>m, <2>c DEF CpuInv, CurthreadInv, IdleInv, SwitchInv, MigrationInv,
        Migrating
  <2>3. GoesOn(c, "count", m)
    BY <1>1, <2>0 DEF GoesOn
  <2> QED BY Zenon, <1>0, <1>1, <2>1, <2>2, <2>3, <2>m, GoesOnStep DEF KernelPc
<1> QED BY <1>2, <1>3 DEF Hardclock

\* The interrupt ends the wait of an idle processor.
LEMMA InterprocessorInterruptStep ==
  ASSUME ThreadsInv, NEW c \in CPU, InterprocessorInterrupt(c)
  PROVE  ThreadsInv'
<1>0. ThreadsType /\ CpuInv(c) /\ c_isidle[c] \in BOOLEAN /\ list[c] = <<>>
      /\ kpc[c] \in {"thread", "idle"}
  BY Zenon DEF ThreadsInv, ThreadsType, CpuInv, MigrationInv, InterprocessorInterrupt
<1>1. PICK at \in {"pick", "thread"} :
        /\ kpc' = [kpc EXCEPT ![c] = at]
        /\ at = "pick" => c_isidle[c] = TRUE
        /\ at = "thread" => c_isidle[c] = FALSE
  BY Zenon, <1>0 DEF InterprocessorInterrupt, Return
<1>2. /\ c_ipi' = [c_ipi EXCEPT ![c] = FALSE]
      /\ UNCHANGED <<threads, cpus, queues, locks, locals>>
  BY Zenon DEF InterprocessorInterrupt
<1> USE DEF threads, cpus, queues, locks, locals
<1>3. ThreadsType'
  BY Zenon, <1>0, <1>1, <1>2 DEF ThreadsType, KernelPc
<1>4. CpuInv(c)'
  BY Zenon, <1>0, <1>1, <1>2 DEF CpuInv, CurthreadInv, IdleInv, SwitchInv, MigrationInv, Migrating,
      ThreadsType
<1>5. GoesOn(c, at, mig[c])
  BY Zenon, <1>0, <1>1, <1>2, MigAt DEF GoesOn
<1>6. \A d \in CPU : d # c => c_ipi'[d] = c_ipi[d]
  BY <1>0, <1>2 DEF ThreadsType
<1> QED BY Zenon, <1>0, <1>1, <1>2, <1>3, <1>4, <1>5, <1>6, MigAt, GoesOnStep DEF KernelPc

\* thread_switch puts a thread that sleeps on its channel.
LEMMA SwitchSleepStep ==
  ASSUME ThreadsInv, NEW c \in CPU, SwitchSleep(c)
  PROVE  ThreadsInv'
<1>0. ThreadsType /\ CpuInv(c) /\ PlaceInv
  BY DEF ThreadsInv
<1>a. PICK t \in Thread : t = c_curthread[c]
  BY <1>0 DEF ThreadsType
<1>b. PICK w \in Channel : w = lk[t]
  BY Zenon, <1>0, <1>a DEF SwitchSleep, CpuInv, CurthreadInv
<1>1. c_isidle[c] = FALSE /\ t_cpu[t] = c /\ t_state[t] # "none" /\ kpc[c] = "sleep"
      /\ list[c] = <<>>
  BY Zenon, <1>0, <1>a DEF SwitchSleep, CpuInv, CurthreadInv, IdleInv, MigrationInv
<1>2. /\ t_state' = t_state /\ t_cpu' = t_cpu /\ c_curthread' = c_curthread /\ lk' = lk
      /\ c_zombies' = c_zombies /\ c_isidle' = c_isidle /\ c_runqueue' = c_runqueue
      /\ list' = list /\ chan' = chan /\ mig' = mig /\ c_ipi' = c_ipi
      /\ wc_threads' = [wc_threads EXCEPT ![w] = Append(@, t)]
      /\ newstate' = [newstate EXCEPT ![c] = "S_SLEEP"]
      /\ kpc' = [kpc EXCEPT ![c] = "placed"]
      /\ rqlock[c] = 0 /\ rqlock' = [rqlock EXCEPT ![c] = c]
      /\ wclock' = [wclock EXCEPT ![w] = 0]
  BY <1>a, <1>b DEF SwitchSleep, threads, cpus
<1>3. Content("run", c) = {t} /\ Content("run", c)' = {}
  BY Zenon, <1>0, <1>a, <1>1, <1>2 DEF Content, Running, ThreadsType
<1>4. t \notin Content("sleep", w)
  BY Zenon, <1>0, <1>1, <1>3 DEF PlaceInv, OnePlace, Kind, Place
<1>5. /\ Append(wc_threads[w], t) \in Queue(Thread)
      /\ Range(Append(wc_threads[w], t)) = Range(wc_threads[w]) \cup {t}
  <2>1. wc_threads[w] \in Queue(Thread) /\ t \notin Range(wc_threads[w])
    BY <1>0, <1>4 DEF ThreadsType, Content
  <2> QED BY <2>1, QueueAppend
<1>6. ThreadsType'
  BY Zenon, <1>0, <1>2, <1>5, CpuNumbers DEF ThreadsType, KernelPc, State
<1>7. Content("sleep", w)' = Content("sleep", w) \cup {t}
  BY Zenon, <1>0, <1>2, <1>5 DEF Content, ThreadsType
<1>8. ASSUME NEW k \in Kind, NEW x \in CPU \cup Channel, Place(k, x),
             Other(k, x, "sleep", w, "run", c)
      PROVE  Content(k, x)' = Content(k, x)
  BY Zenon, <1>0, <1>1, <1>2, <1>8 DEF Content, Running, Migrating, Kind, Place, Other, ThreadsType
<1>9. Known(t, "sleep", w)'
  BY Zenon, <1>0, <1>1, <1>2, <1>a DEF Known, Becoming, StateAt, ThreadsType
<1>10. \A u \in Thread : u # t => Becoming(u)' = Becoming(u)
  BY Zenon, <1>0, <1>1, <1>2, <1>a DEF Becoming, ThreadsType
<1>11. PlaceInv'
  <2>1. "sleep" \in Kind /\ "run" \in Kind /\ Place("sleep", w) /\ Place("run", c)
    BY DEF Kind, Place
  <2>2. Moved("sleep", w, "run", c, {t})
    BY Zenon, <1>2, <1>3, <1>7, <1>8, <1>9, <1>10 DEF Moved
  <2> QED BY Zenon, <2>1, <2>2, MoveStep
<1>12. OthersKept(c)
  BY Zenon, <1>0, <1>2 DEF OthersKept, OthersSame, ThreadsInv, ThreadsType, CpuInv, CurthreadInv
<1>13. CpuInv(c)'
  BY Zenon, <1>0, <1>1, <1>2
     DEF CpuInv, CurthreadInv, IdleInv, SwitchInv, MigrationInv, Migrating, ThreadsType
<1> QED BY Zenon, <1>6, <1>11, <1>12, <1>13, OthersStep DEF ThreadsInv

\* thread_switch puts a thread that exits on the zombie list.
LEMMA SwitchExitStep ==
  ASSUME ThreadsInv, NEW c \in CPU, SwitchExit(c)
  PROVE  ThreadsInv'
<1>0. ThreadsType /\ CpuInv(c) /\ PlaceInv
  BY DEF ThreadsInv
<1>a. PICK t \in Thread : t = c_curthread[c]
  BY Zenon, <1>0 DEF ThreadsType
<1>1. c_isidle[c] = FALSE /\ t_cpu[t] = c /\ t_state[t] # "none" /\ kpc[c] = "thread"
      /\ list[c] = <<>>
  BY Zenon, <1>0, <1>a DEF SwitchExit, InThread, CpuInv, CurthreadInv, IdleInv, MigrationInv
<1>2. /\ t_state' = t_state /\ t_cpu' = t_cpu /\ c_curthread' = c_curthread /\ lk' = lk
      /\ c_isidle' = c_isidle /\ c_runqueue' = c_runqueue /\ wc_threads' = wc_threads
      /\ list' = list /\ chan' = chan /\ mig' = mig /\ c_ipi' = c_ipi /\ wclock' = wclock
      /\ c_zombies' = [c_zombies EXCEPT ![c] = Append(@, t)]
      /\ newstate' = [newstate EXCEPT ![c] = "S_ZOMBIE"]
      /\ kpc' = [kpc EXCEPT ![c] = "placed"]
      /\ rqlock[c] = 0 /\ rqlock' = [rqlock EXCEPT ![c] = c]
  BY <1>a DEF SwitchExit, threads, queues
<1>3. Content("run", c) = {t} /\ Content("run", c)' = {}
  BY Zenon, <1>0, <1>a, <1>1, <1>2 DEF Content, Running, ThreadsType
<1>4. t \notin Content("dead", c)
  BY ZenonT(60), <1>0, <1>1, <1>3 DEF PlaceInv, OnePlace, Kind, Place
<1>5. /\ Append(c_zombies[c], t) \in Queue(Thread)
      /\ Range(Append(c_zombies[c], t)) = Range(c_zombies[c]) \cup {t}
  <2>1. c_zombies[c] \in Queue(Thread) /\ t \notin Range(c_zombies[c])
    BY <1>0, <1>4 DEF ThreadsType, Content
  <2> QED BY <2>1, QueueAppend
<1>6. ThreadsType'
  BY Zenon, <1>0, <1>2, <1>5, CpuNumbers DEF ThreadsType, KernelPc, State
<1>7. Content("dead", c)' = Content("dead", c) \cup {t}
  BY Zenon, <1>0, <1>2, <1>5 DEF Content, ThreadsType
<1>8. ASSUME NEW k \in Kind, NEW x \in CPU \cup Channel, Place(k, x),
             Other(k, x, "dead", c, "run", c)
      PROVE  Content(k, x)' = Content(k, x)
  BY Zenon, <1>0, <1>1, <1>2, <1>8 DEF Content, Running, Migrating, Kind, Place, Other, ThreadsType
<1>9. Known(t, "dead", c)'
  BY Zenon, <1>0, <1>1, <1>2, <1>a DEF Known, Becoming, StateAt, ThreadsType
<1>10. \A u \in Thread : u # t => Becoming(u)' = Becoming(u)
  BY Zenon, <1>0, <1>1, <1>2, <1>a DEF Becoming, ThreadsType
<1>11. PlaceInv'
  <2>1. "dead" \in Kind /\ "run" \in Kind /\ Place("dead", c) /\ Place("run", c)
    BY Zenon DEF Kind, Place
  <2>2. Moved("dead", c, "run", c, {t})
    BY Zenon, <1>2, <1>3, <1>7, <1>8, <1>9, <1>10 DEF Moved
  <2> QED BY <2>1, <2>2, MoveStep
<1>12. OthersKept(c)
  BY Zenon, <1>0, <1>2 DEF OthersKept, OthersSame, ThreadsInv, ThreadsType, CpuInv, CurthreadInv
<1>13. CpuInv(c)'
  BY Zenon, <1>0, <1>1, <1>2
     DEF CpuInv, CurthreadInv, IdleInv, SwitchInv, MigrationInv, Migrating, ThreadsType
<1> QED BY Zenon, <1>6, <1>11, <1>12, <1>13, OthersStep DEF ThreadsInv

\* A thread that is nowhere on run queue d is put there.
LEMMA Enqueued ==
  ASSUME ThreadsType, NEW d \in CPU, NEW t \in Thread, t \notin Content("ready", d),
         c_runqueue' = [c_runqueue EXCEPT ![d] = Append(@, t)]
  PROVE  /\ c_runqueue' \in [CPU -> Queue(Thread)]
         /\ Content("ready", d)' = Content("ready", d) \cup {t}
         /\ \A e \in CPU : e # d => c_runqueue'[e] = c_runqueue[e]
         /\ Len(c_runqueue'[d]) = Len(c_runqueue[d]) + 1 /\ Len(c_runqueue[d]) \in Nat
<1>1. c_runqueue[d] \in Queue(Thread) /\ t \notin Range(c_runqueue[d])
  BY DEF ThreadsType, Content
<1>2. /\ Append(c_runqueue[d], t) \in Queue(Thread)
      /\ Range(Append(c_runqueue[d], t)) = Range(c_runqueue[d]) \cup {t}
  BY ZenonT(60), <1>1, QueueAppend
<1>3. Len(Append(c_runqueue[d], t)) = Len(c_runqueue[d]) + 1 /\ Len(c_runqueue[d]) \in Nat
  BY <1>1 DEF Queue
<1>4. c_runqueue'[d] = Append(c_runqueue[d], t)
  BY DEF ThreadsType
<1> QED BY <1>2, <1>3, <1>4 DEF ThreadsType, Content

\* A processor that has been given work and idles is interrupted.
LEMMA Unidled ==
  ASSUME ThreadsType, NEW c \in CPU, NEW d \in CPU, Unidle(c, d)
  PROVE  /\ c_ipi' \in [CPU -> BOOLEAN]
         /\ \A e \in CPU : c_ipi[e] = TRUE => c_ipi'[e] = TRUE
         /\ d # c /\ c_isidle[d] = TRUE => c_ipi'[d] = TRUE
<1>1. c_ipi \in [CPU -> BOOLEAN] /\ c_isidle \in [CPU -> BOOLEAN]
  BY DEF ThreadsType
<1>2. c_ipi' = [c_ipi EXCEPT ![d] = c_ipi[d] \/ (c_isidle[d] /\ d # c)]
  BY DEF Unidle
<1>3. c_ipi' \in [CPU -> BOOLEAN]
  BY <1>1, <1>2, Zenon
<1>4. \A e \in CPU : e # d => c_ipi'[e] = c_ipi[e]
  BY <1>1, <1>2, Zenon
<1>5. c_ipi'[d] = (c_ipi[d] \/ (c_isidle[d] /\ d # c))
  BY <1>1, <1>2, Zenon
<1>6. c_ipi[d] = TRUE => c_ipi'[d] = TRUE
  BY <1>5, Zenon
<1>7. d # c /\ c_isidle[d] = TRUE => c_ipi'[d] = TRUE
  BY <1>5, Zenon
<1> QED BY Zenon, <1>3, <1>4, <1>6, <1>7

\* What is known of the threads at a place.
LEMMA AtPlace ==
  ASSUME ThreadsInv, NEW k \in Kind, NEW x \in CPU \cup Channel, Place(k, x),
         NEW t \in Content(k, x)
  PROVE  t \in Thread /\ Known(t, k, x)
  BY Zenon, ContentType DEF ThreadsInv, PlaceInv, AllKnown

\* A thread at one place is not at another.
LEMMA NotElsewhere ==
  ASSUME ThreadsInv, NEW k \in Kind, NEW x \in CPU \cup Channel, Place(k, x),
         NEW t \in Content(k, x),
         NEW l \in Kind, NEW y \in CPU \cup Channel, Place(l, y), ~(l = k /\ y = x)
  PROVE  t \notin Content(l, y)
  BY DEF ThreadsInv, PlaceInv, OnePlace

\* The kinds of places.
LEMMA Kinds ==
  /\ \A c \in CPU : /\ "run" \in Kind /\ Place("run", c) /\ "ready" \in Kind /\ Place("ready", c)
                    /\ "dead" \in Kind /\ Place("dead", c) /\ "woken" \in Kind /\ Place("woken", c)
                    /\ "victim" \in Kind /\ Place("victim", c)
  /\ \A w \in Channel : "sleep" \in Kind /\ Place("sleep", w)
  BY DEF Kind, Place

\* thread_fork puts the new thread on the run queue of its processor.
LEMMA ForkStep ==
  ASSUME ThreadsInv, NEW c \in CPU, NEW t \in Thread, NEW d \in CPU, Fork(c, t, d)
  PROVE  ThreadsInv'
<1>0. ThreadsType /\ CpuInv(c) /\ PlaceInv
  BY Zenon DEF ThreadsInv
<1>1. /\ kpc[c] = "thread" /\ t_state[t] = "none" /\ rqlock[d] = 0
      /\ t_state' = [t_state EXCEPT ![t] = "S_READY"]
      /\ t_cpu' = [t_cpu EXCEPT ![t] = d]
      /\ c_runqueue' = [c_runqueue EXCEPT ![d] = Append(@, t)]
      /\ Unidle(c, d)
  BY Zenon DEF Fork, InThread, MakeRunnable
<1>2. UNCHANGED <<lk, cpus, wc_threads, locks, kpc, locals>>
  BY Zenon DEF Fork
<1> USE DEF cpus, locks, locals
<1>3. \A k \in Kind, x \in CPU \cup Channel : Place(k, x) => t \notin Content(k, x)
  BY <1>1, AtPlace DEF Known
<1>4. /\ c_runqueue' \in [CPU -> Queue(Thread)]
      /\ Content("ready", d)' = Content("ready", d) \cup {t}
      /\ \A e \in CPU : e # d => c_runqueue'[e] = c_runqueue[e]
      /\ Len(c_runqueue'[d]) = Len(c_runqueue[d]) + 1 /\ Len(c_runqueue[d]) \in Nat
  BY Zenon, <1>0, <1>1, <1>3, Kinds, Enqueued
<1>5. /\ c_ipi' \in [CPU -> BOOLEAN]
      /\ \A e \in CPU : c_ipi[e] = TRUE => c_ipi'[e] = TRUE
      /\ d # c /\ c_isidle[d] = TRUE => c_ipi'[d] = TRUE
  BY Zenon, <1>0, <1>1, Unidled
<1>6. ThreadsType'
  BY Zenon, <1>0, <1>1, <1>2, <1>4, <1>5 DEF ThreadsType, State
<1>7. (\A e \in CPU : c_curthread[e] # t) /\ kpc[d] # "placed"
  BY Zenon, <1>1, CpuNumbers DEF ThreadsInv, CpuInv, CurthreadInv, SwitchInv
<1>8. \A u \in Thread : u # t =>
        t_state'[u] = t_state[u] /\ t_cpu'[u] = t_cpu[u] /\ Becoming(u)' = Becoming(u)
  BY <1>0, <1>1, <1>2 DEF Becoming, ThreadsType
<1>9. Transferred("ready", d, {t}, {})
  <2>1. ASSUME NEW k \in Kind, NEW x \in CPU \cup Channel, Place(k, x), ~(k = "ready" /\ x = d)
        PROVE  Content(k, x)' = Content(k, x)
    BY Zenon, <1>2, <1>4, <2>1 DEF Content, Running, Migrating, Kind, Place
  <2>2. Known(t, "ready", d)'
    BY Zenon, <1>0, <1>1, <1>2, <1>7 DEF Known, Becoming, StateAt, ThreadsType
  <2>3. ASSUME NEW k \in Kind, NEW x \in CPU \cup Channel, Place(k, x), NEW u \in Content(k, x),
               u # t
        PROVE  Known(u, k, x)'
    <3>1. u \in Thread /\ Known(u, k, x)
      BY Zenon, <2>3, AtPlace
    <3> QED BY Zenon, <1>8, <2>3, <3>1 DEF Known, StateAt
  <2> QED BY Zenon, <1>3, <1>4, <1>8, <2>1, <2>2, <2>3 DEF Transferred
<1>10. PlaceInv'
  BY Zenon, <1>0, <1>9, Kinds, Transfer
<1>11. OthersKept(c)
  <2>1. ASSUME NEW e \in CPU, e # c
        PROVE  \/ c_runqueue'[e] = c_runqueue[e]
               \/ /\ Len(c_runqueue'[e]) >= Len(c_runqueue[e])
                  /\ c_isidle[e] = TRUE => c_ipi'[e] = TRUE
    <3>1. CASE e = d
      <4>1. Len(c_runqueue'[d]) >= Len(c_runqueue[d])
        BY <1>4
      <4> QED BY Zenon, <1>5, <2>1, <3>1, <4>1
    <3>2. CASE e # d
      BY Zenon, <1>4, <3>2
    <3> QED BY Zenon, <3>1, <3>2
  <2> QED BY ZenonT(60), <1>0, <1>1, <1>2, <1>5, <1>7, <2>1
          DEF OthersKept, OthersSame, ThreadsInv, ThreadsType, CpuInv, CurthreadInv
<1>12. CpuInv(c)'
  BY <1>0, <1>1, <1>2, <1>7
     DEF CpuInv, CurthreadInv, IdleInv, SwitchInv, MigrationInv, Migrating, ThreadsType
<1> QED BY Zenon, <1>6, <1>10, <1>11, <1>12, OthersStep DEF ThreadsInv

\* thread_switch puts a thread that yields at the end of the run queue.
LEMMA SwitchYieldStep ==
  ASSUME ThreadsInv, NEW c \in CPU, SwitchYield(c)
  PROVE  ThreadsInv'
<1>0. ThreadsType /\ CpuInv(c) /\ PlaceInv /\ kpc[c] = "yield"
      /\ UNCHANGED <<t_cpu, lk, cpus, wc_threads, wclock, chan, list, mig>>
  BY Zenon DEF ThreadsInv, SwitchYield
<1> USE DEF cpus
<1>1. CASE /\ \/ c_isidle[c] /\ kpc' = [kpc EXCEPT ![c] = "pick"]
              \/ ~c_isidle[c] /\ kpc' = [kpc EXCEPT ![c] = "thread"]
           /\ UNCHANGED <<t_state, c_runqueue, c_ipi, rqlock, newstate>>
  BY Zenon, <1>0, <1>1, YieldNothingStep DEF threads, queues, locks, locals
<1>2. CASE /\ ~c_isidle[c] /\ rqlock[c] = 0
           /\ MakeRunnable(c, c_curthread[c], t_cpu[c_curthread[c]])
           /\ rqlock' = [rqlock EXCEPT ![c] = c]
           /\ newstate' = [newstate EXCEPT ![c] = "S_READY"]
           /\ kpc' = [kpc EXCEPT ![c] = "placed"]
  <2>a. PICK t \in Thread : t = c_curthread[c]
    BY Zenon, <1>0 DEF ThreadsType
  <2>1. /\ c_isidle[c] = FALSE /\ t_cpu[t] = c /\ list[c] = <<>> /\ rqlock[c] = 0
        /\ t_state' = [t_state EXCEPT ![t] = "S_READY"]
        /\ c_runqueue' = [c_runqueue EXCEPT ![c] = Append(@, t)]
        /\ rqlock' = [rqlock EXCEPT ![c] = c]
        /\ newstate' = [newstate EXCEPT ![c] = "S_READY"]
        /\ kpc' = [kpc EXCEPT ![c] = "placed"]
        /\ Unidle(c, c)
    BY Zenon, <1>0, <1>2, <2>a DEF MakeRunnable, CpuInv, CurthreadInv, MigrationInv, ThreadsType
  <2>2. Content("run", c) = {t} /\ Content("run", c)' = {}
    BY Zenon, <1>0, <2>a, <2>1 DEF Content, Running, ThreadsType
  <2>3. t \notin Content("ready", c)
    BY <2>2, Kinds, NotElsewhere
  <2>4. /\ c_runqueue' \in [CPU -> Queue(Thread)]
        /\ Content("ready", c)' = Content("ready", c) \cup {t}
        /\ \A e \in CPU : e # c => c_runqueue'[e] = c_runqueue[e]
    BY Zenon, <1>0, <2>1, <2>3, Enqueued
  <2>5. c_ipi' \in [CPU -> BOOLEAN] /\ \A e \in CPU : c_ipi[e] = TRUE => c_ipi'[e] = TRUE
    BY Zenon, <1>0, <2>1, Unidled
  <2>6. ThreadsType'
    BY Zenon, <1>0, <2>1, <2>4, <2>5, CpuNumbers DEF ThreadsType, State, KernelPc
  <2>7. ASSUME NEW k \in Kind, NEW x \in CPU \cup Channel, Place(k, x),
               Other(k, x, "ready", c, "run", c)
        PROVE  Content(k, x)' = Content(k, x)
    BY Zenon, <1>0, <2>1, <2>4, <2>7 DEF Content, Running, Migrating, Kind, Place, Other, ThreadsType
  <2>8. Known(t, "ready", c)'
    BY Zenon, <1>0, <2>1, <2>a DEF Known, Becoming, StateAt, ThreadsType
  <2>9. \A u \in Thread : u # t => t_state'[u] = t_state[u] /\ Becoming(u)' = Becoming(u)
    BY <1>0, <2>1, <2>a DEF Becoming, ThreadsType
  <2>10. Moved("ready", c, "run", c, {t})
    BY Zenon, <1>0, <2>2, <2>4, <2>7, <2>8, <2>9 DEF Moved
  <2>11. PlaceInv'
    BY Zenon, <2>10, Kinds, MoveStep
  <2>12. OthersKept(c)
    <3>1. \A e \in CPU : t_state'[c_curthread[e]] # "none"
      BY Zenon, <1>0, <2>1 DEF ThreadsInv, ThreadsType, CpuInv, CurthreadInv
    <3>2. OthersSame(c)
      BY Zenon, <1>0, <2>1 DEF OthersSame, ThreadsType
    <3>3. \A e \in CPU : t_cpu[c_curthread[e]] = e
      BY Zenon DEF ThreadsInv, CpuInv, CurthreadInv
    <3> QED BY ZenonT(60), <1>0, <2>1, <2>4, <2>5, <3>1, <3>2, <3>3 DEF OthersKept, ThreadsType
  <2>13. CpuInv(c)'
    BY <1>0, <2>1, <2>a
       DEF CpuInv, CurthreadInv, IdleInv, SwitchInv, MigrationInv, Migrating, ThreadsType
  <2> QED BY Zenon, <2>6, <2>11, <2>12, <2>13, OthersStep DEF ThreadsInv
<1> QED BY Zenon, <1>1, <1>2 DEF SwitchYield

\* cur->t_state = newstate, for the thread that has just been put somewhere.
LEMMA NewState ==
  ASSUME ThreadsInv, NEW c \in CPU, kpc[c] \in {"placed", "pick"}
  PROVE  LET st == WithNewState(c)
         IN /\ st \in [Thread -> State]
            /\ \A u \in Thread :
                 /\ t_cpu[u] = c => st[u] = Becoming(u)
                 /\ t_cpu[u] # c => st[u] = t_state[u]
                 /\ st[u] # "none" <=> t_state[u] # "none"
                 /\ t_state[u] = "S_READY" /\ Becoming(u) = "S_READY" => st[u] = "S_READY"
<1> DEFINE st == WithNewState(c)
<1>0. ThreadsType /\ CpuInv(c)
  BY Zenon DEF ThreadsInv
<1>1. CASE kpc[c] = "placed"
  <2>1. PICK t \in Thread : t = c_curthread[c] /\ t_cpu[t] = c /\ t_state[t] # "none"
    BY Zenon, <1>0 DEF ThreadsType, CpuInv, CurthreadInv
  <2>2. st = [t_state EXCEPT ![t] = newstate[c]] /\ newstate[c] # "none"
    BY <1>0, <1>1, <2>1 DEF WithNewState, CpuInv, SwitchInv
  <2> HIDE DEF st
  <2>3. st \in [Thread -> State] /\ st[t] = newstate[c]
    BY Zenon, <1>0, <2>2 DEF ThreadsType
  <2>4. \A u \in Thread : u # t => st[u] = t_state[u] /\ (t_cpu[u] = c => Becoming(u) = t_state[u])
    BY <1>0, <2>1, <2>2 DEF ThreadsType, Becoming
  <2>5. Becoming(t) = newstate[c]
    BY Zenon, <1>1, <2>1 DEF Becoming
  <2> QED BY Zenon, <2>1, <2>2, <2>3, <2>4, <2>5 DEF st
<1>2. CASE kpc[c] = "pick"
  <2>1. st = t_state
    BY Zenon, <1>2 DEF WithNewState
  <2> HIDE DEF st
  <2>2. \A u \in Thread : t_cpu[u] = c => Becoming(u) = t_state[u]
    BY Zenon, <1>2 DEF Becoming
  <2> QED BY <1>0, <2>1, <2>2 DEF ThreadsType, st
<1> QED BY Zenon, <1>1, <1>2

\* thread_switch finds no thread to run and idles.
LEMMA GoIdleStep ==
  ASSUME ThreadsInv, NEW c \in CPU, GoIdle(c)
  PROVE  ThreadsInv'
<1>0. ThreadsType /\ CpuInv(c) /\ kpc[c] \in {"placed", "pick"}
  BY DEF ThreadsInv, GoIdle, Picking
<1>1. /\ t_state' = WithNewState(c) /\ c_runqueue[c] = <<>>
      /\ c_isidle' = [c_isidle EXCEPT ![c] = TRUE]
      /\ rqlock' = [rqlock EXCEPT ![c] = 0]
      /\ newstate' = [newstate EXCEPT ![c] = "S_RUN"]
      /\ kpc' = [kpc EXCEPT ![c] = "idle"]
      /\ UNCHANGED <<t_cpu, lk, c_curthread, c_zombies, queues, c_ipi, wclock, chan, list, mig>>
  BY Zenon DEF GoIdle
<1> USE DEF queues
<1>2. /\ t_state' \in [Thread -> State]
      /\ \A u \in Thread :
           /\ t_cpu[u] = c => t_state'[u] = Becoming(u)
           /\ t_cpu[u] # c => t_state'[u] = t_state[u]
           /\ t_state'[u] # "none" <=> t_state[u] # "none"
           /\ t_state[u] = "S_READY" /\ Becoming(u) = "S_READY" => t_state'[u] = "S_READY"
  BY <1>0, <1>1, NewState
<1>3. list[c] = <<>> /\ (kpc[c] = "pick" => c_isidle[c] = TRUE)
      /\ (rqlock[c] = c \/ rqlock[c] = 0)
  BY Zenon, <1>0 DEF CpuInv, MigrationInv, IdleInv, SwitchInv, GoIdle, Picking
<1>a. UNCHANGED <<t_cpu, lk, c_curthread, c_zombies, queues, c_ipi, wclock, chan, list, mig>>
      /\ c_isidle' = [c_isidle EXCEPT ![c] = TRUE]
      /\ rqlock' = [rqlock EXCEPT ![c] = 0]
      /\ newstate' = [newstate EXCEPT ![c] = "S_RUN"]
      /\ kpc' = [kpc EXCEPT ![c] = "idle"]
  BY Zenon, <1>1
<1>4. ThreadsType'
  BY Zenon, <1>0, <1>a, <1>2, CpuNumbers DEF ThreadsType, State, KernelPc
<1>5. ASSUME NEW k \in Kind, NEW x \in CPU \cup Channel, Place(k, x)
      PROVE  Content(k, x)' = Content(k, x)
  BY Zenon, <1>0, <1>a, <1>3, <1>5 DEF Content, Running, Migrating, Kind, Place, ThreadsType
<1>6. \A u \in Thread : Becoming(u)' = Becoming(u)
  <2> SUFFICES ASSUME NEW u \in Thread PROVE Becoming(u)' = Becoming(u)
    BY Zenon
  <2>1. CASE t_cpu[u] = c
    BY Zenon, <1>0, <1>a, <1>2, <2>1 DEF Becoming, ThreadsType
  <2>2. CASE t_cpu[u] # c
    <3>1. t_cpu[u] \in CPU /\ kpc'[t_cpu[u]] = kpc[t_cpu[u]]
            /\ newstate'[t_cpu[u]] = newstate[t_cpu[u]]
      BY Zenon, <1>0, <1>a, <2>2 DEF ThreadsType
    <3>2. t_cpu' = t_cpu /\ c_curthread' = c_curthread /\ t_state'[u] = t_state[u]
      BY Zenon, <1>a, <1>2, <2>2
    <3> QED BY Zenon, <3>1, <3>2 DEF Becoming
  <2> QED BY <2>1, <2>2
<1>7. Stayed
  BY Zenon, <1>a, <1>2, <1>5, <1>6 DEF Stayed
<1>8. PlaceInv'
  BY Zenon, <1>7, StayStep
<1>9. OthersKept(c)
  BY Zenon, <1>0, <1>a, <1>2, <1>3 DEF OthersKept, OthersSame, ThreadsInv, ThreadsType, CpuInv,
      CurthreadInv
<1>10. CpuInv(c)'
  BY <1>0, <1>a, <1>1, <1>2, <1>3
     DEF CpuInv, CurthreadInv, IdleInv, SwitchInv, MigrationInv, Migrating, ThreadsType
<1> QED BY Zenon, <1>4, <1>8, <1>9, <1>10, OthersStep DEF ThreadsInv

\* thread_switch runs the first thread of the run queue.
LEMMA SwitchToStep ==
  ASSUME ThreadsInv, NEW c \in CPU, SwitchTo(c)
  PROVE  ThreadsInv'
<1>0. ThreadsType /\ CpuInv(c) /\ PlaceInv /\ kpc[c] \in {"placed", "pick"}
      /\ c_runqueue[c] # <<>> /\ c_runqueue[c] \in Queue(Thread) /\ c_zombies[c] \in Queue(Thread)
  BY Zenon DEF ThreadsInv, SwitchTo, Picking, ThreadsType
<1>a. PICK n \in Thread : n = Head(c_runqueue[c]) /\ n \in Content("ready", c)
  BY Zenon, <1>0, QueueTail DEF Content
<1>b. PICK z : z = Content("dead", c) /\ z = Range(c_zombies[c])
  BY Zenon DEF Content
<1>1. /\ c_curthread' = [c_curthread EXCEPT ![c] = n]
      /\ c_zombies' = [c_zombies EXCEPT ![c] = <<>>]
      /\ c_runqueue' = [c_runqueue EXCEPT ![c] = Tail(@)]
      /\ c_isidle' = [c_isidle EXCEPT ![c] = FALSE]
      /\ rqlock' = [rqlock EXCEPT ![c] = 0]
      /\ newstate' = [newstate EXCEPT ![c] = "S_RUN"]
      /\ kpc' = [kpc EXCEPT ![c] = "thread"]
      /\ UNCHANGED <<t_cpu, lk, wc_threads, c_ipi, wclock, chan, list, mig>>
  BY Zenon, <1>a DEF SwitchTo, Exorcise
<1>2. t_state' = [t \in Thread |-> IF t \in z THEN "none"
                                   ELSE [WithNewState(c) EXCEPT ![n] = "S_RUN"][t]]
  BY <1>a, <1>b DEF SwitchTo, Exorcise
<1> DEFINE st == WithNewState(c)
<1>3. /\ st \in [Thread -> State]
      /\ \A u \in Thread :
           /\ t_cpu[u] = c => st[u] = Becoming(u)
           /\ t_cpu[u] # c => st[u] = t_state[u]
           /\ st[u] # "none" <=> t_state[u] # "none"
           /\ t_state[u] = "S_READY" /\ Becoming(u) = "S_READY" => st[u] = "S_READY"
  BY Zenon, <1>0, NewState
<1>4. t_state' = [t \in Thread |-> IF t \in z THEN "none" ELSE [st EXCEPT ![n] = "S_RUN"][t]]
  BY Zenon, <1>2
<1> HIDE DEF st
<1>5. /\ t_state' \in [Thread -> State]
      /\ \A u \in Thread : /\ u \in z => t_state'[u] = "none"
                           /\ u \notin z /\ u = n => t_state'[u] = "S_RUN"
                           /\ u \notin z /\ u # n => t_state'[u] = st[u]
  BY Zenon, <1>3, <1>4 DEF State
<1>6. \A u \in z : u \in Thread /\ t_cpu[u] = c /\ u # n /\ t_state[u] # "none"
  BY <1>a, <1>b, AtPlace, NotElsewhere, Kinds DEF Known
<1>7. t_cpu[n] = c /\ t_state[n] # "none" /\ n \notin z
  BY <1>a, <1>6, AtPlace, Kinds DEF Known
<1>8. /\ list[c] = <<>> /\ (kpc[c] = "pick" => c_isidle[c] = TRUE)
      /\ (rqlock[c] = c \/ rqlock[c] = 0)
  BY Zenon, <1>0 DEF CpuInv, MigrationInv, IdleInv, SwitchInv, SwitchTo, Picking
<1>9. /\ Tail(c_runqueue[c]) \in Queue(Thread) /\ <<>> \in Queue(Thread) /\ Range(<<>>) = {}
      /\ Range(Tail(c_runqueue[c])) = Range(c_runqueue[c]) \ {n}
  BY Zenon, <1>0, <1>a, QueueTail, EmptyQueue
<1>10. ThreadsType'
  BY Zenon, <1>0, <1>1, <1>5, <1>9, CpuNumbers DEF ThreadsType, State, KernelPc
<1>11. Transferred("run", c, {n}, z)
  <2>1. /\ Content("run", c) = {} /\ Content("run", c)' = {n}
        /\ Content("dead", c)' = {}
        /\ Content("ready", c)' = Content("ready", c) \ {n}
    BY Zenon, <1>0, <1>1, <1>8, <1>9 DEF Content, Running, ThreadsType
  <2>2. ASSUME NEW k \in Kind, NEW x \in CPU \cup Channel, Place(k, x), ~(k = "run" /\ x = c),
               ~(k = "dead" /\ x = c), ~(k = "ready" /\ x = c)
        PROVE  Content(k, x)' = Content(k, x) /\ Content(k, x) \cap z = {} /\ n \notin Content(k, x)
    <3>1. Content(k, x)' = Content(k, x)
      BY Zenon, <1>0, <1>1, <1>8, <2>2 DEF Content, Running, Migrating, Kind, Place, ThreadsType
    <3>2. n \notin Content(k, x) /\ \A u \in z : u \notin Content(k, x)
      BY Zenon, <1>a, <1>b, <2>2, Kinds, NotElsewhere
    <3> QED BY Zenon, <3>1, <3>2
  <2>3. \A u \in z : u \notin Content("ready", c)
    BY Zenon, <1>b, Kinds, NotElsewhere
  <2>4. Known(n, "run", c)'
    <3>1. t_state'[n] = "S_RUN" /\ kpc'[c] = "thread"
      BY Zenon, <1>0, <1>1, <1>5, <1>7 DEF ThreadsType
    <3> QED BY Zenon, <1>1, <1>7, <3>1 DEF Known, Becoming, StateAt
  <2>5. ASSUME NEW u \in Thread, u # n, u \notin z
        PROVE  Becoming(u)' = Becoming(u) /\ t_state'[u] = st[u] /\ t_cpu'[u] = t_cpu[u]
    <3>1. t_state'[u] = st[u] /\ t_cpu'[u] = t_cpu[u] /\ t_cpu[u] \in CPU
      BY Zenon, <1>0, <1>1, <1>5, <2>5 DEF ThreadsType
    <3>2. CASE t_cpu[u] = c
      BY Zenon, <1>0, <1>1, <1>3, <3>1, <3>2 DEF Becoming, ThreadsType
    <3>3. CASE t_cpu[u] # c
      <4>1. /\ kpc'[t_cpu[u]] = kpc[t_cpu[u]] /\ newstate'[t_cpu[u]] = newstate[t_cpu[u]]
            /\ c_curthread'[t_cpu[u]] = c_curthread[t_cpu[u]]
        BY Zenon, <1>0, <1>1, <3>1, <3>3 DEF ThreadsType
      <4> QED BY <1>3, <3>1, <3>3, <4>1 DEF Becoming
    <3> QED BY Zenon, <3>1, <3>2, <3>3
  <2>6. ASSUME NEW k \in Kind, NEW x \in CPU \cup Channel, Place(k, x), NEW u \in Content(k, x),
               u # n, u \notin z
        PROVE  Known(u, k, x)'
    <3>1. u \in Thread /\ Known(u, k, x)
      BY Zenon, <2>6, AtPlace
    <3> QED BY Zenon, <1>3, <2>5, <2>6, <3>1 DEF Known, StateAt
  <2>7. \A k \in Kind, x \in CPU \cup Channel : Place(k, x) /\ ~(k = "run" /\ x = c) =>
          Content(k, x)' = Content(k, x) \ ({n} \cup z)
    BY <1>b, <2>1, <2>2, <2>3
  <2> QED BY Zenon, <1>3, <1>5, <1>6, <2>1, <2>4, <2>5, <2>6, <2>7 DEF Transferred
<1>12. PlaceInv'
  BY Zenon, <1>0, <1>11, Kinds, Transfer
<1>13. OthersKept(c)
  <2>1. ASSUME NEW d \in CPU, d # c
        PROVE  /\ t_cpu'[c_curthread[d]] = d /\ t_state'[c_curthread[d]] # "none"
               /\ lk'[c_curthread[d]] = lk[c_curthread[d]]
    <3>1. c_curthread[d] \in Thread /\ t_cpu[c_curthread[d]] = d /\ t_state[c_curthread[d]] # "none"
      BY Zenon, <1>0 DEF ThreadsInv, CpuInv, CurthreadInv, ThreadsType
    <3>2. c_curthread[d] \notin z /\ c_curthread[d] # n
      BY Zenon, <1>6, <1>7, <2>1, <3>1
    <3> QED BY Zenon, <1>1, <1>3, <1>5, <3>1, <3>2
  <2> QED BY ZenonT(60), <1>0, <1>1, <1>8, <2>1 DEF OthersKept, OthersSame, ThreadsType
<1>14. CpuInv(c)'
  <2>1. /\ c_curthread'[c] = n /\ kpc'[c] = "thread" /\ c_isidle'[c] = FALSE
        /\ t_state'[n] = "S_RUN"
        /\ list'[c] = <<>> /\ mig'[c] = mig[c]
    BY Zenon, <1>0, <1>1, <1>5, <1>7, <1>8 DEF ThreadsType
  <2> QED BY Zenon, <1>0, <1>1, <1>7, <2>1
          DEF CpuInv, CurthreadInv, IdleInv, SwitchInv, MigrationInv, Migrating
<1> QED BY Zenon, <1>10, <1>12, <1>13, <1>14, OthersStep DEF ThreadsInv

\* wchan_wakeone and wchan_wakeall take threads off the channel.
LEMMA WakeBeginStep ==
  ASSUME ThreadsInv, NEW c \in CPU, NEW w \in Channel, NEW n \in 0 .. Len(wc_threads[w]),
         kpc[c] \in {"thread", "idle"}, WakeBegin(c, w, n)
  PROVE  ThreadsInv'
<1>0. ThreadsType /\ CpuInv(c) /\ PlaceInv /\ wc_threads[w] \in Queue(Thread) /\ list[c] = <<>>
  BY Zenon DEF ThreadsInv, ThreadsType, CpuInv, MigrationInv
<1> DEFINE left == SubSeq(wc_threads[w], 1, n)
           right == SubSeq(wc_threads[w], n + 1, Len(wc_threads[w]))
<1>a. PICK l : l = left
  BY Zenon
<1>b. PICK r : r = right
  BY Zenon
<1>1. /\ wclock' = [wclock EXCEPT ![w] = c]
      /\ wc_threads' = [wc_threads EXCEPT ![w] = r]
      /\ list' = [list EXCEPT ![c] = l]
      /\ chan' = [chan EXCEPT ![c] = w]
      /\ kpc' = [kpc EXCEPT ![c] = "wake"]
      /\ UNCHANGED <<threads, cpus, c_runqueue, c_ipi, rqlock, newstate, mig>>
  BY <1>a, <1>b DEF WakeBegin
<1> USE DEF threads, cpus
<1>2. /\ l \in Queue(Thread) /\ r \in Queue(Thread)
      /\ Range(l) \cup Range(r) = Range(wc_threads[w]) /\ Range(l) \cap Range(r) = {}
  BY Zenon, <1>0, <1>a, <1>b, QueueCut
<1>3. ThreadsType'
  BY Zenon, <1>0, <1>1, <1>2, CpuNumbers DEF ThreadsType, KernelPc
<1>4. /\ Content("sleep", w) = Range(l) \cup Range(r) /\ Content("sleep", w)' = Range(r)
      /\ Content("woken", c) = {} /\ Content("woken", c)' = Range(l)
  BY Zenon, <1>0, <1>1, <1>2 DEF Content, ThreadsType
<1>5. ASSUME NEW k \in Kind, NEW x \in CPU \cup Channel, Place(k, x),
             Other(k, x, "woken", c, "sleep", w)
      PROVE  Content(k, x)' = Content(k, x)
  BY Zenon, <1>0, <1>1, <1>5 DEF Content, Running, Migrating, Kind, Place, Other, ThreadsType
<1>6. \A u \in Thread : Becoming(u)' = Becoming(u)
  BY Zenon, <1>0, <1>1 DEF Becoming, ThreadsType
<1>7. ASSUME NEW u \in Range(l) PROVE Known(u, "woken", c)'
  <2>1. u \in Thread /\ Known(u, "sleep", w)
    BY Zenon, <1>4, AtPlace, Kinds
  <2> QED BY Zenon, <1>1, <1>6, <2>1 DEF Known, StateAt
<1>8. Moved("woken", c, "sleep", w, Range(l))
  BY Zenon, <1>1, <1>2, <1>4, <1>5, <1>6, <1>7 DEF Moved
<1>9. PlaceInv'
  BY Zenon, <1>8, Kinds, MoveStep
<1>10. OthersKept(c)
  BY Zenon, <1>0, <1>1 DEF OthersKept, OthersSame, ThreadsInv, ThreadsType, CpuInv, CurthreadInv
<1>11. CpuInv(c)'
  BY Zenon, <1>0, <1>1
     DEF CpuInv, CurthreadInv, IdleInv, SwitchInv, MigrationInv, Migrating, ThreadsType
<1> QED BY Zenon, <1>3, <1>9, <1>10, <1>11, OthersStep DEF ThreadsInv

\* The ways to begin a wakeup: of one thread, of all, or of those on lbolt.
LEMMA WakesStep ==
  ASSUME ThreadsInv, NEW c \in CPU, NEW w \in Channel,
         WakeOne(c, w) \/ WakeAll(c, w) \/ Timerclock(c)
  PROVE  ThreadsInv'
<1>1. ASSUME NEW v \in Channel
      PROVE  /\ Len(wc_threads[v]) \in 0 .. Len(wc_threads[v]) /\ 0 \in 0 .. Len(wc_threads[v])
             /\ wc_threads[v] # <<>> => 1 \in 0 .. Len(wc_threads[v])
  <2>1. wc_threads[v] \in Seq(Thread)
    BY Zenon DEF ThreadsInv, ThreadsType, Queue
  <2>2. Len(wc_threads[v]) \in Nat /\ (wc_threads[v] # <<>> => Len(wc_threads[v]) # 0)
    BY <2>1
  <2> QED BY <2>2
<1>2. CASE WakeOne(c, w)
  BY Zenon, <1>1, <1>2, WakeBeginStep DEF WakeOne, InThread
<1>3. CASE WakeAll(c, w)
  BY Zenon, <1>1, <1>3, WakeBeginStep DEF WakeAll, InThread
<1>4. CASE Timerclock(c)
  BY Zenon, <1>1, <1>4, WakeBeginStep, ThreadsAssumption DEF Timerclock
<1> QED BY Zenon, <1>2, <1>3, <1>4

\* The threads taken off the channel are made runnable one by one.
LEMMA WakeNextStep ==
  ASSUME ThreadsInv, NEW c \in CPU, WakeNext(c)
  PROVE  ThreadsInv'
<1>0. ThreadsType /\ CpuInv(c) /\ PlaceInv /\ kpc[c] = "wake" /\ list[c] \in Queue(Thread)
      /\ list[c] # <<>>
  BY Zenon DEF ThreadsInv, ThreadsType, WakeNext
<1>1. /\ Head(list[c]) \in Range(list[c]) /\ Tail(list[c]) \in Queue(Thread)
      /\ Range(Tail(list[c])) = Range(list[c]) \ {Head(list[c])}
  BY Zenon, <1>0, QueueTail
<1>2. Content("woken", c) = Range(list[c])
  BY Zenon, <1>0 DEF Content
<1>a. PICK t \in Thread : t = Head(list[c]) /\ t \in Content("woken", c) /\ Known(t, "woken", c)
  BY Zenon, <1>1, <1>2, AtPlace, Kinds
<1>b. PICK d \in CPU : d = t_cpu[t]
  BY Zenon, <1>0 DEF ThreadsType
<1>3. /\ rqlock[d] = 0
      /\ t_state' = [t_state EXCEPT ![t] = "S_READY"]
      /\ c_runqueue' = [c_runqueue EXCEPT ![d] = Append(@, t)]
      /\ Unidle(c, d)
      /\ list' = [list EXCEPT ![c] = Tail(@)]
  BY <1>a, <1>b DEF WakeNext, MakeRunnable
<1>4. UNCHANGED <<t_cpu, lk, cpus, wc_threads, locks, kpc, newstate, chan, mig>>
  BY Zenon DEF WakeNext
<1> USE DEF cpus, locks
<1>5. kpc[d] # "placed"
  BY Zenon, <1>3, CpuNumbers DEF ThreadsInv, CpuInv, SwitchInv
<1>6. t \notin Content("ready", d)
  BY Zenon, <1>a, Kinds, NotElsewhere
<1>7. /\ c_runqueue' \in [CPU -> Queue(Thread)]
      /\ Content("ready", d)' = Content("ready", d) \cup {t}
      /\ \A e \in CPU : e # d => c_runqueue'[e] = c_runqueue[e]
      /\ Len(c_runqueue'[d]) = Len(c_runqueue[d]) + 1 /\ Len(c_runqueue[d]) \in Nat
  BY Zenon, <1>0, <1>3, <1>6, Enqueued
<1>8. /\ c_ipi' \in [CPU -> BOOLEAN]
      /\ \A e \in CPU : c_ipi[e] = TRUE => c_ipi'[e] = TRUE
      /\ d # c /\ c_isidle[d] = TRUE => c_ipi'[d] = TRUE
  BY Zenon, <1>0, <1>3, Unidled
<1>9. ThreadsType'
  BY Zenon, <1>0, <1>1, <1>3, <1>4, <1>7, <1>8 DEF ThreadsType, State
<1>10. Content("woken", c)' = Content("woken", c) \ {t}
  BY Zenon, <1>0, <1>1, <1>2, <1>3, <1>4, <1>a DEF Content, ThreadsType
<1>11. ASSUME NEW k \in Kind, NEW x \in CPU \cup Channel, Place(k, x),
              Other(k, x, "ready", d, "woken", c)
       PROVE  Content(k, x)' = Content(k, x)
  BY Zenon, <1>0, <1>3, <1>4, <1>7, <1>11
  DEF Content, Running, Migrating, Kind, Place, Other, ThreadsType
<1>12. Known(t, "ready", d)'
  BY Zenon, <1>0, <1>3, <1>4, <1>5, <1>b DEF Known, Becoming, StateAt, ThreadsType
<1>13. \A u \in Thread : u # t => t_state'[u] = t_state[u] /\ Becoming(u)' = Becoming(u)
  BY Zenon, <1>0, <1>3, <1>4 DEF Becoming, ThreadsType
<1>14. Moved("ready", d, "woken", c, {t})
  BY Zenon, <1>4, <1>7, <1>10, <1>11, <1>12, <1>13, <1>a DEF Moved
<1>15. PlaceInv'
  BY Zenon, <1>14, Kinds, MoveStep
<1>16. OthersKept(c)
  <2>1. \A e \in CPU : t_state'[c_curthread[e]] # "none"
    BY Zenon, <1>0, <1>3 DEF ThreadsInv, ThreadsType, CpuInv, CurthreadInv
  <2>2. ASSUME NEW e \in CPU, e # c
        PROVE  \/ c_runqueue'[e] = c_runqueue[e]
               \/ /\ Len(c_runqueue'[e]) >= Len(c_runqueue[e])
                  /\ c_isidle[e] = TRUE => c_ipi'[e] = TRUE
    <3>1. CASE e = d
      <4>1. Len(c_runqueue'[d]) >= Len(c_runqueue[d])
        BY <1>7
      <4> QED BY Zenon, <1>8, <2>2, <3>1, <4>1
    <3>2. CASE e # d
      BY Zenon, <1>7, <3>2
    <3> QED BY Zenon, <3>1, <3>2
  <2> QED BY ZenonT(60), <1>0, <1>3, <1>4, <1>8, <2>1, <2>2
          DEF OthersKept, OthersSame, ThreadsInv, ThreadsType, CpuInv, CurthreadInv
<1>17. CpuInv(c)'
  BY <1>0, <1>3, <1>4
     DEF CpuInv, CurthreadInv, IdleInv, SwitchInv, MigrationInv, Migrating, ThreadsType
<1> QED BY Zenon, <1>9, <1>15, <1>16, <1>17, OthersStep DEF ThreadsInv

---------------------------------------------------------------------------
(* Migration.                                                              *)

\* The share of a processor is a number.
LEMMA Share ==
  ASSUME NEW n \in Nat
  PROVE  (n + NCPU - 1) \div NCPU \in Nat
<1>1. NCPU \in Nat \ {0} /\ n + NCPU - 1 \in Nat
  BY ThreadsAssumption
<1> QED BY <1>1

\* The run queues are counted one after the other, ...
LEMMA MigrateCountStep ==
  ASSUME ThreadsInv, NEW c \in CPU, MigrateCount(c)
  PROVE  ThreadsInv'
<1> DEFINE m == mig[c]
           my == MyCount(c)
           total == m.total_count + Len(c_runqueue[m.i])
           share == (total + NCPU - 1) \div NCPU
           n1 == [i |-> m.i + 1, my_count |-> my, total_count |-> total, one_share |-> 0,
                  to_send |-> 0]
           n3 == [i |-> 0, my_count |-> 0, total_count |-> 0, one_share |-> share,
                  to_send |-> my - share]
<1>0. ThreadsType /\ CpuInv(c) /\ list[c] = <<>> /\ m \in MigRecord /\ m.i \in CPU
      /\ kpc[c] = "count" /\ m.my_count <= Len(c_runqueue[c])
  BY Zenon DEF ThreadsInv, ThreadsType, CpuInv, MigrationInv, MigrateCount
<1>1. UNCHANGED <<threads, cpus, queues, c_ipi, locks, newstate, chan, list>>
  BY Zenon DEF MigrateCount
<1> USE DEF threads, cpus, queues, locks
<1>2. /\ m.i \in Nat /\ m.my_count \in Nat /\ m.total_count \in Nat
      /\ Len(c_runqueue[c]) \in Nat /\ Len(c_runqueue[m.i]) \in Nat
  <2>1. m.i \in Nat /\ m.my_count \in Nat /\ m.total_count \in Nat
    BY <1>0 DEF MigRecord
  <2>2. c_runqueue[c] \in Queue(Thread) /\ c_runqueue[m.i] \in Queue(Thread)
    BY <1>0 DEF ThreadsType
  <2>3. Len(c_runqueue[c]) \in Nat /\ Len(c_runqueue[m.i]) \in Nat
    BY <2>2 DEF Queue
  <2> QED BY Zenon, <2>1, <2>3
<1>3. my \in Nat /\ my <= Len(c_runqueue[c])
  BY <1>0, <1>2 DEF MyCount
<1>4. total \in Nat
  BY <1>2
<1> HIDE DEF my, total
<1>5. share \in Nat
  BY <1>4, Share
<1> HIDE DEF share
<1>6. CASE m.i < NCPU /\ mig' = [mig EXCEPT ![c] = n1] /\ kpc' = kpc
  <2>1. n1 \in MigRecord /\ n1.i = m.i + 1 /\ n1.my_count = my
    BY <1>2, <1>3, <1>4 DEF MigRecord
  <2> HIDE DEF n1
  <2>2. n1.i \in CPU
    BY <1>2, <1>6, <2>1, ThreadsAssumption DEF CPU
  <2>3. ThreadsType' /\ mig'[c] = n1 /\ kpc' = [kpc EXCEPT ![c] = "count"]
    BY Zenon, <1>0, <1>1, <1>6, <2>1 DEF ThreadsType
  <2>4. CpuInv(c)'
    BY Zenon, <1>0, <1>1, <1>3, <1>6, <2>1, <2>2, <2>3
       DEF CpuInv, CurthreadInv, IdleInv, SwitchInv, MigrationInv, Migrating
  <2>5. GoesOn(c, "count", n1)
    BY Zenon, <1>1, <1>6, <2>3 DEF GoesOn
  <2> QED BY Zenon, <1>0, <1>1, <2>1, <2>3, <2>4, <2>5, GoesOnStep DEF KernelPc
<1>7. CASE mig' = [mig EXCEPT ![c] = NoMigration] /\ kpc' = [kpc EXCEPT ![c] = "yield"]
  <2>1. NoMigration \in MigRecord /\ NoMigration.my_count = 0
    BY DEF NoMigration, MigRecord
  <2>2. ThreadsType' /\ mig'[c] = NoMigration /\ kpc'[c] = "yield"
    BY Zenon, <1>0, <1>1, <1>7, <2>1 DEF ThreadsType, KernelPc
  <2>3. CpuInv(c)'
    BY Zenon, <1>0, <1>1, <2>1, <2>2
       DEF CpuInv, CurthreadInv, IdleInv, SwitchInv, MigrationInv, Migrating
  <2>4. GoesOn(c, "yield", NoMigration)
    BY <1>1, <1>7 DEF GoesOn
  <2> QED BY Zenon, <1>0, <1>1, <2>1, <2>2, <2>3, <2>4, GoesOnStep DEF KernelPc
<1>8. CASE /\ ~BelowShare(my, share) /\ mig' = [mig EXCEPT ![c] = n3]
           /\ kpc' = [kpc EXCEPT ![c] = "take"]
  <2>0. my - share \in Nat /\ my - share <= Len(c_runqueue[c])
    BY <1>2, <1>3, <1>5, <1>8 DEF BelowShare
  <2>1. n3 \in MigRecord /\ n3.my_count = 0 /\ n3.to_send = my - share
    BY Zenon, <1>5, <2>0 DEF MigRecord
  <2> HIDE DEF n3
  <2>2. ThreadsType' /\ mig'[c] = n3 /\ kpc'[c] = "take"
    BY Zenon, <1>0, <1>1, <1>8, <2>1 DEF ThreadsType, KernelPc
  <2>3. CpuInv(c)'
    BY Zenon, <1>0, <1>1, <2>0, <2>1, <2>2
       DEF CpuInv, CurthreadInv, IdleInv, SwitchInv, MigrationInv, Migrating
  <2>4. GoesOn(c, "take", n3)
    BY Zenon, <1>1, <1>8 DEF GoesOn
  <2> QED BY Zenon, <1>0, <1>1, <2>1, <2>2, <2>3, <2>4, GoesOnStep DEF KernelPc
<1> QED BY Zenon, <1>6, <1>7, <1>8 DEF MigrateCount, my, total, share

\* ... the run queue of a receiver is locked, ...
LEMMA MigrateLockStep ==
  ASSUME ThreadsInv, NEW c \in CPU, MigrateLock(c)
  PROVE  ThreadsInv'
<1> DEFINE m == mig[c]
           n == WithI(m, m.i + 1)
<1>0. ThreadsType /\ CpuInv(c) /\ m \in MigRecord /\ kpc[c] = "send" /\ m.i > 0
      /\ m.i <= NCPU /\ m.to_send <= Len(list[c])
  BY Zenon DEF ThreadsInv, ThreadsType, CpuInv, MigrationInv, Migrating, MigrateLock
<1>1. UNCHANGED <<threads, cpus, queues, c_ipi, wclock, newstate, chan, list>>
  BY DEF MigrateLock
<1> USE DEF threads, cpus, queues
<1>2. m.i \in Nat /\ m.i \in CPU /\ m.i + 1 \in Nat
  <2>1. m.i \in Nat
    BY <1>0 DEF MigRecord
  <2> QED BY <1>0, <2>1, ThreadsAssumption DEF CPU
<1>3. CASE mig' = [mig EXCEPT ![c].i = @ + 1] /\ rqlock' = rqlock /\ kpc' = kpc
  <2>0. mig' = [mig EXCEPT ![c] = n] /\ rqlock' = rqlock /\ kpc' = kpc
    BY <1>3 DEF WithI
  <2>1. /\ n \in MigRecord /\ n.i = m.i + 1 /\ n.my_count = m.my_count /\ n.to_send = m.to_send
    BY Zenon, <1>0, <1>2, SetI
  <2> HIDE DEF n
  <2>2. ThreadsType' /\ mig'[c] = n /\ kpc' = [kpc EXCEPT ![c] = "send"]
    BY Zenon, <1>0, <1>1, <2>0, <2>1 DEF ThreadsType
  <2>3. n.i > 0
    BY <1>2, <2>1
  <2>4. CpuInv(c)'
    BY Zenon, <1>0, <1>1, <2>0, <2>1, <2>2, <2>3
       DEF CpuInv, CurthreadInv, IdleInv, SwitchInv, MigrationInv, Migrating
  <2>5. GoesOn(c, "send", n)
    BY Zenon, <1>1, <2>0, <2>2 DEF GoesOn
  <2> QED BY Zenon, <1>0, <1>1, <2>0, <2>1, <2>2, <2>4, <2>5, GoesOnStep DEF KernelPc, Migrating
<1>4. CASE /\ m.i # c /\ rqlock[m.i] = 0 /\ rqlock' = [rqlock EXCEPT ![m.i] = c]
           /\ kpc' = [kpc EXCEPT ![c] = "sending"] /\ mig' = mig
  <2>1. ThreadsType' /\ kpc'[c] = "sending" /\ rqlock'[m.i] = c
    BY Zenon, <1>0, <1>1, <1>2, <1>4, CpuNumbers DEF ThreadsType, KernelPc
  <2>2. CpuInv(c)'
    BY Zenon, <1>0, <1>1, <1>2, <1>4, <2>1
       DEF CpuInv, CurthreadInv, IdleInv, SwitchInv, MigrationInv, Migrating
  <2>3. GoesOn(c, "sending", mig[c])
    BY Zenon, <1>0, <1>1, <1>4, MigAt DEF GoesOn
  <2>4. \A e \in CPU : rqlock[e] # 0 /\ rqlock[e] # c => rqlock'[e] = rqlock[e]
    BY Zenon, <1>0, <1>4 DEF ThreadsType
  <2> QED BY Zenon, <1>0, <1>1, <2>1, <2>2, <2>3, <2>4, GoesOnStep DEF KernelPc, Migrating
<1> QED BY Zenon, <1>3, <1>4 DEF MigrateLock

\* ... and unlocked again.
LEMMA MigrateUnlockStep ==
  ASSUME ThreadsInv, NEW c \in CPU, MigrateUnlock(c)
  PROVE  ThreadsInv'
<1> DEFINE m == mig[c]
           n == WithI(m, m.i + 1)
<1>0. /\ ThreadsType /\ CpuInv(c) /\ m \in MigRecord /\ kpc[c] = "sending" /\ m.i > 0
      /\ m.to_send <= Len(list[c]) /\ m.i \in CPU /\ rqlock[m.i] = c
  BY Zenon DEF ThreadsInv, ThreadsType, CpuInv, MigrationInv, Migrating, MigrateUnlock
<1>1. UNCHANGED <<threads, cpus, queues, c_ipi, wclock, newstate, chan, list>>
  BY DEF MigrateUnlock
<1> USE DEF threads, cpus, queues
<1>2. m.i \in Nat /\ m.i + 1 \in Nat
  <2>1. m.i \in Nat
    BY Zenon, <1>0 DEF MigRecord
  <2> QED BY <2>1
<1>3. /\ mig' = [mig EXCEPT ![c] = n] /\ rqlock' = [rqlock EXCEPT ![m.i] = 0]
      /\ kpc' = [kpc EXCEPT ![c] = "send"]
  BY DEF WithI, MigrateUnlock
<1>4. /\ n \in MigRecord /\ n.i = m.i + 1 /\ n.my_count = m.my_count /\ n.to_send = m.to_send
  BY Zenon, <1>0, <1>2, SetI
<1> HIDE DEF n
<1>5. ThreadsType' /\ mig'[c] = n /\ kpc'[c] = "send"
  BY Zenon, <1>0, <1>1, <1>3, <1>4, CpuNumbers DEF ThreadsType, KernelPc
<1>6. n.i > 0
  BY <1>2, <1>4
<1>7. CpuInv(c)'
  BY Zenon, <1>0, <1>1, <1>3, <1>4, <1>5, <1>6
     DEF CpuInv, CurthreadInv, IdleInv, SwitchInv, MigrationInv, Migrating
<1>8. GoesOn(c, "send", n)
  BY Zenon, <1>1, <1>3 DEF GoesOn
<1>9. \A e \in CPU : rqlock[e] # 0 /\ rqlock[e] # c => rqlock'[e] = rqlock[e]
  BY Zenon, <1>0, <1>3 DEF ThreadsType
<1> QED BY Zenon, <1>0, <1>1, <1>4, <1>5, <1>7, <1>8, <1>9, GoesOnStep DEF KernelPc, Migrating

\* The victims are taken from the tail of the own run queue.
LEMMA MigrateTakeStep ==
  ASSUME ThreadsInv, NEW c \in CPU, MigrateTake(c)
  PROVE  ThreadsInv'
<1>0. ThreadsType /\ CpuInv(c) /\ PlaceInv /\ kpc[c] = "take" /\ c_runqueue[c] \in Queue(Thread)
      /\ mig[c] \in MigRecord /\ mig[c].to_send <= Len(c_runqueue[c])
      /\ list[c] = <<>> /\ mig[c].my_count = 0
  BY Zenon DEF ThreadsInv, ThreadsType, MigrateTake, CpuInv, MigrationInv
<1>1. mig[c].to_send \in Nat /\ Len(c_runqueue[c]) \in Nat
  <2>1. mig[c].to_send \in Nat
    BY Zenon, <1>0 DEF MigRecord
  <2>2. Len(c_runqueue[c]) \in Nat
    BY <1>0 DEF Queue
  <2> QED BY Zenon, <2>1, <2>2
<1>a. PICK keep \in 0 .. Len(c_runqueue[c]) :
        /\ keep = Len(c_runqueue[c]) - mig[c].to_send
        /\ keep + mig[c].to_send = Len(c_runqueue[c])
  BY <1>0, <1>1
<1>b. PICK l : l = SubSeq(c_runqueue[c], 1, keep)
  BY Zenon
<1>c. PICK r : r = SubSeq(c_runqueue[c], keep + 1, Len(c_runqueue[c]))
  BY Zenon
<1>d. PICK m : m = WithI(mig[c], 1)
  BY Zenon
<1>2. /\ list' = [list EXCEPT ![c] = r]
      /\ c_runqueue' = [c_runqueue EXCEPT ![c] = l]
      /\ kpc' = [kpc EXCEPT ![c] = "send"]
      /\ UNCHANGED <<threads, cpus, wc_threads, c_ipi, locks, newstate, chan>>
  BY Zenon, <1>a, <1>b, <1>c DEF MigrateTake
<1>3. mig' = [mig EXCEPT ![c] = m]
  BY Zenon, <1>d DEF MigrateTake, WithI
<1> USE DEF threads, cpus, locks
<1>4. /\ l \in Queue(Thread) /\ r \in Queue(Thread)
      /\ Range(l) \cup Range(r) = Range(c_runqueue[c]) /\ Range(l) \cap Range(r) = {}
      /\ Len(r) = Len(c_runqueue[c]) - keep
  BY <1>0, <1>b, <1>c, QueueCut
<1>5. m \in MigRecord /\ m.i = 1 /\ m.my_count = 0 /\ m.to_send = mig[c].to_send
  BY Zenon, <1>0, <1>d, SetI
<1>6. m.to_send <= Len(r)
  BY <1>1, <1>4, <1>5, <1>a
<1>7. ThreadsType'
  BY Zenon, <1>0, <1>2, <1>3, <1>4, <1>5 DEF ThreadsType, KernelPc
<1>8. /\ Content("ready", c) = Range(l) \cup Range(r) /\ Content("ready", c)' = Range(l)
      /\ Content("victim", c) = {} /\ Content("victim", c)' = Range(r)
  BY Zenon, <1>0, <1>2, <1>4 DEF Content, Migrating, ThreadsType
<1>9. ASSUME NEW k \in Kind, NEW x \in CPU \cup Channel, Place(k, x),
             Other(k, x, "victim", c, "ready", c)
      PROVE  Content(k, x)' = Content(k, x)
  BY Zenon, <1>0, <1>2, <1>9 DEF Content, Running, Migrating, Kind, Place, Other, ThreadsType
<1>10. \A u \in Thread : Becoming(u)' = Becoming(u)
  BY Zenon, <1>0, <1>2 DEF Becoming, ThreadsType
<1>11. ASSUME NEW u \in Range(r) PROVE Known(u, "victim", c)'
  <2>1. u \in Thread /\ Known(u, "ready", c)
    BY Zenon, <1>8, AtPlace, Kinds
  <2> QED BY Zenon, <1>2, <1>10, <2>1 DEF Known, StateAt
<1>12. Moved("victim", c, "ready", c, Range(r))
  BY Zenon, <1>2, <1>4, <1>8, <1>9, <1>10, <1>11 DEF Moved
<1>13. PlaceInv'
  BY Zenon, <1>12, Kinds, MoveStep
<1>14. OthersKept(c)
  BY Zenon, <1>0, <1>2, <1>3 DEF OthersKept, OthersSame, ThreadsInv, ThreadsType, CpuInv,
      CurthreadInv
<1>15. CpuInv(c)'
  <2>1. mig'[c] = m /\ list'[c] = r /\ kpc'[c] = "send"
    BY Zenon, <1>0, <1>2, <1>3 DEF ThreadsType
  <2> QED BY <1>0, <1>2, <1>5, <1>6, <2>1
          DEF CpuInv, CurthreadInv, IdleInv, SwitchInv, MigrationInv, Migrating
<1> QED BY Zenon, <1>7, <1>13, <1>14, <1>15, OthersStep DEF ThreadsInv

\* The sending loop has a victim to look at.
LEMMA SendingHas ==
  ASSUME ThreadsInv, NEW c \in CPU, Sending(c)
  PROVE  /\ kpc[c] = "sending" /\ mig[c].i \in CPU /\ mig[c].i # c /\ rqlock[mig[c].i] = c
         /\ list[c] \in Queue(Thread) /\ list[c] # <<>> /\ Len(list[c]) \in Nat
         /\ mig[c] \in MigRecord /\ mig[c].to_send - 1 \in Nat /\ mig[c].my_count = 0
         /\ mig[c].to_send - 1 <= Len(list[c]) - 1 /\ mig[c].i > 0
<1>0. ThreadsType /\ CpuInv(c) /\ kpc[c] = "sending"
  BY Zenon DEF ThreadsInv, Sending
<1>1. /\ mig[c].i \in CPU /\ mig[c].i # c /\ rqlock[mig[c].i] = c
      /\ mig[c] \in MigRecord /\ list[c] \in Queue(Thread) /\ mig[c].my_count = 0
      /\ mig[c].to_send <= Len(list[c]) /\ mig[c].i > 0 /\ mig[c].to_send > 0
  BY <1>0 DEF ThreadsType, CpuInv, MigrationInv, Migrating, Sending
<1>2. mig[c].to_send \in Nat
  BY Zenon, <1>1 DEF MigRecord
<1>3. list[c] \in Seq(Thread)
  BY Zenon, <1>1 DEF Queue
<1>4. Len(list[c]) \in Nat /\ (list[c] = <<>> => Len(list[c]) = 0)
  BY Zenon, <1>3, QueueEmpty
<1> QED BY <1>0, <1>1, <1>2, <1>4

\* curthread goes to the end of the list of victims and is not sent.
LEMMA MigrateSkipStep ==
  ASSUME ThreadsInv, NEW c \in CPU, MigrateSkip(c)
  PROVE  ThreadsInv'
<1>0. ThreadsType /\ CpuInv(c) /\ Sending(c)
  BY DEF ThreadsInv, MigrateSkip
<1>a. PICK l : l = Append(Tail(list[c]), Head(list[c]))
  BY Zenon
<1>b. PICK m : m = WithToSend(mig[c], mig[c].to_send - 1)
  BY Zenon
<1>1. /\ list' = [list EXCEPT ![c] = l] /\ mig' = [mig EXCEPT ![c] = m]
      /\ UNCHANGED <<threads, cpus, queues, c_ipi, locks, kpc, newstate, chan>>
  BY Zenon, <1>a, <1>b DEF MigrateSkip, WithToSend
<1> USE DEF threads, cpus, queues, locks
<1>2. l \in Queue(Thread) /\ Range(l) = Range(list[c]) /\ Len(l) = Len(list[c])
  <2>1. /\ Head(list[c]) \in Thread /\ Head(list[c]) \in Range(list[c])
        /\ Tail(list[c]) \in Queue(Thread)
        /\ Range(Tail(list[c])) = Range(list[c]) \ {Head(list[c])}
        /\ Len(Tail(list[c])) = Len(list[c]) - 1 /\ Len(list[c]) \in Nat \ {0}
    BY Zenon, <1>0, SendingHas, QueueTail
  <2>2. l \in Queue(Thread) /\ Range(l) = Range(Tail(list[c])) \cup {Head(list[c])}
    BY <1>a, <2>1, QueueAppend
  <2>3. Len(l) = Len(Tail(list[c])) + 1
    BY <1>a, <2>1 DEF Queue
  <2> QED BY <2>1, <2>2, <2>3
<1>3. /\ m \in MigRecord /\ m.i = mig[c].i /\ m.my_count = 0 /\ m.to_send = mig[c].to_send - 1
  BY <1>0, <1>b, SendingHas, SetToSend
<1>4. m.to_send <= Len(l)
  BY <1>0, <1>2, <1>3, SendingHas
<1>5. ThreadsType'
  BY Zenon, <1>0, <1>1, <1>2, <1>3 DEF ThreadsType
<1>6. ASSUME NEW k \in Kind, NEW x \in CPU \cup Channel, Place(k, x)
      PROVE  Content(k, x)' = Content(k, x)
  BY <1>0, <1>1, <1>2, <1>6 DEF Content, Running, Migrating, Kind, Place, ThreadsType
<1>7. Stayed
  BY Zenon, <1>1, <1>6 DEF Stayed, Becoming
<1>8. PlaceInv'
  BY Zenon, <1>7, StayStep
<1>9. OthersKept(c)
  BY Zenon, <1>0, <1>1 DEF OthersKept, OthersSame, ThreadsInv, ThreadsType, CpuInv, CurthreadInv
<1>10. CpuInv(c)'
  <2>1. mig'[c] = m /\ list'[c] = l /\ kpc'[c] = "sending"
    BY Zenon, <1>0, <1>1, SendingHas DEF ThreadsType
  <2> QED BY <1>0, <1>1, <1>3, <1>4, <2>1, SendingHas
          DEF CpuInv, CurthreadInv, IdleInv, SwitchInv, MigrationInv, Migrating
<1> QED BY Zenon, <1>5, <1>8, <1>9, <1>10, OthersStep DEF ThreadsInv

\* A victim is sent to another processor, which is interrupted if it idles.
LEMMA MigrateSendStep ==
  ASSUME ThreadsInv, NEW c \in CPU, MigrateSend(c)
  PROVE  ThreadsInv'
<1>0. ThreadsType /\ CpuInv(c) /\ Sending(c)
  BY DEF ThreadsInv, MigrateSend
<1>1. /\ Head(list[c]) \in Range(list[c]) /\ Tail(list[c]) \in Queue(Thread)
      /\ Range(Tail(list[c])) = Range(list[c]) \ {Head(list[c])}
      /\ Len(Tail(list[c])) = Len(list[c]) - 1
  BY Zenon, <1>0, SendingHas, QueueTail
<1>2. Content("victim", c) = Range(list[c])
  BY Zenon, <1>0, SendingHas DEF Content, Migrating
<1>a. PICK t \in Thread : t = Head(list[c]) /\ t \in Content("victim", c) /\ Known(t, "victim", c)
  BY Zenon, <1>1, <1>2, AtPlace, Kinds
<1>b. PICK d \in CPU : d = mig[c].i /\ d # c /\ rqlock[d] = c
  BY Zenon, <1>0, SendingHas
<1>c. PICK m : m = WithToSend(mig[c], mig[c].to_send - 1)
  BY Zenon
<1>3. /\ t # c_curthread[c]
      /\ t_cpu' = [t_cpu EXCEPT ![t] = d]
      /\ c_runqueue' = [c_runqueue EXCEPT ![d] = Append(@, t)]
      /\ Unidle(c, d)
      /\ list' = [list EXCEPT ![c] = Tail(@)]
      /\ UNCHANGED <<t_state, lk, cpus, wc_threads, locks, kpc, newstate, chan>>
  BY Zenon, <1>a, <1>b DEF MigrateSend, SetCpu, IsCurthread
<1>4. mig' = [mig EXCEPT ![c] = m]
  BY Zenon, <1>c DEF MigrateSend, WithToSend
<1> USE DEF cpus, locks
<1>5. /\ m \in MigRecord /\ m.i = mig[c].i /\ m.my_count = 0 /\ m.to_send = mig[c].to_send - 1
  BY <1>0, <1>c, SendingHas, SetToSend
<1>6. t_cpu[t] = c /\ t_state[t] = "S_READY" /\ \A e \in CPU : c_curthread[e] # t
  BY Zenon, <1>a, <1>3 DEF Known, ThreadsInv, CpuInv, CurthreadInv
<1>7. t \notin Content("ready", d)
  BY Zenon, <1>a, Kinds, NotElsewhere
<1>8. /\ c_runqueue' \in [CPU -> Queue(Thread)]
      /\ Content("ready", d)' = Content("ready", d) \cup {t}
      /\ \A e \in CPU : e # d => c_runqueue'[e] = c_runqueue[e]
      /\ Len(c_runqueue'[d]) = Len(c_runqueue[d]) + 1 /\ Len(c_runqueue[d]) \in Nat
  BY Zenon, <1>0, <1>3, <1>7, Enqueued
<1>9. /\ c_ipi' \in [CPU -> BOOLEAN]
      /\ \A e \in CPU : c_ipi[e] = TRUE => c_ipi'[e] = TRUE
      /\ d # c /\ c_isidle[d] = TRUE => c_ipi'[d] = TRUE
  BY Zenon, <1>0, <1>3, Unidled
<1>10. ThreadsType'
  BY Zenon, <1>0, <1>1, <1>3, <1>4, <1>5, <1>8, <1>9 DEF ThreadsType
<1>11. Content("victim", c)' = Content("victim", c) \ {t}
  BY Zenon, <1>0, <1>1, <1>2, <1>3, <1>a, SendingHas DEF Content, Migrating, ThreadsType
<1>12. ASSUME NEW k \in Kind, NEW x \in CPU \cup Channel, Place(k, x),
              Other(k, x, "ready", d, "victim", c)
       PROVE  Content(k, x)' = Content(k, x)
  <2>1. kpc[c] = "sending"
    BY Zenon, <1>0, SendingHas
  <2> QED BY Zenon, <1>0, <1>3, <1>8, <1>12, <2>1 DEF Content, Running, Migrating, Kind, Place, Other,
      ThreadsType
<1>13. Known(t, "ready", d)'
  BY Zenon, <1>0, <1>3, <1>6 DEF Known, Becoming, StateAt, ThreadsType
<1>14. \A u \in Thread : u # t => t_cpu'[u] = t_cpu[u] /\ Becoming(u)' = Becoming(u)
  BY Zenon, <1>0, <1>3 DEF Becoming, ThreadsType
<1>15. Moved("ready", d, "victim", c, {t})
  BY Zenon, <1>3, <1>8, <1>11, <1>12, <1>13, <1>14, <1>a DEF Moved
<1>16. PlaceInv'
  BY Zenon, <1>15, Kinds, MoveStep
<1>17. OthersKept(c)
  <2>1. \A e \in CPU : t_cpu'[c_curthread[e]] = e /\ t_state'[c_curthread[e]] # "none"
    BY Zenon, <1>0, <1>3, <1>6 DEF ThreadsInv, ThreadsType, CpuInv, CurthreadInv
  <2>2. ASSUME NEW e \in CPU, e # c
        PROVE  \/ c_runqueue'[e] = c_runqueue[e]
               \/ /\ Len(c_runqueue'[e]) >= Len(c_runqueue[e])
                  /\ c_isidle[e] = TRUE => c_ipi'[e] = TRUE
    BY <1>8, <1>9, <2>2
  <2> QED BY <1>0, <1>3, <1>4, <1>9, <2>1, <2>2 DEF OthersKept, OthersSame, ThreadsType
<1>18. CpuInv(c)'
  <2>1. mig'[c] = m /\ list'[c] = Tail(list[c]) /\ kpc'[c] = "sending"
        /\ m.to_send <= Len(Tail(list[c]))
    BY Zenon, <1>0, <1>1, <1>3, <1>4, <1>5, SendingHas DEF ThreadsType
  <2>2. t_cpu'[c_curthread[c]] = c
    BY <1>0, <1>3, <1>6 DEF CpuInv, CurthreadInv, ThreadsType
  <2> QED BY Zenon, <1>0, <1>3, <1>5, <2>1, <2>2, SendingHas
          DEF CpuInv, CurthreadInv, IdleInv, SwitchInv, MigrationInv, Migrating
<1> QED BY Zenon, <1>10, <1>16, <1>17, <1>18, OthersStep DEF ThreadsInv

\* What is left of the victims goes back to the own run queue.
LEMMA MigrateEndStep ==
  ASSUME ThreadsInv, NEW c \in CPU, MigrateEnd(c)
  PROVE  ThreadsInv'
<1>0. ThreadsType /\ CpuInv(c) /\ kpc[c] = "send" /\ c_runqueue[c] \in Queue(Thread)
      /\ list[c] \in Queue(Thread)
  BY DEF ThreadsInv, ThreadsType, MigrateEnd
<1>a. PICK q : q = c_runqueue[c] \o list[c]
  BY Zenon
<1>1. /\ c_runqueue' = [c_runqueue EXCEPT ![c] = q]
      /\ list' = [list EXCEPT ![c] = <<>>]
      /\ mig' = [mig EXCEPT ![c] = NoMigration]
      /\ kpc' = [kpc EXCEPT ![c] = "yield"]
      /\ UNCHANGED <<threads, cpus, wc_threads, c_ipi, locks, newstate, chan>>
  BY Zenon, <1>a DEF MigrateEnd, PutBack
<1> USE DEF threads, cpus, locks
<1>2. NoMigration \in MigRecord /\ NoMigration.my_count = 0
  BY DEF NoMigration, MigRecord
<1>3. Content("victim", c) = Range(list[c]) /\ Content("ready", c) = Range(c_runqueue[c])
  BY Zenon, <1>0 DEF Content, Migrating
<1>4. Range(c_runqueue[c]) \cap Range(list[c]) = {}
  BY <1>3, Kinds, NotElsewhere
<1>5. q \in Queue(Thread) /\ Range(q) = Range(c_runqueue[c]) \cup Range(list[c])
      /\ <<>> \in Queue(Thread) /\ Range(<<>>) = {}
  BY <1>0, <1>4, <1>a, QueueConcat, EmptyQueue
<1>6. ThreadsType'
  BY Zenon, <1>0, <1>1, <1>2, <1>5 DEF ThreadsType, KernelPc
<1>7. Content("victim", c)' = {} /\ Content("ready", c)' = Range(q)
  BY Zenon, <1>0, <1>1 DEF Content, Migrating, ThreadsType
<1>8. ASSUME NEW k \in Kind, NEW x \in CPU \cup Channel, Place(k, x),
             Other(k, x, "ready", c, "victim", c)
      PROVE  Content(k, x)' = Content(k, x)
  BY Zenon, <1>0, <1>1, <1>8 DEF Content, Running, Migrating, Kind, Place, Other, ThreadsType
<1>9. \A u \in Thread : Becoming(u)' = Becoming(u)
  BY Zenon, <1>0, <1>1 DEF Becoming, ThreadsType
<1>10. ASSUME NEW u \in Range(list[c]) PROVE Known(u, "ready", c)'
  <2>1. u \in Thread /\ Known(u, "victim", c)
    BY Zenon, <1>3, AtPlace, Kinds
  <2> QED BY Zenon, <1>1, <1>9, <2>1 DEF Known, StateAt
<1>11. Moved("ready", c, "victim", c, Range(list[c]))
  BY Zenon, <1>1, <1>3, <1>5, <1>7, <1>8, <1>9, <1>10 DEF Moved
<1>12. PlaceInv'
  BY Zenon, <1>11, Kinds, MoveStep
<1>13. OthersKept(c)
  BY Zenon, <1>0, <1>1 DEF OthersKept, OthersSame, ThreadsInv, ThreadsType, CpuInv, CurthreadInv
<1>14. CpuInv(c)'
  <2>1. mig'[c] = NoMigration /\ list'[c] = <<>> /\ kpc'[c] = "yield"
    BY <1>0, <1>1 DEF ThreadsType
  <2> QED BY Zenon, <1>0, <1>1, <1>2, <2>1
          DEF CpuInv, CurthreadInv, IdleInv, SwitchInv, MigrationInv, Migrating
<1> QED BY Zenon, <1>6, <1>12, <1>13, <1>14, OthersStep DEF ThreadsInv

---------------------------------------------------------------------------
(* The invariant, and what it says.                                        *)

\* At first every processor runs its own thread.
LEMMA ThreadsInvInit == Init => ThreadsInv
<1> SUFFICES ASSUME Init PROVE ThreadsInv
  OBVIOUS
<1>1. /\ c_curthread \in [CPU -> Thread] /\ IsInjective(c_curthread)
      /\ \A t \in Thread :
           t_state[t] = IF \E c \in CPU : c_curthread[c] = t THEN "S_RUN" ELSE "none"
      /\ \A c \in CPU : kpc[c] = "thread" /\ c_isidle[c] = FALSE /\ c_runqueue[c] = <<>>
                        /\ c_zombies[c] = <<>> /\ list[c] = <<>> /\ mig[c] = NoMigration
      /\ \A w \in Channel : wc_threads[w] = <<>>
  BY DEF Init
<1>2. \A c, d \in CPU : c_curthread[c] = c_curthread[d] => c = d
  BY Zenon, <1>1 DEF IsInjective
<1>3. \A c \in CPU : t_cpu[c_curthread[c]] = c
  BY Zenon, <1>1, <1>2 DEF Init
<1>4. t_cpu \in [Thread -> CPU]
  <2>1. 1 \in CPU
    BY ThreadsAssumption DEF CPU
  <2>2. \A t \in Thread : t_cpu[t] \in CPU
    BY Zenon, <2>1 DEF Init
  <2> QED BY <2>2 DEF Init
<1>5. NoMigration \in MigRecord /\ NoMigration.my_count = 0
  BY DEF NoMigration, MigRecord
<1>6. <<>> \in Queue(Thread) /\ Range(<<>>) = {}
  BY Zenon, EmptyQueue
<1>7. ThreadsType
  <2>1. t_state \in [Thread -> State]
    BY DEF Init, State
  <2> QED BY Zenon, <1>4, <1>5, <1>6, <2>1, CpuNumbers DEF Init, ThreadsType, KernelPc, State
<1>8. /\ \A c \in CPU : /\ Content("run", c) = {c_curthread[c]} /\ Content("ready", c) = {}
                        /\ Content("dead", c) = {} /\ Content("woken", c) = {}
                        /\ Content("victim", c) = {}
      /\ \A w \in Channel : Content("sleep", w) = {}
  BY Zenon, <1>1, <1>6 DEF Content, Running, Migrating
<1>9. \A k \in Kind, x \in CPU \cup Channel : Place(k, x) /\ k # "run" => Content(k, x) = {}
  BY Zenon, <1>8 DEF Kind, Place
<1>10. OnePlace
  <2> SUFFICES ASSUME NEW k \in Kind, NEW l \in Kind, NEW x \in CPU \cup Channel,
                      NEW y \in CPU \cup Channel, Place(k, x), Place(l, y),
                      NEW t \in Content(k, x), t \in Content(l, y)
               PROVE  k = l /\ x = y
    BY Zenon DEF OnePlace
  <2>1. k = "run" /\ l = "run" /\ x \in CPU /\ y \in CPU
    BY Zenon, <1>9 DEF Place
  <2> QED BY <1>2, <1>8, <2>1
<1>11. SomePlace
  <2> SUFFICES ASSUME NEW t \in Thread, t_state[t] # "none"
               PROVE  \E k \in Kind, x \in CPU \cup Channel : Place(k, x) /\ t \in Content(k, x)
    BY DEF SomePlace
  <2>1. PICK c \in CPU : c_curthread[c] = t
    BY <1>1
  <2> QED BY Zenon, <1>8, <2>1, Kinds
<1>12. AllKnown
  <2> SUFFICES ASSUME NEW k \in Kind, NEW x \in CPU \cup Channel, Place(k, x),
                      NEW t \in Content(k, x)
               PROVE  Known(t, k, x)
    BY Zenon DEF AllKnown
  <2>1. k = "run" /\ x \in CPU /\ t = c_curthread[x] /\ t \in Thread
    BY <1>1, <1>8, <1>9 DEF Place
  <2> QED BY Zenon, <1>1, <1>3, <2>1 DEF Known, Becoming, StateAt
<1>13. ASSUME NEW c \in CPU PROVE CpuInv(c)
  BY Zenon, <1>1, <1>3, <1>5 DEF CpuInv, CurthreadInv, IdleInv, SwitchInv, MigrationInv, Migrating
<1> QED BY Zenon, <1>7, <1>10, <1>11, <1>12, <1>13 DEF ThreadsInv, PlaceInv

\* Every step of every processor keeps the invariant, ...
LEMMA ThreadsInvNext == ThreadsInv /\ [Next]_vars => ThreadsInv'
<1> SUFFICES ASSUME ThreadsInv, [Next]_vars PROVE ThreadsInv'
  OBVIOUS
<1>1. CASE UNCHANGED vars
  <2>1. UNCHANGED <<t_state, t_cpu, lk, c_curthread, c_zombies, c_isidle, c_runqueue, wc_threads,
                    c_ipi, rqlock, wclock, kpc, newstate, chan, list, mig>>
    BY Zenon, <1>1 DEF vars, threads, cpus, queues, locks, locals
  <2>2. ThreadsType'
    BY Zenon, <2>1 DEF ThreadsInv, ThreadsType
  <2>3. Stayed
    BY Zenon, <2>1 DEF Stayed, Content, Running, Migrating, Becoming
  <2>4. \A c \in CPU : CpuInv(c)'
    BY ZenonT(60), <2>1 DEF ThreadsInv, CpuInv, CurthreadInv, IdleInv, SwitchInv, MigrationInv, Migrating
  <2> QED BY Zenon, <2>2, <2>3, <2>4, StayStep DEF ThreadsInv
<1>2. ASSUME NEW c \in CPU, Continue(c) PROVE ThreadsInv'
  BY <1>2, SwitchSleepStep, SleepEndStep, SwitchYieldStep, GoIdleStep, SwitchToStep,
     WakeNextStep, WakeEndStep, MigrateCountStep, MigrateTakeStep, MigrateLockStep,
     MigrateSkipStep, MigrateSendStep, MigrateUnlockStep, MigrateEndStep,
     InterprocessorInterruptStep DEF Continue
<1>3. ASSUME NEW c \in CPU, Choose(c) PROVE ThreadsInv'
  <2>1. lbolt \in Channel
    BY ThreadsAssumption
  <2> QED BY Zenon, <1>3, <2>1, ForkStep, SleepBeginStep, WakesStep, SwitchExitStep,
      HardclockStep DEF Choose
<1> QED BY Zenon, <1>1, <1>2, <1>3 DEF Next

\* ... which therefore holds always.
LEMMA ThreadsInvAlways == Spec => []ThreadsInv
  BY ThreadsInvInit, ThreadsInvNext, PTL DEF Spec

\* Every variable keeps its type on any number of processors; the unsigned counts of
\* thread_consider_migration never wrap.
THEOREM ThreadsTypeCorrect == Spec => []TypeOK
<1>1. ThreadsInv => TypeOK
  <2> SUFFICES ASSUME ThreadsInv PROVE TypeOK
    OBVIOUS
  <2>1. ASSUME NEW c \in CPU
        PROVE  {mig[c].my_count, mig[c].total_count, mig[c].to_send} \subseteq Nat
    <3>1. mig[c] \in MigRecord
      BY Zenon DEF ThreadsInv, ThreadsType
    <3> QED BY Zenon, <3>1 DEF MigRecord
  <2>2. \A c \in CPU : {c_runqueue[c], c_zombies[c], list[c]} \subseteq Seq(Thread)
    BY ZenonT(60) DEF ThreadsInv, ThreadsType, Queue
  <2>3. \A w \in Channel : wc_threads[w] \in Seq(Thread)
    BY DEF ThreadsInv, ThreadsType, Queue
  <2> QED BY Zenon, <2>1, <2>2, <2>3 DEF ThreadsInv, ThreadsType, TypeOK, State
<1> QED BY <1>1, ThreadsInvAlways, PTL

\* Stacks: no two processors are on the same one and none is freed under a processor,
\* because a processor's curthread is always a thread of that processor.
THEOREM StacksAreNotShared == Spec => []NoSharedStack
<1>1. ThreadsInv => NoSharedStack
  BY DEF ThreadsInv, CpuInv, CurthreadInv, NoSharedStack
<1> QED BY <1>1, ThreadsInvAlways, PTL

\* A thread that runs or is ready is on the processor that t_cpu names.
THEOREM ThreadsKnowTheirCpu == Spec => []ThreadKnowsItsCpu
<1>1. ThreadsInv => ThreadKnowsItsCpu
  <2> SUFFICES ASSUME ThreadsInv, NEW c \in CPU
               PROVE  /\ t_cpu[c_curthread[c]] = c
                      /\ \A i \in DOMAIN c_runqueue[c] : t_cpu[c_runqueue[c][i]] = c
    BY DEF ThreadKnowsItsCpu
  <2>1. \A i \in DOMAIN c_runqueue[c] : c_runqueue[c][i] \in Content("ready", c)
    BY Zenon DEF Content, Range
  <2>2. \A t \in Content("ready", c) : t_cpu[t] = c
    BY AtPlace, Kinds DEF Known
  <2> QED BY Zenon, <2>1, <2>2 DEF ThreadsInv, CpuInv, CurthreadInv
<1> QED BY <1>1, ThreadsInvAlways, PTL

\* A processor waits in cpu_idle with work on its queue only until a pending interrupt.
THEOREM IdleCpusAreInterrupted == Spec => []IdleCpuWithWorkIsInterrupted
<1>1. ThreadsInv => IdleCpuWithWorkIsInterrupted
  BY DEF ThreadsInv, CpuInv, IdleInv, IdleCpuWithWorkIsInterrupted
<1> QED BY <1>1, ThreadsInvAlways, PTL

\* The stale counts of thread_consider_migration never make it take or send a thread
\* that is not there.
THEOREM MigrationFindsItsVictims == Spec => []MigrationHasVictims
<1>1. ThreadsInv => MigrationHasVictims
  BY Zenon DEF ThreadsInv, CpuInv, MigrationInv, Migrating, MigrationHasVictims
<1> QED BY <1>1, ThreadsInvAlways, PTL

\* A queue holds a thread at one index.
LEMMA OneIndex ==
  ASSUME NEW q \in Queue(Thread), NEW i \in DOMAIN q, NEW j \in DOMAIN q, q[i] = q[j]
  PROVE  i = j
  BY DEF Queue, IsInjective

\* What InPlaces says of a member p of Places(t), and that t is at (k, x) and nowhere else.
PlaceOf(t, p) ==
  \/ \E c \in CPU : p = <<"run", c>> /\ c_curthread[c] = t /\ ~c_isidle[c] /\ kpc[c] # "placed"
  \/ \E c \in CPU : \E i \in DOMAIN c_runqueue[c] : p = <<"ready", c, i>> /\ c_runqueue[c][i] = t
  \/ \E c \in CPU : \E i \in DOMAIN c_zombies[c] : p = <<"dead", c, i>> /\ c_zombies[c][i] = t
  \/ \E c \in CPU : \E i \in DOMAIN list[c] : p = <<"list", c, i>> /\ list[c][i] = t
  \/ \E w \in Channel : \E i \in DOMAIN wc_threads[w] :
          p = <<"sleep", w, i>> /\ wc_threads[w][i] = t

OnlyAt(t, k, x) ==
  /\ \A c \in CPU : c_curthread[c] = t /\ ~c_isidle[c] /\ kpc[c] # "placed" => k = "run" /\ c = x
  /\ \A c \in CPU : \A i \in DOMAIN c_runqueue[c] :
        c_runqueue[c][i] = t => k = "ready" /\ c = x
  /\ \A c \in CPU : \A i \in DOMAIN c_zombies[c] : c_zombies[c][i] = t => k = "dead" /\ c = x
  /\ \A c \in CPU : \A i \in DOMAIN list[c] :
        list[c][i] = t => k \in {"woken", "victim"} /\ c = x
  /\ \A w \in Channel : \A i \in DOMAIN wc_threads[w] :
        wc_threads[w][i] = t => k = "sleep" /\ w = x

\* The members of Places(t), written out.
LEMMA InPlaces ==
  ASSUME NEW t \in Thread, NEW p
  PROVE  p \in Places(t) <=> PlaceOf(t, p)
<1> DEFINE run == {<<"run", c>> : c \in {d \in CPU : /\ c_curthread[d] = t
                                                     /\ ~c_isidle[d]
                                                     /\ kpc[d] # "placed"}}
           ready(c) == {<<"ready", c, i>> :
                         i \in {j \in DOMAIN c_runqueue[c] : c_runqueue[c][j] = t}}
           dead(c) == {<<"dead", c, i>> : i \in {j \in DOMAIN c_zombies[c] : c_zombies[c][j] = t}}
           listed(c) == {<<"list", c, i>> : i \in {j \in DOMAIN list[c] : list[c][j] = t}}
           sleep(w) == {<<"sleep", w, i>> :
                         i \in {j \in DOMAIN wc_threads[w] : wc_threads[w][j] = t}}
           onCpus == UNION {ready(c) \cup dead(c) \cup listed(c) : c \in CPU}
           onChannels == UNION {sleep(w) : w \in Channel}
<1>1. Places(t) = run \cup onCpus \cup onChannels
  BY Zenon DEF Places
<1>2. p \in run
      <=> \E c \in CPU : p = <<"run", c>> /\ c_curthread[c] = t /\ ~c_isidle[c] /\ kpc[c] # "placed"
  BY Zenon
<1>3. \A c \in CPU : p \in ready(c)
      <=> \E i \in DOMAIN c_runqueue[c] : p = <<"ready", c, i>> /\ c_runqueue[c][i] = t
  BY Zenon
<1>4. \A c \in CPU : p \in dead(c)
      <=> \E i \in DOMAIN c_zombies[c] : p = <<"dead", c, i>> /\ c_zombies[c][i] = t
  BY Zenon
<1>5. \A c \in CPU : p \in listed(c)
      <=> \E i \in DOMAIN list[c] : p = <<"list", c, i>> /\ list[c][i] = t
  BY Zenon
<1>6. \A w \in Channel : p \in sleep(w)
      <=> \E i \in DOMAIN wc_threads[w] : p = <<"sleep", w, i>> /\ wc_threads[w][i] = t
  BY Zenon
<1> HIDE DEF run, ready, dead, listed, sleep
<1>7. p \in Places(t) <=> \/ p \in run
                          \/ \E c \in CPU : p \in ready(c) \/ p \in dead(c) \/ p \in listed(c)
                          \/ \E w \in Channel : p \in sleep(w)
  <2>1. p \in onCpus <=> \E c \in CPU : p \in ready(c) \/ p \in dead(c) \/ p \in listed(c)
    BY SMT
  <2>2. p \in onChannels <=> \E w \in Channel : p \in sleep(w)
    BY SMT
  <2> HIDE DEF onCpus, onChannels
  <2>3. p \in Places(t) <=> p \in run \/ p \in onCpus \/ p \in onChannels
    BY <1>1
  <2> QED BY <2>1, <2>2, <2>3, Zenon
<1> QED BY <1>2, <1>3, <1>4, <1>5, <1>6, <1>7, Zenon DEF PlaceOf

\* Every place of Places(t) is the one place (k, x) where t is.
LEMMA ThePlace ==
  ASSUME ThreadsInv, NEW t \in Thread, NEW k \in Kind, NEW x \in CPU \cup Channel, Place(k, x),
         t \in Content(k, x)
  PROVE  OnlyAt(t, k, x)
<1>0. ThreadsType /\ \A c \in CPU : MigrationInv(c)
  BY DEF ThreadsInv, CpuInv
<1>1. ASSUME NEW l \in Kind, NEW y \in CPU \cup Channel, Place(l, y), t \in Content(l, y)
      PROVE  k = l /\ x = y
  BY Zenon, <1>1, NotElsewhere
<1>2. ASSUME NEW c \in CPU, c_curthread[c] = t, ~c_isidle[c], kpc[c] # "placed"
      PROVE  k = "run" /\ c = x
  <2>1. t \in Content("run", c)
    BY Zenon, <1>0, <1>2 DEF Content, Running, ThreadsType
  <2> QED BY Zenon, <1>1, <2>1, Kinds
<1>3. ASSUME NEW c \in CPU, NEW i \in DOMAIN c_runqueue[c], c_runqueue[c][i] = t
      PROVE  k = "ready" /\ c = x
  <2>1. t \in Content("ready", c)
    BY Zenon, <1>3 DEF Content, Range
  <2> QED BY Zenon, <1>1, <2>1, Kinds
<1>4. ASSUME NEW c \in CPU, NEW i \in DOMAIN c_zombies[c], c_zombies[c][i] = t
      PROVE  k = "dead" /\ c = x
  <2>1. t \in Content("dead", c)
    BY Zenon, <1>4 DEF Content, Range
  <2> QED BY Zenon, <1>1, <2>1, Kinds
<1>5. ASSUME NEW c \in CPU, NEW i \in DOMAIN list[c], list[c][i] = t
      PROVE  k \in {"woken", "victim"} /\ c = x
  <2>1. t \in Range(list[c])
    BY Zenon, <1>5 DEF Range
  <2>2. list[c] # <<>>
    BY Zenon, <2>1, EmptyQueue
  <2>3. t \in Content("woken", c) \/ t \in Content("victim", c)
    BY Zenon, <1>0, <2>1, <2>2 DEF Content, Migrating, MigrationInv
  <2> QED BY Zenon, <1>1, <2>3, Kinds
<1>6. ASSUME NEW w \in Channel, NEW i \in DOMAIN wc_threads[w], wc_threads[w][i] = t
      PROVE  k = "sleep" /\ w = x
  <2>1. t \in Content("sleep", w)
    BY Zenon, <1>6 DEF Content, Range
  <2> QED BY <1>1, <2>1, Kinds
<1> QED BY Zenon, <1>2, <1>3, <1>4, <1>5, <1>6 DEF OnlyAt

\* The invariant, place by place: the places of ThreadInOnePlace are those of PlaceInv.
LEMMA OnePlaceOf ==
  ASSUME ThreadsInv, NEW t \in Thread, NEW k \in Kind, NEW x \in CPU \cup Channel, Place(k, x),
         t \in Content(k, x)
  PROVE  \E p \in Places(t) : Places(t) = {p}
<1>1. \E p : p \in Places(t) /\ \A q \in Places(t) : q = p
  <2>0. ThreadsType /\ OnlyAt(t, k, x)
    BY Zenon, ThePlace DEF ThreadsInv
  <2>1. CASE k = "run"
    <3>1. /\ x \in CPU /\ c_curthread[x] = t /\ ~c_isidle[x] /\ kpc[x] # "placed"
      BY <2>1 DEF Place, Content, Running
    <3>2. <<"run", x>> \in Places(t)
      BY Zenon, <3>1, InPlaces DEF PlaceOf
    <3>3. ASSUME NEW q \in Places(t) PROVE q = <<"run", x>>
      <4>1. PlaceOf(t, q)
        BY Zenon, InPlaces
      <4> QED BY Zenon, <2>0, <2>1, <4>1 DEF PlaceOf, OnlyAt
    <3> QED BY Zenon, <3>2, <3>3
  <2>2. CASE k = "ready"
    <3>1. PICK i \in DOMAIN c_runqueue[x] : x \in CPU /\ c_runqueue[x][i] = t
      BY <2>2 DEF Place, Content, Range
    <3>2. <<"ready", x, i>> \in Places(t)
      BY Zenon, <3>1, InPlaces DEF PlaceOf
    <3>3. \A j \in DOMAIN c_runqueue[x] : c_runqueue[x][j] = t => j = i
      BY Zenon, <2>0, <3>1, OneIndex DEF ThreadsType
    <3>4. ASSUME NEW q \in Places(t) PROVE q = <<"ready", x, i>>
      <4>1. PlaceOf(t, q)
        BY Zenon, InPlaces
      <4> QED BY Zenon, <2>0, <2>2, <3>3, <4>1 DEF PlaceOf, OnlyAt
    <3> QED BY <3>2, <3>4
  <2>3. CASE k = "dead"
    <3>1. PICK i \in DOMAIN c_zombies[x] : x \in CPU /\ c_zombies[x][i] = t
      BY <2>3 DEF Place, Content, Range
    <3>2. <<"dead", x, i>> \in Places(t)
      BY Zenon, <3>1, InPlaces DEF PlaceOf
    <3>3. \A j \in DOMAIN c_zombies[x] : c_zombies[x][j] = t => j = i
      BY Zenon, <2>0, <3>1, OneIndex DEF ThreadsType
    <3>4. ASSUME NEW q \in Places(t) PROVE q = <<"dead", x, i>>
      <4>1. PlaceOf(t, q)
        BY Zenon, InPlaces
      <4> QED BY Zenon, <2>0, <2>3, <3>3, <4>1 DEF PlaceOf, OnlyAt
    <3> QED BY Zenon, <3>2, <3>4
  <2>4. CASE k \in {"woken", "victim"}
    <3>1. PICK i \in DOMAIN list[x] : x \in CPU /\ list[x][i] = t
      BY <2>4 DEF Place, Content, Range
    <3>2. <<"list", x, i>> \in Places(t)
      BY Zenon, <3>1, InPlaces DEF PlaceOf
    <3>3. \A j \in DOMAIN list[x] : list[x][j] = t => j = i
      BY Zenon, <2>0, <3>1, OneIndex DEF ThreadsType
    <3>4. ASSUME NEW q \in Places(t) PROVE q = <<"list", x, i>>
      <4>1. PlaceOf(t, q)
        BY Zenon, InPlaces
      <4> QED BY Zenon, <2>0, <2>4, <3>3, <4>1 DEF PlaceOf, OnlyAt
    <3> QED BY Zenon, <3>2, <3>4
  <2>5. CASE k = "sleep"
    <3>1. PICK i \in DOMAIN wc_threads[x] : x \in Channel /\ wc_threads[x][i] = t
      BY <2>5 DEF Place, Content, Range
    <3>2. <<"sleep", x, i>> \in Places(t)
      BY Zenon, <3>1, InPlaces DEF PlaceOf
    <3>3. \A j \in DOMAIN wc_threads[x] : wc_threads[x][j] = t => j = i
      BY Zenon, <2>0, <3>1, OneIndex DEF ThreadsType
    <3>4. ASSUME NEW q \in Places(t) PROVE q = <<"sleep", x, i>>
      <4>1. PlaceOf(t, q)
        BY Zenon, InPlaces
      <4> QED BY Zenon, <2>0, <2>5, <3>3, <4>1 DEF PlaceOf, OnlyAt
    <3> QED BY Zenon, <3>2, <3>4
  <2> QED BY Zenon, <2>1, <2>2, <2>3, <2>4, <2>5 DEF Kind
<1> QED BY Zenon, <1>1

\* thread_switch, wakeups and migration never lose a thread and never have it in two
\* places, and t_state agrees with the place, on any number of processors.
THEOREM ThreadsAreInOnePlace == Spec => []ThreadInOnePlace
<1>1. ThreadsInv => ThreadInOnePlace
  <2> SUFFICES ASSUME ThreadsInv PROVE ThreadInOnePlace
    BY Zenon
  <2>1. ASSUME NEW t \in Thread, t_state[t] # "none" PROVE \E p \in Places(t) : Places(t) = {p}
    BY Zenon, <2>1, OnePlaceOf DEF ThreadsInv, PlaceInv, SomePlace
  <2>2. ASSUME NEW t \in Thread, NEW p \in Places(t) PROVE t_state[t] # "none"
    <3>0. \A k \in Kind, x \in CPU \cup Channel :
            Place(k, x) /\ t \in Content(k, x) => t_state[t] # "none"
      BY Zenon, AtPlace DEF Known
    <3>1. \/ \E c \in CPU : c_curthread[c] = t
          \/ \E c \in CPU :
                  t \in Range(c_runqueue[c]) \/ t \in Range(c_zombies[c]) \/ t \in Range(list[c])
          \/ \E w \in Channel : t \in Range(wc_threads[w])
      BY <2>2, InPlaces DEF Range, PlaceOf
    <3>2. ASSUME NEW c \in CPU, t \in Range(list[c]) PROVE t_state[t] # "none"
      <4>1. list[c] # <<>>
        BY Zenon, <3>2, EmptyQueue
      <4>2. t \in Content("woken", c) \/ t \in Content("victim", c)
        BY Zenon, <3>2, <4>1 DEF Content, Migrating, ThreadsInv, CpuInv, MigrationInv
      <4> QED BY Zenon, <3>0, <4>2, Kinds
    <3>3. ASSUME NEW c \in CPU, t \in Range(c_runqueue[c]) \/ t \in Range(c_zombies[c])
          PROVE  t_state[t] # "none"
      <4>1. t \in Content("ready", c) \/ t \in Content("dead", c)
        BY Zenon, <3>3 DEF Content
      <4> QED BY Zenon, <3>0, <4>1, Kinds
    <3>4. ASSUME NEW w \in Channel, t \in Range(wc_threads[w]) PROVE t_state[t] # "none"
      <4>1. t \in Content("sleep", w)
        BY Zenon, <3>4 DEF Content
      <4> QED BY Zenon, <3>0, <4>1, Kinds
    <3> QED BY Zenon, <3>1, <3>2, <3>3, <3>4 DEF ThreadsInv, CpuInv, CurthreadInv
  <2>3. ASSUME NEW c \in CPU, NEW i \in DOMAIN c_runqueue[c]
        PROVE  t_state[c_runqueue[c][i]] = "S_READY"
    <3>1. c_runqueue[c][i] \in Content("ready", c)
      BY Zenon DEF Content, Range
    <3> QED BY <3>1, AtPlace, Kinds DEF Known
  <2>4. ASSUME NEW w \in Channel, NEW i \in DOMAIN wc_threads[w], NEW t, t = wc_threads[w][i]
        PROVE  t_state[t] = "S_SLEEP" \/ (c_curthread[t_cpu[t]] = t /\ kpc[t_cpu[t]] = "placed")
    <3>1. t \in Content("sleep", w)
      BY <2>4 DEF Content, Range
    <3>2. Becoming(t) = "S_SLEEP"
      BY <3>1, AtPlace, Kinds DEF Known, StateAt
    <3> QED BY <3>2 DEF Becoming
  <2>5. \A t \in Thread : t_state[t] # "none" <=> \E p \in Places(t) : Places(t) = {p}
    BY Zenon, <2>1, <2>2
  <2>6. \A w \in Channel : \A i \in DOMAIN wc_threads[w] :
          LET t == wc_threads[w][i]
          IN t_state[t] = "S_SLEEP" \/ (c_curthread[t_cpu[t]] = t /\ kpc[t_cpu[t]] = "placed")
    BY <2>4
  <2>7. \A c \in CPU : \A i \in DOMAIN c_runqueue[c] : t_state[c_runqueue[c][i]] = "S_READY"
    BY <2>3
  <2> QED BY Zenon, <2>5, <2>6, <2>7 DEF ThreadInOnePlace
<1> QED BY <1>1, ThreadsInvAlways, PTL
=============================================================================
