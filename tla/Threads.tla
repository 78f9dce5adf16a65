------------------------------ MODULE Threads ------------------------------
(***************************************************************************)
(* The thread system on several processors (kern/thread/thread.c): the     *)
(* per-cpu run queues, thread_switch with its idle loop, wait channels,    *)
(* migration between cpus, interprocessor interrupts, and the reaping of   *)
(* exited threads.  The timer of kern/thread/clock.c drives it.            *)
(*                                                                         *)
(* A step is what a cpu does between two points where another cpu can see  *)
(* or change what it works on.  A spinlock held over more than one step is *)
(* a variable; a section that takes and drops one within a step only needs *)
(* it free.  Interrupts are taken where they are enabled: in thread code   *)
(* that holds no spinlock, and in cpu_idle.                                *)
(***************************************************************************)
EXTENDS Naturals, FiniteSets, Sequences, Functions

CONSTANTS
  NCPU,        \* number of processors
  Thread,      \* thread structures
  Channel,     \* wait channels, each with the spinlock that protects it
  NoChannel,   \* not in wchan_sleep
  lbolt        \* the channel timerclock broadcasts on

CPU == 1 .. NCPU

ASSUME ThreadsAssumption ==
  /\ NCPU \in Nat \ {0}
  /\ IsFiniteSet(Thread) /\ Cardinality(Thread) >= NCPU
  /\ lbolt \in Channel
  /\ NoChannel \notin Channel

VARIABLES
  t_state,      \* the state of each thread; "none" when it does not exist
  t_cpu,        \* the cpu a thread runs on or is queued for
  lk,           \* the channel whose spinlock wchan_sleep has to take again
  c_curthread,  \* the thread whose stack the cpu is on, idle or not
  c_runqueue,
  c_zombies,
  c_isidle,
  c_ipi,        \* an IPI_UNIDLE is pending
  rqlock,       \* the cpu holding c_runqueue_lock, 0 when free
  wc_threads,   \* the threads queued on each wait channel
  wclock,       \* the cpu holding the channel's spinlock, 0 when free
  kpc,          \* where the cpu is in this file
  newstate,     \* thread_switch's argument
  chan,         \* the channel wchan_wakeone or wchan_wakeall works on
  list,         \* wchan_wakeall's list; thread_consider_migration's victims
  mig           \* the other locals of thread_consider_migration

threads == <<t_state, t_cpu, lk>>
cpus == <<c_curthread, c_zombies, c_isidle>>
queues == <<c_runqueue, wc_threads>>
locks == <<rqlock, wclock>>
locals == <<newstate, chan, list, mig>>
vars == <<threads, cpus, queues, c_ipi, locks, kpc, locals>>

NoMigration == [i |-> 0, my_count |-> 0, total_count |-> 0, one_share |-> 0,
                to_send |-> 0]

\* Boot: each cpu runs its first thread (cpu_create, cpu_hatch); no other thread
\* exists yet.
Init ==
  /\ c_curthread \in [CPU -> Thread] /\ IsInjective(c_curthread)
  /\ t_state = [t \in Thread |->
                  IF \E c \in CPU : c_curthread[c] = t THEN "S_RUN" ELSE "none"]
  /\ t_cpu = [t \in Thread |->
                IF \E c \in CPU : c_curthread[c] = t
                THEN CHOOSE c \in CPU : c_curthread[c] = t ELSE 1]
  /\ lk = [t \in Thread |-> NoChannel]
  /\ c_runqueue = [c \in CPU |-> <<>>]
  /\ c_zombies = [c \in CPU |-> <<>>]
  /\ c_isidle = [c \in CPU |-> FALSE]
  /\ c_ipi = [c \in CPU |-> FALSE]
  /\ rqlock = [c \in CPU |-> 0]
  /\ wc_threads = [w \in Channel |-> <<>>]
  /\ wclock = [w \in Channel |-> 0]
  /\ kpc = [c \in CPU |-> "thread"]
  /\ newstate = [c \in CPU |-> "S_RUN"]
  /\ chan = [c \in CPU |-> NoChannel]
  /\ list = [c \in CPU |-> <<>>]
  /\ mig = [c \in CPU |-> NoMigration]

\* The thread is running its own code: not inside wchan_sleep.
InThread(c) == kpc[c] = "thread" /\ lk[c_curthread[c]] = NoChannel

\* Where an interrupt handler returns to: the thread, or the idle loop, which then
\* looks at the run queue again.
Return(c) == IF c_isidle[c] THEN "pick" ELSE "thread"

---------------------------------------------------------------------------
(* thread_make_runnable and thread_fork.                                   *)

\* Mutant: no interrupt for an idle cpu that is given work.
NoUnidle(c, d) == UNCHANGED c_ipi

\* ipi_send(targetcpu, IPI_UNIDLE), to another cpu that is idle.
Unidle(c, d) == c_ipi' = [c_ipi EXCEPT ![d] = @ \/ (c_isidle[d] /\ d # c)]

MakeRunnable(c, t, d) ==
  /\ t_state' = [t_state EXCEPT ![t] = "S_READY"]
  /\ c_runqueue' = [c_runqueue EXCEPT ![d] = Append(@, t)]
  /\ Unidle(c, d)

\* The new thread starts on d, the cpu its caller was on when it copied
\* curthread->t_cpu.  The caller may have been preempted and migrated before it
\* reaches thread_make_runnable on c, so d is any cpu.
Fork(c, t, d) ==
  /\ InThread(c)
  /\ t_state[t] = "none"
  /\ rqlock[d] = 0
  /\ t_cpu' = [t_cpu EXCEPT ![t] = d]
  /\ MakeRunnable(c, t, d)
  /\ UNCHANGED <<lk, cpus, wc_threads, locks, kpc, locals>>

---------------------------------------------------------------------------
(* thread_switch.                                                          *)

\* The caller of wchan_sleep has locked the channel.
SleepBegin(c, w) ==
  /\ InThread(c)
  /\ wclock[w] = 0
  /\ wclock' = [wclock EXCEPT ![w] = c]
  /\ lk' = [lk EXCEPT ![c_curthread[c]] = w]
  /\ kpc' = [kpc EXCEPT ![c] = "sleep"]
  /\ UNCHANGED <<t_state, t_cpu, cpus, queues, c_ipi, rqlock, locals>>

\* Mutant: the channel is unlocked before the run queue is locked.
SwitchSleepUnlocked(c) ==
  LET w == lk[c_curthread[c]]
  IN /\ kpc[c] = "sleep"
     /\ wc_threads' = [wc_threads EXCEPT ![w] = Append(@, c_curthread[c])]
     /\ wclock' = [wclock EXCEPT ![w] = 0]
     /\ newstate' = [newstate EXCEPT ![c] = "S_SLEEP"]
     /\ kpc' = [kpc EXCEPT ![c] = "placed"]
     /\ UNCHANGED <<threads, cpus, c_runqueue, c_ipi, rqlock, chan, list, mig>>

\* Queued on the channel, which is then unlocked; the run queue stays locked.
SwitchSleep(c) ==
  LET w == lk[c_curthread[c]]
  IN /\ kpc[c] = "sleep"
     /\ rqlock[c] = 0
     /\ rqlock' = [rqlock EXCEPT ![c] = c]
     /\ wc_threads' = [wc_threads EXCEPT ![w] = Append(@, c_curthread[c])]
     /\ wclock' = [wclock EXCEPT ![w] = 0]
     /\ newstate' = [newstate EXCEPT ![c] = "S_SLEEP"]
     /\ kpc' = [kpc EXCEPT ![c] = "placed"]
     /\ UNCHANGED <<threads, cpus, c_runqueue, c_ipi, chan, list, mig>>

\* wchan_sleep takes the spinlock again, and its caller releases it.
SleepEnd(c) ==
  /\ kpc[c] = "thread"
  /\ lk[c_curthread[c]] \in Channel
  /\ wclock[lk[c_curthread[c]]] = 0
  /\ lk' = [lk EXCEPT ![c_curthread[c]] = NoChannel]
  /\ UNCHANGED <<t_state, t_cpu, cpus, queues, c_ipi, locks, kpc, locals>>

\* thread_yield, called by a thread or at the end of hardclock: nothing to do on
\* an idle cpu, nor when no other thread is ready.
SwitchYield(c) ==
  /\ kpc[c] = "yield"
  /\ \/ /\ c_isidle[c]
        /\ kpc' = [kpc EXCEPT ![c] = "pick"]
        /\ UNCHANGED <<t_state, c_runqueue, c_ipi, rqlock, newstate>>
     \/ /\ ~c_isidle[c] /\ rqlock[c] = 0
        /\ c_runqueue[c] = <<>>
        /\ kpc' = [kpc EXCEPT ![c] = "thread"]
        /\ UNCHANGED <<t_state, c_runqueue, c_ipi, rqlock, newstate>>
     \/ /\ ~c_isidle[c] /\ rqlock[c] = 0
        /\ c_runqueue[c] # <<>>
        /\ MakeRunnable(c, c_curthread[c], t_cpu[c_curthread[c]])
        /\ rqlock' = [rqlock EXCEPT ![c] = c]
        /\ newstate' = [newstate EXCEPT ![c] = "S_READY"]
        /\ kpc' = [kpc EXCEPT ![c] = "placed"]
  /\ UNCHANGED <<t_cpu, lk, cpus, wc_threads, wclock, chan, list, mig>>

\* thread_exit.
SwitchExit(c) ==
  /\ InThread(c)
  /\ rqlock[c] = 0
  /\ rqlock' = [rqlock EXCEPT ![c] = c]
  /\ c_zombies' = [c_zombies EXCEPT ![c] = Append(@, c_curthread[c])]
  /\ newstate' = [newstate EXCEPT ![c] = "S_ZOMBIE"]
  /\ kpc' = [kpc EXCEPT ![c] = "placed"]
  /\ UNCHANGED <<threads, c_curthread, c_isidle, queues, c_ipi, wclock, chan, list,
                 mig>>

\* The run queue is locked: still, or again after cpu_idle.
Picking(c) == kpc[c] = "placed" \/ (kpc[c] = "pick" /\ rqlock[c] = 0)

\* cur->t_state = newstate.
WithNewState(c) ==
  IF kpc[c] = "placed"
  THEN [t_state EXCEPT ![c_curthread[c]] = newstate[c]] ELSE t_state

\* No thread to run: the queue is unlocked and cpu_idle waits for an interrupt.
GoIdle(c) ==
  /\ Picking(c)
  /\ c_runqueue[c] = <<>>
  /\ t_state' = WithNewState(c)
  /\ c_isidle' = [c_isidle EXCEPT ![c] = TRUE]
  /\ rqlock' = [rqlock EXCEPT ![c] = 0]
  /\ newstate' = [newstate EXCEPT ![c] = "S_RUN"]
  /\ kpc' = [kpc EXCEPT ![c] = "idle"]
  /\ UNCHANGED <<t_cpu, lk, c_curthread, c_zombies, queues, c_ipi, wclock, chan, list,
                 mig>>

\* exorcise, on the stack of the next thread: thread_destroy for each zombie of
\* this cpu.
Exorcise(c, st) ==
  /\ c_zombies' = [c_zombies EXCEPT ![c] = <<>>]
  /\ t_state' = [t \in Thread |-> IF t \in Range(c_zombies[c]) THEN "none" ELSE st[t]]

SwitchTo(c) ==
  /\ Picking(c)
  /\ c_runqueue[c] # <<>>
  /\ LET next == Head(c_runqueue[c])
     IN /\ c_curthread' = [c_curthread EXCEPT ![c] = next]
        /\ Exorcise(c, [WithNewState(c) EXCEPT ![next] = "S_RUN"])
  /\ c_runqueue' = [c_runqueue EXCEPT ![c] = Tail(@)]
  /\ c_isidle' = [c_isidle EXCEPT ![c] = FALSE]
  /\ rqlock' = [rqlock EXCEPT ![c] = 0]
  /\ newstate' = [newstate EXCEPT ![c] = "S_RUN"]
  /\ kpc' = [kpc EXCEPT ![c] = "thread"]
  /\ UNCHANGED <<t_cpu, lk, wc_threads, c_ipi, wclock, chan, list, mig>>

---------------------------------------------------------------------------
(* wchan_wakeone and wchan_wakeall, their caller holding the channel's     *)
(* spinlock from beginning to end.  The first n threads are woken.         *)

WakeBegin(c, w, n) ==
  /\ wclock[w] = 0
  /\ wclock' = [wclock EXCEPT ![w] = c]
  /\ wc_threads' = [wc_threads EXCEPT ![w] = SubSeq(@, n + 1, Len(@))]
  /\ list' = [list EXCEPT ![c] = SubSeq(wc_threads[w], 1, n)]
  /\ chan' = [chan EXCEPT ![c] = w]
  /\ kpc' = [kpc EXCEPT ![c] = "wake"]
  /\ UNCHANGED <<threads, cpus, c_runqueue, c_ipi, rqlock, newstate, mig>>

WakeOne(c, w) ==
  /\ InThread(c)
  /\ WakeBegin(c, w, IF wc_threads[w] = <<>> THEN 0 ELSE 1)

WakeAll(c, w) ==
  /\ InThread(c)
  /\ WakeBegin(c, w, Len(wc_threads[w]))

\* timerclock, once a second, in an interrupt.
Timerclock(c) ==
  /\ kpc[c] \in {"thread", "idle"}
  /\ WakeBegin(c, lbolt, Len(wc_threads[lbolt]))

\* thread_make_runnable on each, under the run queue lock of the thread's cpu.
WakeNext(c) ==
  /\ kpc[c] = "wake"
  /\ list[c] # <<>>
  /\ LET t == Head(list[c])
     IN /\ rqlock[t_cpu[t]] = 0
        /\ MakeRunnable(c, t, t_cpu[t])
  /\ list' = [list EXCEPT ![c] = Tail(@)]
  /\ UNCHANGED <<t_cpu, lk, cpus, wc_threads, locks, kpc, newstate, chan, mig>>

WakeEnd(c) ==
  /\ kpc[c] = "wake"
  /\ list[c] = <<>>
  /\ wclock' = [wclock EXCEPT ![chan[c]] = 0]
  /\ chan' = [chan EXCEPT ![c] = NoChannel]
  /\ kpc' = [kpc EXCEPT ![c] = Return(c)]
  /\ UNCHANGED <<threads, cpus, queues, c_ipi, rqlock, newstate, list, mig>>

---------------------------------------------------------------------------
(* hardclock, and thread_consider_migration every MIGRATE_HARDCLOCKS.      *)

\* A thread that calls thread_yield itself does what the first case does.
Hardclock(c) ==
  /\ kpc[c] \in {"thread", "idle"}
  /\ \/ /\ kpc' = [kpc EXCEPT ![c] = "yield"]
        /\ UNCHANGED mig
     \/ /\ kpc' = [kpc EXCEPT ![c] = "count"]
        /\ mig' = [mig EXCEPT ![c].i = 1]
  /\ UNCHANGED <<threads, cpus, queues, c_ipi, locks, newstate, chan, list>>

\* Mutant: the threads of every cpu are counted as this one's.
MyCountAll(c) == mig[c].my_count + Len(c_runqueue[mig[c].i])

MyCount(c) == IF mig[c].i = c THEN Len(c_runqueue[c]) ELSE mig[c].my_count

\* Mutant: no early return, so that to_send wraps below zero.
BelowShareNever(my, share) == FALSE

BelowShare(my, share) == my < share

\* One queue at a time: the counts are stale as soon as the lock is dropped.
MigrateCount(c) ==
  LET m == mig[c]
      my == MyCount(c)
      total == m.total_count + Len(c_runqueue[m.i])
      share == (total + NCPU - 1) \div NCPU
  IN /\ kpc[c] = "count"
     /\ rqlock[m.i] = 0
     /\ \/ /\ m.i < NCPU
           /\ mig' = [mig EXCEPT ![c] = [i |-> m.i + 1, my_count |-> my,
                                         total_count |-> total, one_share |-> 0,
                                         to_send |-> 0]]
           /\ UNCHANGED kpc
        \/ /\ m.i = NCPU
           /\ BelowShare(my, share)
           /\ mig' = [mig EXCEPT ![c] = NoMigration]
           /\ kpc' = [kpc EXCEPT ![c] = "yield"]
        \/ /\ m.i = NCPU
           /\ ~BelowShare(my, share)
           /\ mig' = [mig EXCEPT ![c] = [i |-> 0, my_count |-> 0, total_count |-> 0,
                                         one_share |-> share, to_send |-> my - share]]
           /\ kpc' = [kpc EXCEPT ![c] = "take"]
     /\ UNCHANGED <<threads, cpus, queues, c_ipi, locks, newstate, chan, list>>

\* The victims are taken off the tail of this cpu's queue.
MigrateTake(c) ==
  LET keep == Len(c_runqueue[c]) - mig[c].to_send
  IN /\ kpc[c] = "take"
     /\ rqlock[c] = 0
     /\ list' = [list EXCEPT ![c] = SubSeq(c_runqueue[c], keep + 1, keep + mig[c].to_send)]
     /\ c_runqueue' = [c_runqueue EXCEPT ![c] = SubSeq(@, 1, keep)]
     /\ mig' = [mig EXCEPT ![c].i = 1]
     /\ kpc' = [kpc EXCEPT ![c] = "send"]
     /\ UNCHANGED <<threads, cpus, wc_threads, c_ipi, locks, newstate, chan>>

\* The next cpu of the sending loop, which skips its own, is locked.
MigrateLock(c) ==
  LET m == mig[c]
  IN /\ kpc[c] = "send"
     /\ m.i <= NCPU /\ m.to_send > 0
     /\ \/ /\ m.i = c
           /\ mig' = [mig EXCEPT ![c].i = @ + 1]
           /\ UNCHANGED <<rqlock, kpc>>
        \/ /\ m.i # c
           /\ rqlock[m.i] = 0
           /\ rqlock' = [rqlock EXCEPT ![m.i] = c]
           /\ kpc' = [kpc EXCEPT ![c] = "sending"]
           /\ UNCHANGED mig
     /\ UNCHANGED <<threads, cpus, queues, c_ipi, wclock, newstate, chan, list>>

\* The loop over one cpu goes on.
Sending(c) ==
  /\ kpc[c] = "sending"
  /\ Len(c_runqueue[mig[c].i]) < mig[c].one_share
  /\ mig[c].to_send > 0

\* Mutant: the current thread of the cpu is not recognised among the victims.
IsCurthreadNever(c, t) == FALSE

IsCurthread(c, t) == t = c_curthread[c]

\* The current thread of this cpu stays: it goes to the end of the victims.
MigrateSkip(c) ==
  /\ Sending(c)
  /\ IsCurthread(c, Head(list[c]))
  /\ list' = [list EXCEPT ![c] = Append(Tail(@), Head(@))]
  /\ mig' = [mig EXCEPT ![c].to_send = @ - 1]
  /\ UNCHANGED <<threads, cpus, queues, c_ipi, locks, kpc, newstate, chan>>

\* Mutant: a migrated thread still names its old cpu.
SetCpuNot(t, d) == UNCHANGED t_cpu

SetCpu(t, d) == t_cpu' = [t_cpu EXCEPT ![t] = d]

MigrateSend(c) ==
  LET t == Head(list[c])
      d == mig[c].i
  IN /\ Sending(c)
     /\ ~IsCurthread(c, t)
     /\ SetCpu(t, d)
     /\ c_runqueue' = [c_runqueue EXCEPT ![d] = Append(@, t)]
     /\ Unidle(c, d)
     /\ list' = [list EXCEPT ![c] = Tail(@)]
     /\ mig' = [mig EXCEPT ![c].to_send = @ - 1]
     /\ UNCHANGED <<t_state, lk, cpus, wc_threads, locks, kpc, newstate, chan>>

MigrateUnlock(c) ==
  /\ kpc[c] = "sending"
  /\ ~Sending(c)
  /\ rqlock' = [rqlock EXCEPT ![mig[c].i] = 0]
  /\ mig' = [mig EXCEPT ![c].i = @ + 1]
  /\ kpc' = [kpc EXCEPT ![c] = "send"]
  /\ UNCHANGED <<threads, cpus, queues, c_ipi, wclock, newstate, chan, list>>

PutBack(c) == c_runqueue' = [c_runqueue EXCEPT ![c] = @ \o list[c]]

\* Leftovers go back on this cpu's queue; hardclock then yields.
MigrateEnd(c) ==
  /\ kpc[c] = "send"
  /\ mig[c].i > NCPU \/ mig[c].to_send = 0
  /\ list[c] # <<>> => rqlock[c] = 0
  /\ PutBack(c)
  /\ list' = [list EXCEPT ![c] = <<>>]
  /\ mig' = [mig EXCEPT ![c] = NoMigration]
  /\ kpc' = [kpc EXCEPT ![c] = "yield"]
  /\ UNCHANGED <<threads, cpus, wc_threads, c_ipi, locks, newstate, chan>>

\* interprocessor_interrupt with IPI_UNIDLE: nothing but to interrupt the wait.
InterprocessorInterrupt(c) ==
  /\ kpc[c] \in {"thread", "idle"}
  /\ c_ipi[c]
  /\ c_ipi' = [c_ipi EXCEPT ![c] = FALSE]
  /\ kpc' = [kpc EXCEPT ![c] = Return(c)]
  /\ UNCHANGED <<threads, cpus, queues, locks, locals>>

---------------------------------------------------------------------------
(* What a cpu has to go on with, and what its thread or its timer chooses.  *)

Continue(c) ==
  \/ SwitchSleep(c) \/ SleepEnd(c) \/ SwitchYield(c) \/ GoIdle(c) \/ SwitchTo(c)
  \/ WakeNext(c) \/ WakeEnd(c)
  \/ MigrateCount(c) \/ MigrateTake(c) \/ MigrateLock(c) \/ MigrateSkip(c)
  \/ MigrateSend(c) \/ MigrateUnlock(c) \/ MigrateEnd(c)
  \/ InterprocessorInterrupt(c)

Choose(c) ==
  \/ \E t \in Thread, d \in CPU : Fork(c, t, d)
  \/ \E w \in Channel : SleepBegin(c, w) \/ WakeOne(c, w) \/ WakeAll(c, w)
  \/ SwitchExit(c)
  \/ Hardclock(c)
  \/ Timerclock(c)

Next == \E c \in CPU : Continue(c) \/ Choose(c)

Spec == Init /\ [][Next]_vars

---------------------------------------------------------------------------
(* Properties.                                                             *)

\* Every variable has its type, the unsigned counts of migration included.
TypeOK ==
  /\ t_state \in [Thread -> {"none", "S_RUN", "S_READY", "S_SLEEP", "S_ZOMBIE"}]
  /\ t_cpu \in [Thread -> CPU]
  /\ lk \in [Thread -> Channel \cup {NoChannel}]
  /\ c_curthread \in [CPU -> Thread]
  /\ \A c \in CPU : {c_runqueue[c], c_zombies[c], list[c]} \subseteq Seq(Thread)
  /\ \A w \in Channel : wc_threads[w] \in Seq(Thread)
  /\ c_isidle \in [CPU -> BOOLEAN] /\ c_ipi \in [CPU -> BOOLEAN]
  /\ rqlock \in [CPU -> 0 .. NCPU] /\ wclock \in [Channel -> 0 .. NCPU]
  /\ \A c \in CPU : {mig[c].my_count, mig[c].total_count, mig[c].to_send} \subseteq Nat

\* The places where a thread can be found: running on a cpu, which it leaves when
\* thread_switch has put it somewhere; on a queue; or on a list being worked through.
Places(t) ==
  {<<"run", c>> : c \in {d \in CPU : /\ c_curthread[d] = t
                                     /\ ~c_isidle[d]
                                     /\ kpc[d] # "placed"}}
  \cup (UNION {{<<"ready", c, i>> : i \in {j \in DOMAIN c_runqueue[c] : c_runqueue[c][j] = t}}
                \cup {<<"dead", c, i>> : i \in {j \in DOMAIN c_zombies[c] : c_zombies[c][j] = t}}
                \cup {<<"list", c, i>> : i \in {j \in DOMAIN list[c] : list[c][j] = t}}
                : c \in CPU})
  \cup (UNION {{<<"sleep", w, i>> : i \in {j \in DOMAIN wc_threads[w] : wc_threads[w][j] = t}}
                : w \in Channel})

\* thread_switch, the wakeups and migration never lose a thread and never have one
\* in two places: a thread that exists is running on exactly one cpu, or on exactly
\* one queue or private list, once.  t_state agrees with the place, although a
\* sleeping thread can be found and woken before thread_switch has stored its new
\* state: the run queue lock keeps the store before the wakeup.  A thread on a run
\* queue is ready; one on a channel sleeps unless the cpu it leaves is still about to
\* store that.
ThreadInOnePlace ==
  /\ \A t \in Thread : t_state[t] # "none" <=> \E p \in Places(t) : Places(t) = {p}
  /\ \A c \in CPU : \A i \in DOMAIN c_runqueue[c] :
       LET t == c_runqueue[c][i] IN t_state[t] = "S_READY"
  /\ \A w \in Channel : \A i \in DOMAIN wc_threads[w] :
       LET t == wc_threads[w][i]
       IN t_state[t] = "S_SLEEP" \/ (c_curthread[t_cpu[t]] = t /\ kpc[t_cpu[t]] = "placed")

\* A thread's stack is in use by at most one cpu and is not freed while it is: two
\* cpus never have the same curthread, an idle cpu's thread is not run by another
\* (which migrating curthread would lead to), and exorcise destroys no curthread.
NoSharedStack ==
  \A c \in CPU :
    /\ \A d \in CPU : c_curthread[c] = c_curthread[d] => c = d
    /\ t_state[c_curthread[c]] # "none"

\* The KASSERT of thread_make_runnable and the DEBUGASSERTs of thread_switch: a
\* thread runs on and is queued for the cpu that t_cpu names, so the run queue lock
\* a wakeup takes is the one that covers it.
ThreadKnowsItsCpu ==
  \A c \in CPU :
    /\ ~c_isidle[c] => t_cpu[c_curthread[c]] = c
    /\ \A i \in DOMAIN c_runqueue[c] : t_cpu[c_runqueue[c][i]] = c

\* The comment in thread_switch: unlocking the run queue need not be atomic with
\* idling.  A cpu waiting in cpu_idle with work on its queue has an interrupt
\* pending, which ends the wait.
IdleCpuWithWorkIsInterrupted ==
  \A c \in CPU : kpc[c] = "idle" /\ c_runqueue[c] # <<>> => c_ipi[c]

\* thread_consider_migration works on counts that other cpus change: there are
\* still to_send threads on its queue when it takes them (threadlist_remtail would
\* return NULL), and one for every iteration of the sending loop.
MigrationHasVictims ==
  \A c \in CPU :
    /\ kpc[c] = "take" => mig[c].to_send <= Len(c_runqueue[c])
    /\ kpc[c] \in {"send", "sending"} => mig[c].to_send <= Len(list[c])
=============================================================================
