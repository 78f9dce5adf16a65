------------------------------- MODULE Synch -------------------------------
(***************************************************************************)
(* Locks and condition variables (kern/thread/synch.c, built with OPT_WC): *)
(* one lock, one condition variable, and threads that use them as the      *)
(* interface allows.  A section under a spinlock is one step; the steps of *)
(* a call end where it drops a spinlock or stores to the lock outside one: *)
(* lock_acquire stores the owner a second time after its section, and      *)
(* lock_release clears it before its section.  cv_wait holds the spinlock  *)
(* of the condition variable over the whole of lock_release.               *)
(***************************************************************************)
EXTENDS Naturals, Sequences, Functions

CONSTANTS
  Thread,
  NoThread

ASSUME NoThreadAssumption == NoThread \notin Thread

VARIABLES
  available,   \* lk: nobody has the lock
  owner,       \* lk: what lock_do_i_hold compares with curthread
  lk_wchan,    \* the threads asleep in lock_acquire
  cv_wchan,    \* the threads asleep in cv_wait
  cv_lock,     \* the thread holding the spinlock of the cv over several steps
  pc           \* where each thread is

synchVars == <<available, owner, lk_wchan, cv_wchan, cv_lock, pc>>

\* lock_create: available, and owner not initialised.
LockCreate == available = TRUE /\ owner \in Thread \cup {NoThread}

SynchInit ==
  /\ LockCreate
  /\ lk_wchan = <<>>
  /\ cv_wchan = <<>>
  /\ cv_lock = NoThread
  /\ pc = [t \in Thread |-> "out"]

---------------------------------------------------------------------------
(* lock_acquire and lock_release.                                          *)

AcquireCall(t) ==
  /\ pc[t] = "out"
  /\ pc' = [pc EXCEPT ![t] = "acquire"]
  /\ UNCHANGED <<available, owner, lk_wchan, cv_wchan, cv_lock>>

\* The loop finds the lock taken: wchan_sleep.
AcquireSleep(t) ==
  /\ pc[t] = "acquire"
  /\ ~available
  /\ lk_wchan' = Append(lk_wchan, t)
  /\ pc' = [pc EXCEPT ![t] = "asleep"]
  /\ UNCHANGED <<available, owner, cv_wchan, cv_lock>>

\* Mutant: the lock is not looked at again after the sleep.
AcquireTakeUnchecked(t) ==
  /\ pc[t] = "acquire"
  /\ available' = FALSE
  /\ owner' = t
  /\ pc' = [pc EXCEPT ![t] = "taken"]
  /\ UNCHANGED <<lk_wchan, cv_wchan, cv_lock>>

AcquireTake(t) ==
  /\ pc[t] = "acquire"
  /\ available
  /\ available' = FALSE
  /\ owner' = t
  /\ pc' = [pc EXCEPT ![t] = "taken"]
  /\ UNCHANGED <<lk_wchan, cv_wchan, cv_lock>>

\* The second store to owner, after the section.
AcquireOwner(t) ==
  /\ pc[t] = "taken"
  /\ owner' = t
  /\ pc' = [pc EXCEPT ![t] = "in"]
  /\ UNCHANGED <<available, lk_wchan, cv_wchan, cv_lock>>

\* lock_do_i_hold, asserted by lock_release, cv_signal and cv_broadcast.
LockDoIHold(t) == owner = t

\* lock_release clears owner: called by the holder, or by cv_wait.
ReleaseOwner(t) ==
  /\ pc[t] \in {"in", "wait"}
  /\ LockDoIHold(t)
  /\ owner' = NoThread
  /\ pc' = [pc EXCEPT ![t] = IF pc[t] = "in" THEN "release" ELSE "waitrelease"]
  /\ UNCHANGED <<available, lk_wchan, cv_wchan, cv_lock>>

\* wchan_wakeone(lk_wchan): the first sleeper tries again, and t goes on at next.
WakeLock(t, next) ==
  IF lk_wchan = <<>>
  THEN /\ pc' = [pc EXCEPT ![t] = next]
       /\ UNCHANGED lk_wchan
  ELSE /\ pc' = [pc EXCEPT ![t] = next, ![Head(lk_wchan)] = "acquire"]
       /\ lk_wchan' = Tail(lk_wchan)

\* Mutant: the sleepers are not woken.
ReleaseSilently(t) ==
  /\ pc[t] \in {"release", "waitrelease"}
  /\ available' = TRUE
  /\ pc' = [pc EXCEPT ![t] = IF pc[t] = "release" THEN "out" ELSE "waitsleep"]
  /\ UNCHANGED <<owner, lk_wchan, cv_wchan, cv_lock>>

ReleaseWake(t) ==
  /\ pc[t] \in {"release", "waitrelease"}
  /\ available' = TRUE
  /\ WakeLock(t, IF pc[t] = "release" THEN "out" ELSE "waitsleep")
  /\ UNCHANGED <<owner, cv_wchan, cv_lock>>

---------------------------------------------------------------------------
(* cv_wait, cv_signal and cv_broadcast, called with the lock held.         *)

\* Mutant: the lock is released without the spinlock of the cv.
WaitBeginUnlocked(t) ==
  /\ pc[t] = "in"
  /\ pc' = [pc EXCEPT ![t] = "wait"]
  /\ UNCHANGED <<available, owner, lk_wchan, cv_wchan, cv_lock>>

WaitBegin(t) ==
  /\ pc[t] = "in"
  /\ cv_lock = NoThread
  /\ cv_lock' = t
  /\ pc' = [pc EXCEPT ![t] = "wait"]
  /\ UNCHANGED <<available, owner, lk_wchan, cv_wchan>>

\* wchan_sleep: on the list, and the spinlock dropped.
WaitSleep(t) ==
  /\ pc[t] = "waitsleep"
  /\ cv_wchan' = Append(cv_wchan, t)
  /\ cv_lock' = NoThread
  /\ pc' = [pc EXCEPT ![t] = "waiting"]
  /\ UNCHANGED <<available, owner, lk_wchan>>

\* Woken: the spinlock is taken again and dropped, then lock_acquire.
WaitEnd(t) ==
  /\ pc[t] = "woken"
  /\ cv_lock = NoThread
  /\ pc' = [pc EXCEPT ![t] = "acquire"]
  /\ UNCHANGED <<available, owner, lk_wchan, cv_wchan, cv_lock>>

\* wchan_wakeone(cv_wchan).
Signal(t) ==
  /\ pc[t] = "in"
  /\ LockDoIHold(t)
  /\ cv_lock = NoThread
  /\ IF cv_wchan = <<>>
     THEN /\ pc' = [pc EXCEPT ![t] = "signal"]
          /\ UNCHANGED cv_wchan
     ELSE /\ pc' = [pc EXCEPT ![t] = "signal", ![Head(cv_wchan)] = "woken"]
          /\ cv_wchan' = Tail(cv_wchan)
  /\ UNCHANGED <<available, owner, lk_wchan, cv_lock>>

\* wchan_wakeall(cv_wchan).
Broadcast(t) ==
  /\ pc[t] = "in"
  /\ LockDoIHold(t)
  /\ cv_lock = NoThread
  /\ pc' = [u \in Thread |-> IF u = t THEN "broadcast"
                             ELSE IF u \in Range(cv_wchan) THEN "woken" ELSE pc[u]]
  /\ cv_wchan' = <<>>
  /\ UNCHANGED <<available, owner, lk_wchan, cv_lock>>

SignalReturn(t) ==
  /\ pc[t] \in {"signal", "broadcast"}
  /\ pc' = [pc EXCEPT ![t] = "in"]
  /\ UNCHANGED <<available, owner, lk_wchan, cv_wchan, cv_lock>>

---------------------------------------------------------------------------

\* A call under way goes on.
SynchContinue(t) ==
  \/ AcquireSleep(t) \/ AcquireTake(t) \/ AcquireOwner(t)
  \/ (pc[t] = "wait" /\ ReleaseOwner(t)) \/ ReleaseWake(t)
  \/ WaitSleep(t) \/ WaitEnd(t) \/ SignalReturn(t)

\* A thread calls: lock_acquire without the lock, anything else with it.
SynchCall(t) ==
  \/ AcquireCall(t)
  \/ (pc[t] = "in" /\ ReleaseOwner(t))
  \/ WaitBegin(t) \/ Signal(t) \/ Broadcast(t)

SynchStep(t) == SynchContinue(t) \/ SynchCall(t)

SynchNext == \E t \in Thread : SynchStep(t)

Spec == SynchInit /\ [][SynchNext]_synchVars

---------------------------------------------------------------------------
(* Properties.                                                             *)

\* Every variable has its type.
SynchTypeOK ==
  /\ available \in BOOLEAN
  /\ owner \in Thread \cup {NoThread}
  /\ lk_wchan \in Seq(Thread) /\ cv_wchan \in Seq(Thread)
  /\ cv_lock \in Thread \cup {NoThread}
  /\ pc \in [Thread -> {"out", "acquire", "asleep", "taken", "in", "release", "wait",
                        "waitrelease", "waitsleep", "waiting", "woken", "signal",
                        "broadcast"}]

\* Between the section of lock_acquire that takes the lock and the one of
\* lock_release that gives it back.
Holds(t) ==
  pc[t] \in {"taken", "in", "release", "wait", "waitrelease", "signal", "broadcast"}

\* One thread at a time has the lock, and owner, which is stored outside the
\* spinlock, names it exactly while the caller may ask: every KASSERT on
\* lock_do_i_hold succeeds, and no other thread takes itself for the holder once the
\* lock has been used.
LockHeldByOwner ==
  /\ \A t, u \in Thread : Holds(t) /\ Holds(u) => t = u
  /\ \A t \in Thread : Holds(t) /\ pc[t] \notin {"release", "waitrelease"} => owner = t
  /\ \A t \in Thread : Holds(t) => ~available

\* lock_release wakes one sleeper, and a newcomer may take the lock first: still, as
\* long as the lock is free and threads sleep on it, one of them is on its way.
NoLostWakeup ==
  available /\ lk_wchan # <<>> => \E t \in Thread : pc[t] = "acquire"

\* The lock and the condition variable together implement Monitor: the lock is held
\* from the section that takes it to the one that frees it, and a thread waits from
\* the release inside cv_wait to the signal.  No signal or broadcast misses a thread
\* that has released the lock in cv_wait and is not asleep yet.
holder == IF \E t \in Thread : Holds(t)
          THEN CHOOSE t \in Thread : Holds(t) ELSE NoThread
waiters == {t \in Thread : pc[t] \in {"waitsleep", "waiting"}}
call == IF \E t \in Thread : pc[t] = "signal" THEN "signal"
        ELSE IF \E t \in Thread : pc[t] = "broadcast" THEN "broadcast" ELSE "none"

M == INSTANCE Monitor

ImplementsMonitor == M!Spec
=============================================================================
