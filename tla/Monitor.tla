------------------------------ MODULE Monitor ------------------------------
(***************************************************************************)
(* What a lock and a condition variable promise together (kern/include/    *)
(* synch.h): one thread at a time holds the lock; cv_wait gives up the     *)
(* lock and starts waiting in one step, so that no signal sent by the next *)
(* holder is missed; cv_signal wakes one waiter, cv_broadcast all of them, *)
(* and a thread that waited holds the lock again before it goes on.        *)
(***************************************************************************)
CONSTANTS
  Thread,
  NoThread

VARIABLES
  holder,   \* the thread that holds the lock, or NoThread
  waiters,  \* the threads waiting on the condition variable
  call      \* the call the holder has made and not yet returned from, or "none"

vars == <<holder, waiters, call>>

Init == holder = NoThread /\ waiters = {} /\ call = "none"

Acquire(t) ==
  /\ holder = NoThread
  /\ t \notin waiters
  /\ holder' = t
  /\ UNCHANGED <<waiters, call>>

Release(t) ==
  /\ holder = t /\ call = "none"
  /\ holder' = NoThread
  /\ UNCHANGED <<waiters, call>>

Wait(t) ==
  /\ holder = t /\ call = "none"
  /\ holder' = NoThread
  /\ waiters' = waiters \cup {t}
  /\ UNCHANGED call

\* Only the holder signals: the KASSERT of cv_signal and cv_broadcast.
Signal(t) ==
  /\ holder = t /\ call = "none"
  /\ \/ waiters = {} /\ waiters' = {}
     \/ \E u \in waiters : waiters' = waiters \ {u}
  /\ call' = "signal"
  /\ UNCHANGED holder

Broadcast(t) ==
  /\ holder = t /\ call = "none"
  /\ waiters' = {}
  /\ call' = "broadcast"
  /\ UNCHANGED holder

Return(t) ==
  /\ holder = t /\ call # "none"
  /\ call' = "none"
  /\ UNCHANGED <<holder, waiters>>

Next ==
  \E t \in Thread :
    \/ Acquire(t) \/ Release(t)
    \/ Wait(t) \/ Signal(t) \/ Broadcast(t) \/ Return(t)

Spec == Init /\ [][Next]_vars
=============================================================================
