---------------------------- MODULE SynchProofs ----------------------------
(***************************************************************************)
(* For any set of threads: the lock of Synch is exclusive and knows its    *)
(* owner, no wakeup of lock_release is lost, and the lock and the          *)
(* condition variable together implement Monitor.  For any number of       *)
(* sectors and requests: lhd_io and its semaphores keep the invariants of  *)
(* Disk, and threads that do disk I/O use the lock and the condition       *)
(* variable as Synch says.                                                 *)
(***************************************************************************)
EXTENDS Disk, Queues, TLAPS

\* The provers that a step is given to, one after the other, and their time in seconds.
USE SMTT(30), Z3T(30), ZenonT(20)

\* A wait channel holds each sleeper once ...
Distinct(s) == \A i, j \in 1 .. Len(s) : s[i] = s[j] => i = j

\* ... and all of them in state st.
Sleepers(s, st) == Distinct(s) /\ \A i \in 1 .. Len(s) : pc[s[i]] = st

\* The part about the lock: the sleepers of lock_acquire are on its channel, and the
\* lock is exclusive.
LockInv ==
  /\ Sleepers(lk_wchan, "asleep")
  /\ LockHeldByOwner

\* The part about the condition variable: its sleepers are exactly the threads on
\* its channel, and its spinlock is held from WaitBegin to WaitSleep.
CvInv ==
  /\ Sleepers(cv_wchan, "waiting")
  /\ \A t \in Thread : pc[t] = "waiting" => \E i \in 1 .. Len(cv_wchan) : cv_wchan[i] = t
  /\ \A t \in Thread : pc[t] \in {"wait", "waitrelease", "waitsleep"} <=> cv_lock = t

Inv == SynchTypeOK /\ LockInv /\ CvInv

\* What Tail and Head do to a channel with a sleeper on it.
LEMMA Dequeue ==
  ASSUME NEW s \in Seq(Thread), s # <<>>
  PROVE /\ Head(s) \in Thread /\ Head(s) = s[1] /\ Len(s) >= 1 /\ Len(s) \in Nat
        /\ Tail(s) \in Seq(Thread)
        /\ Len(Tail(s)) = Len(s) - 1
        /\ \A i \in 1 .. Len(s) - 1 : Tail(s)[i] = s[i + 1]
  OBVIOUS

\* The rest of a channel: what was on it, but for the head.
LEMMA DequeueDistinct ==
  ASSUME NEW s \in Seq(Thread), s # <<>>, Distinct(s)
  PROVE /\ Distinct(Tail(s))
        /\ \A i \in 1 .. Len(Tail(s)) :
             Tail(s)[i] # Head(s) /\ \E j \in 1 .. Len(s) : Tail(s)[i] = s[j]
        /\ \A j \in 1 .. Len(s) :
             s[j] = Head(s) \/ \E i \in 1 .. Len(Tail(s)) : Tail(s)[i] = s[j]
<1>1. ASSUME NEW i \in 1 .. Len(Tail(s)), NEW j \in 1 .. Len(Tail(s)),
             Tail(s)[i] = Tail(s)[j]
      PROVE i = j
  <2>1. s[i + 1] = s[j + 1]
    BY <1>1, Dequeue
  <2> QED BY <2>1, Dequeue DEF Distinct
<1>2. ASSUME NEW i \in 1 .. Len(Tail(s))
      PROVE Tail(s)[i] # Head(s) /\ \E j \in 1 .. Len(s) : Tail(s)[i] = s[j]
  <2>1. Tail(s)[i] = s[i + 1] /\ i + 1 \in 2 .. Len(s)
    BY Dequeue
  <2>2. s[i + 1] # s[1]
    BY <2>1, Dequeue DEF Distinct
  <2> QED BY <2>1, <2>2, Dequeue
<1>3. ASSUME NEW j \in 1 .. Len(s), s[j] # Head(s)
      PROVE \E i \in 1 .. Len(Tail(s)) : Tail(s)[i] = s[j]
  <2>1. j - 1 \in 1 .. Len(Tail(s)) /\ Tail(s)[j - 1] = s[j]
    BY <1>3, Dequeue
  <2> QED BY <2>1
<1> QED BY <1>1, <1>2, <1>3 DEF Distinct

\* What Append does to a channel.
LEMMA Enqueue ==
  ASSUME NEW s \in Seq(Thread), NEW t \in Thread
  PROVE /\ Append(s, t) \in Seq(Thread)
        /\ Len(Append(s, t)) = Len(s) + 1 /\ Len(s) \in Nat
        /\ \A i \in 1 .. Len(s) : Append(s, t)[i] = s[i]
        /\ Append(s, t)[Len(s) + 1] = t
  OBVIOUS

\* The invariant holds initially.
LEMMA InvInit == SynchInit => Inv
  BY NoThreadAssumption
     DEF SynchInit, LockCreate, Inv, SynchTypeOK, LockInv, CvInv, Sleepers, Distinct,
         LockHeldByOwner, Holds

\* lock_acquire and lock_release keep the invariant.
LEMMA InvLock ==
  ASSUME Inv, NEW t \in Thread,
         \/ AcquireCall(t) \/ AcquireSleep(t) \/ AcquireTake(t) \/ AcquireOwner(t)
         \/ ReleaseOwner(t) \/ ReleaseWake(t)
  PROVE Inv'
<1> USE NoThreadAssumption DEF Inv, LockDoIHold
<1>1. CASE AcquireCall(t)
  BY <1>1 DEF AcquireCall, SynchTypeOK, LockInv, CvInv, Sleepers, Distinct, LockHeldByOwner, Holds
<1>2. CASE AcquireSleep(t)
  <2>1. SynchTypeOK'
    BY <1>2 DEF AcquireSleep, SynchTypeOK
  <2>2. LockInv'
    BY <1>2, Enqueue
       DEF AcquireSleep, SynchTypeOK, LockInv, Sleepers, Distinct, LockHeldByOwner, Holds
  <2>3. CvInv'
    BY <1>2 DEF AcquireSleep, SynchTypeOK, CvInv, Sleepers, Distinct
  <2> QED BY <2>1, <2>2, <2>3
<1>3. CASE AcquireTake(t)
  <2>1. \A u \in Thread : ~Holds(u)
    BY <1>3, Zenon DEF AcquireTake, LockInv, LockHeldByOwner
  <2>2. SynchTypeOK'
    BY <1>3, Zenon DEF AcquireTake, SynchTypeOK
  <2>3. LockInv'
    BY <1>3, <2>1 DEF AcquireTake, SynchTypeOK, LockInv, Sleepers, Distinct, LockHeldByOwner, Holds
  <2>4. CvInv'
    BY <1>3 DEF AcquireTake, SynchTypeOK, CvInv, Sleepers, Distinct
  <2> QED BY <2>2, <2>3, <2>4
<1>4. CASE AcquireOwner(t)
  BY <1>4 DEF AcquireOwner, SynchTypeOK, LockInv, CvInv, Sleepers, Distinct, LockHeldByOwner, Holds
<1>5. CASE ReleaseOwner(t)
  BY <1>5 DEF ReleaseOwner, SynchTypeOK, LockInv, CvInv, Sleepers, Distinct, LockHeldByOwner, Holds
<1>6. CASE ReleaseWake(t)
  <2>1. CASE lk_wchan = <<>>
    BY <1>6, <2>1 DEF ReleaseWake, WakeLock, SynchTypeOK, LockInv, CvInv, Sleepers, Distinct,
                      LockHeldByOwner, Holds
  <2>2. CASE lk_wchan # <<>>
    <3> DEFINE h == Head(lk_wchan)
    <3>1. h \in Thread /\ pc[h] = "asleep" /\ h # t
      BY <1>6, <2>2, Dequeue DEF ReleaseWake, SynchTypeOK, LockInv, Sleepers
    <3>2. \E next \in {"out", "waitsleep"} :
             /\ pc' = [pc EXCEPT ![t] = next, ![h] = "acquire"]
             /\ next = "out" <=> pc[t] = "release"
      BY <1>6, <2>2 DEF ReleaseWake, WakeLock
    <3>3. lk_wchan' = Tail(lk_wchan) /\ lk_wchan' \in Seq(Thread)
      BY <1>6, <2>2, Dequeue, Zenon DEF ReleaseWake, WakeLock, SynchTypeOK
    <3>4. SynchTypeOK'
      BY Zenon, <1>6, <3>1, <3>2, <3>3 DEF ReleaseWake, SynchTypeOK
    <3>7. Sleepers(lk_wchan, "asleep")'
      <4>1. Distinct(lk_wchan')
        BY <2>2, <3>3, DequeueDistinct, Zenon DEF SynchTypeOK, LockInv, Sleepers
      <4>2. ASSUME NEW i \in 1 .. Len(lk_wchan') PROVE pc'[lk_wchan'[i]] = "asleep"
        <5>1. lk_wchan'[i] # h /\ \E j \in 1 .. Len(lk_wchan) : lk_wchan'[i] = lk_wchan[j]
          BY <2>2, <3>3, DequeueDistinct DEF SynchTypeOK, LockInv, Sleepers
        <5>2. lk_wchan'[i] \in Thread /\ pc[lk_wchan'[i]] = "asleep" /\ lk_wchan'[i] # t
          BY <1>6, <5>1 DEF ReleaseWake, SynchTypeOK, LockInv, Sleepers
        <5> QED BY <3>2, <5>1, <5>2 DEF SynchTypeOK
      <4> QED BY <4>1, <4>2 DEF Sleepers
    <3>5. LockHeldByOwner'
      BY <1>6, <3>1, <3>2 DEF ReleaseWake, SynchTypeOK, LockInv, LockHeldByOwner, Holds
    <3>6. CvInv'
      BY <1>6, <3>1, <3>2 DEF ReleaseWake, SynchTypeOK, CvInv, Sleepers, Distinct
    <3> QED BY <3>4, <3>5, <3>6, <3>7 DEF LockInv
  <2> QED BY <2>1, <2>2
<1> QED BY Zenon, <1>1, <1>2, <1>3, <1>4, <1>5, <1>6

\* cv_wait, cv_signal and cv_broadcast keep the invariant.
LEMMA InvCv ==
  ASSUME Inv, NEW t \in Thread,
         \/ WaitBegin(t) \/ WaitSleep(t) \/ WaitEnd(t)
         \/ Signal(t) \/ Broadcast(t) \/ SignalReturn(t)
  PROVE Inv'
<1> USE NoThreadAssumption DEF Inv, LockDoIHold
<1>1. CASE WaitBegin(t)
  BY <1>1 DEF WaitBegin, SynchTypeOK, LockInv, CvInv, Sleepers, Distinct,
              LockHeldByOwner, Holds
<1>2. CASE WaitSleep(t)
  <2>1. SynchTypeOK'
    BY <1>2, Enqueue DEF WaitSleep, SynchTypeOK
  <2>2. LockInv'
    BY <1>2 DEF WaitSleep, SynchTypeOK, LockInv, Sleepers, Distinct, LockHeldByOwner, Holds
  <2>3. Sleepers(cv_wchan, "waiting")'
    BY <1>2, Enqueue DEF WaitSleep, SynchTypeOK, CvInv, Sleepers, Distinct
  <2>4. ASSUME NEW u \in Thread, pc'[u] = "waiting"
        PROVE \E i \in 1 .. Len(cv_wchan') : cv_wchan'[i] = u
    <3>1. CASE u = t
      BY <1>2, <3>1, Enqueue DEF WaitSleep, SynchTypeOK
    <3>2. CASE u # t
      BY <1>2, <2>4, <3>2, Enqueue DEF WaitSleep, SynchTypeOK, CvInv
    <3> QED BY <3>1, <3>2
  <2>5. ASSUME NEW u \in Thread
        PROVE pc'[u] \in {"wait", "waitrelease", "waitsleep"} <=> cv_lock' = u
    BY Zenon, <1>2 DEF WaitSleep, SynchTypeOK, CvInv
  <2> QED BY <2>1, <2>2, <2>3, <2>4, <2>5 DEF CvInv
<1>3. CASE WaitEnd(t)
  BY <1>3 DEF WaitEnd, SynchTypeOK, LockInv, CvInv, Sleepers, Distinct, LockHeldByOwner,
              Holds
<1>4. CASE Signal(t)
  <2>1. CASE cv_wchan = <<>>
    BY <1>4, <2>1 DEF Signal, SynchTypeOK, LockInv, CvInv, Sleepers, Distinct,
                      LockHeldByOwner, Holds
  <2>2. CASE cv_wchan # <<>>
    <3> DEFINE h == Head(cv_wchan)
    <3>1. h \in Thread /\ pc[h] = "waiting" /\ h # t
      BY <1>4, <2>2, Dequeue DEF Signal, SynchTypeOK, CvInv, Sleepers
    <3>2. /\ pc' = [pc EXCEPT ![t] = "signal", ![h] = "woken"]
          /\ cv_wchan' = Tail(cv_wchan) /\ cv_wchan' \in Seq(Thread)
      BY <1>4, <2>2, Dequeue, Zenon DEF Signal, SynchTypeOK
    <3>3. SynchTypeOK'
      BY Zenon, <1>4, <3>1, <3>2 DEF Signal, SynchTypeOK
    <3>4. LockInv'
      BY <1>4, <3>1, <3>2
         DEF Signal, SynchTypeOK, LockInv, Sleepers, Distinct, LockHeldByOwner, Holds
    <3>5. Distinct(cv_wchan')
      BY <2>2, <3>2, DequeueDistinct, Zenon DEF SynchTypeOK, CvInv, Sleepers
    <3>6. ASSUME NEW i \in 1 .. Len(cv_wchan') PROVE pc'[cv_wchan'[i]] = "waiting"
      <4>1. cv_wchan'[i] # h /\ \E j \in 1 .. Len(cv_wchan) : cv_wchan'[i] = cv_wchan[j]
        BY <2>2, <3>2, DequeueDistinct DEF SynchTypeOK, CvInv, Sleepers
      <4>2. cv_wchan'[i] \in Thread /\ pc[cv_wchan'[i]] = "waiting" /\ cv_wchan'[i] # t
        BY <1>4, <4>1 DEF Signal, SynchTypeOK, CvInv, Sleepers
      <4> QED BY <3>2, <4>1, <4>2 DEF SynchTypeOK
    <3>7. ASSUME NEW u \in Thread, pc'[u] = "waiting"
          PROVE \E i \in 1 .. Len(cv_wchan') : cv_wchan'[i] = u
      <4>1. pc[u] = "waiting" /\ u # h
        BY <3>1, <3>2, <3>7 DEF SynchTypeOK
      <4>2. PICK j \in 1 .. Len(cv_wchan) : cv_wchan[j] = u
        BY <4>1 DEF CvInv
      <4> QED BY <2>2, <3>2, <4>1, <4>2, DequeueDistinct DEF SynchTypeOK, CvInv, Sleepers
    <3>8. ASSUME NEW u \in Thread
          PROVE pc'[u] \in {"wait", "waitrelease", "waitsleep"} <=> cv_lock' = u
      BY <1>4, <3>1, <3>2 DEF Signal, SynchTypeOK, CvInv
    <3> QED BY Zenon, <3>3, <3>4, <3>5, <3>6, <3>7, <3>8 DEF CvInv, Sleepers
  <2> QED BY Zenon, <2>1, <2>2
<1>5. CASE Broadcast(t)
  <2>1. \A u \in Range(cv_wchan) : u \in Thread /\ pc[u] = "waiting"
    BY DEF Range, SynchTypeOK, CvInv, Sleepers
  <2>2. SynchTypeOK'
    BY <1>5 DEF Broadcast, SynchTypeOK
  <2>3. LockInv'
    BY <1>5, <2>1
       DEF Broadcast, SynchTypeOK, LockInv, Sleepers, Distinct, LockHeldByOwner, Holds
  <2>4. CvInv'
    <3>1. cv_wchan' = <<>> /\ \A u \in Thread : pc'[u] # "waiting"
      BY <1>5 DEF Broadcast, Range, SynchTypeOK, CvInv
    <3> QED BY <1>5, <2>1, <3>1 DEF Broadcast, SynchTypeOK, CvInv, Sleepers, Distinct
  <2> QED BY <2>2, <2>3, <2>4
<1>6. CASE SignalReturn(t)
  BY <1>6 DEF SignalReturn, SynchTypeOK, LockInv, CvInv, Sleepers, Distinct,
              LockHeldByOwner, Holds
<1> QED BY <1>1, <1>2, <1>3, <1>4, <1>5, <1>6

\* Every step of a lock or condition variable keeps the invariant, ...
LEMMA InvNext == Inv /\ [SynchNext]_synchVars => Inv'
<1> SUFFICES ASSUME Inv, [SynchNext]_synchVars PROVE Inv'
  BY Zenon
<1>1. CASE UNCHANGED synchVars
  BY <1>1 DEF synchVars, Inv, SynchTypeOK, LockInv, CvInv, Sleepers, Distinct,
              LockHeldByOwner, Holds
<1>2. CASE SynchNext
  <2>1. PICK t \in Thread : SynchStep(t)
    BY <1>2 DEF SynchNext
  <2> QED BY <2>1, InvLock, InvCv, Zenon DEF SynchStep, SynchContinue, SynchCall
<1> QED BY <1>1, <1>2

\* ... which therefore holds always.
LEMMA InvAlways == Spec => []Inv
  BY InvInit, InvNext, PTL DEF Spec

\* The lock is exclusive, and owner, although stored outside the spinlock, names its
\* holder whenever a KASSERT asks.
THEOREM LockIsExclusive == Spec => []LockHeldByOwner
<1>1. Inv => LockHeldByOwner
  BY DEF Inv, LockInv
<1> QED BY <1>1, InvAlways, PTL

\* A free lock with sleepers has a thread on its way to it, for any number of threads.
THEOREM NoWakeupIsLost == Spec => []NoLostWakeup
<1>1. SynchInit => NoLostWakeup
  BY DEF SynchInit, NoLostWakeup
<1>2. Inv /\ NoLostWakeup /\ [SynchNext]_synchVars => NoLostWakeup'
  <2> SUFFICES ASSUME Inv, NoLostWakeup, [SynchNext]_synchVars, available',
                      lk_wchan' # <<>>
               PROVE \E t \in Thread : pc'[t] = "acquire"
    BY DEF NoLostWakeup
  <2>1. CASE UNCHANGED synchVars
    BY <2>1 DEF synchVars, NoLostWakeup
  <2>2. ASSUME NEW t \in Thread, ReleaseWake(t) PROVE \E u \in Thread : pc'[u] = "acquire"
    <3>1. lk_wchan # <<>> /\ Head(lk_wchan) \in Thread
      BY <2>2, Dequeue, Zenon DEF ReleaseWake, WakeLock, Inv, SynchTypeOK
    <3> QED BY <2>2, <3>1 DEF ReleaseWake, WakeLock, Inv, SynchTypeOK
  <2>3. ASSUME NEW t \in Thread, SynchStep(t), ~ReleaseWake(t)
        PROVE /\ available /\ lk_wchan # <<>>
              /\ \A u \in Thread : pc[u] = "acquire" => pc'[u] = "acquire"
    <3>1. CASE \/ AcquireCall(t) \/ AcquireSleep(t) \/ AcquireTake(t) \/ AcquireOwner(t)
               \/ ReleaseOwner(t)
      BY <3>1, Zenon
         DEF AcquireCall, AcquireSleep, AcquireTake, AcquireOwner, ReleaseOwner, Inv,
             SynchTypeOK
    <3>2. CASE WaitBegin(t) \/ WaitSleep(t) \/ WaitEnd(t) \/ SignalReturn(t)
      BY <3>2, Zenon DEF WaitBegin, WaitSleep, WaitEnd, SignalReturn, Inv, SynchTypeOK
    <3>3. CASE Signal(t)
      <4>1. cv_wchan # <<>> => Head(cv_wchan) \in Thread /\ pc[Head(cv_wchan)] = "waiting"
        BY Dequeue DEF Inv, SynchTypeOK, CvInv, Sleepers
      <4> QED BY <3>3, <4>1 DEF Signal, Inv, SynchTypeOK
    <3>4. CASE Broadcast(t)
      <4>1. \A u \in Range(cv_wchan) : pc[u] = "waiting"
        BY DEF Inv, Range, SynchTypeOK, CvInv, Sleepers
      <4> QED BY <3>4, <4>1 DEF Broadcast, Inv, SynchTypeOK
    <3> QED BY <2>3, <3>1, <3>2, <3>3, <3>4, Zenon DEF SynchStep, SynchContinue, SynchCall
  <2> QED BY <2>1, <2>2, <2>3, Zenon DEF SynchNext, NoLostWakeup
<1> QED BY <1>1, <1>2, InvAlways, PTL DEF Spec

---------------------------------------------------------------------------
(* The lock and the condition variable implement Monitor.                 *)

\* The mapped state, read off the one thread that can hold the lock.
Mapped(h, c) ==
  /\ \A t \in Thread : Holds(t) =>
       /\ h = t
       /\ c = IF pc[t] \in {"signal", "broadcast"} THEN pc[t] ELSE "none"
  /\ (\A t \in Thread : ~Holds(t)) => h = NoThread /\ c = "none"

\* The holder and the calls that Monitor sees, by the state of a thread.
LEMMA MappedState == Inv => Mapped(holder, call)
<1> SUFFICES ASSUME Inv PROVE Mapped(holder, call)
  OBVIOUS
<1>1. ASSUME NEW t \in Thread, Holds(t)
      PROVE /\ holder = t
            /\ call = IF pc[t] \in {"signal", "broadcast"} THEN pc[t] ELSE "none"
  <2>1. \A u \in Thread : Holds(u) => u = t
    BY <1>1 DEF Inv, LockInv, LockHeldByOwner
  <2>2. holder = t
    BY <1>1, <2>1 DEF holder
  <2>3. \A u \in Thread : pc[u] \in {"signal", "broadcast"} => u = t
    BY <2>1 DEF Holds
  <2>4. call = IF pc[t] \in {"signal", "broadcast"} THEN pc[t] ELSE "none"
    BY <2>3 DEF call
  <2> QED BY <2>2, <2>4
<1>2. ASSUME \A t \in Thread : ~Holds(t) PROVE holder = NoThread /\ call = "none"
  BY <1>2 DEF holder, call, Holds
<1> QED BY <1>1, <1>2 DEF Mapped

\* A step that changes neither the holder's place nor who waits is invisible.
LEMMA Invisible ==
  ASSUME Inv, Mapped(holder, call), Mapped(holder, call)',
         \A u \in Thread : (Holds(u) <=> Holds(u)'),
         \A u \in Thread : pc[u] \in {"signal", "broadcast"} => pc'[u] = pc[u],
         \A u \in Thread : pc'[u] \in {"signal", "broadcast"} => pc'[u] = pc[u],
         \A u \in Thread : (pc[u] \in {"waitsleep", "waiting"}
                              <=> pc'[u] \in {"waitsleep", "waiting"})
  PROVE UNCHANGED M!vars
<1>1. waiters' = waiters
  BY DEF waiters
<1>2. CASE \E t \in Thread : Holds(t)
  <2>1. PICK t \in Thread : Holds(t)
    BY Zenon, <1>2
  <2>2. holder = t /\ holder' = t
    BY <2>1 DEF Mapped
  <2>3. call' = call
    BY <2>1 DEF Mapped
  <2> QED BY <1>1, <2>2, <2>3 DEF M!vars
<1>3. CASE \A t \in Thread : ~Holds(t)
  BY <1>1, <1>3 DEF Mapped, M!vars
<1> QED BY <1>2, <1>3

\* Every step of the lock is a step of Monitor, or invisible.
LEMMA LockRefines ==
  ASSUME Inv, Mapped(holder, call), Mapped(holder, call)', NEW t \in Thread,
         \/ AcquireCall(t) \/ AcquireSleep(t) \/ AcquireTake(t) \/ AcquireOwner(t)
         \/ ReleaseOwner(t) \/ ReleaseWake(t)
  PROVE M!Next \/ UNCHANGED M!vars
<1> USE DEF Inv
<1>1. CASE AcquireCall(t) \/ AcquireSleep(t) \/ AcquireOwner(t) \/ ReleaseOwner(t)
  <2>1. /\ \A u \in Thread : (Holds(u) <=> Holds(u)')
        /\ \A u \in Thread : pc[u] \in {"signal", "broadcast"} => pc'[u] = pc[u]
        /\ \A u \in Thread : pc'[u] \in {"signal", "broadcast"} => pc'[u] = pc[u]
        /\ \A u \in Thread : (pc[u] \in {"waitsleep", "waiting"}
                                <=> pc'[u] \in {"waitsleep", "waiting"})
    BY <1>1 DEF AcquireCall, AcquireSleep, AcquireOwner, ReleaseOwner, SynchTypeOK, Holds
  <2> QED BY Zenon, <2>1, Invisible
<1>2. CASE AcquireTake(t)
  <2>1. \A u \in Thread : ~Holds(u)
    BY <1>2, Zenon DEF AcquireTake, LockInv, LockHeldByOwner
  <2>2. Holds(t)' /\ pc'[t] = "taken"
    BY Zenon, <1>2 DEF AcquireTake, SynchTypeOK, Holds
  <2>3. waiters' = waiters /\ t \notin waiters
    BY Zenon, <1>2 DEF AcquireTake, SynchTypeOK, waiters
  <2>4. holder = NoThread /\ call = "none" /\ holder' = t /\ call' = "none"
    BY <2>1, <2>2 DEF Mapped
  <2>5. M!Acquire(t)
    BY <2>3, <2>4 DEF M!Acquire
  <2> QED BY <2>5 DEF M!Next
<1>3. CASE ReleaseWake(t)
  <2>1. lk_wchan # <<>> => Head(lk_wchan) \in Thread /\ pc[Head(lk_wchan)] = "asleep"
    BY Dequeue DEF SynchTypeOK, LockInv, Sleepers
  <2>2. Holds(t) /\ pc[t] \in {"release", "waitrelease"}
    BY <1>3 DEF ReleaseWake, Holds
  <2>3. \A u \in Thread : Holds(u) => u = t
    BY Zenon, <2>2 DEF LockInv, LockHeldByOwner
  <2>4. ~Holds(t)' /\ \A u \in Thread : Holds(u)' => Holds(u)
    BY Zenon, <1>3, <2>1 DEF ReleaseWake, WakeLock, SynchTypeOK, Holds
  <2>5. holder = t /\ call = "none" /\ holder' = NoThread /\ call' = "none"
    BY <2>2, <2>3, <2>4 DEF Mapped
  <2>6. CASE pc[t] = "release"
    <3>1. waiters' = waiters
      BY Zenon, <1>3, <2>1, <2>6 DEF ReleaseWake, WakeLock, SynchTypeOK, waiters
    <3>2. M!Release(t)
      BY <2>5, <3>1 DEF M!Release
    <3> QED BY Zenon, <3>2 DEF M!Next
  <2>7. CASE pc[t] = "waitrelease"
    <3>1. waiters' = waiters \cup {t}
      BY <1>3, <2>1, <2>7 DEF ReleaseWake, WakeLock, SynchTypeOK, waiters
    <3>2. M!Wait(t)
      BY <2>5, <3>1 DEF M!Wait
    <3> QED BY Zenon, <3>2 DEF M!Next
  <2> QED BY Zenon, <2>2, <2>6, <2>7
<1> QED BY Zenon, <1>1, <1>2, <1>3

\* Every step of the condition variable is a step of Monitor, or invisible.
LEMMA CvRefines ==
  ASSUME Inv, Mapped(holder, call), Mapped(holder, call)', NEW t \in Thread,
         \/ WaitBegin(t) \/ WaitSleep(t) \/ WaitEnd(t)
         \/ Signal(t) \/ Broadcast(t) \/ SignalReturn(t)
  PROVE M!Next \/ UNCHANGED M!vars
<1> USE NoThreadAssumption DEF Inv
<1>1. CASE WaitBegin(t) \/ WaitSleep(t) \/ WaitEnd(t)
  <2>1. /\ \A u \in Thread : (Holds(u) <=> Holds(u)')
        /\ \A u \in Thread : pc[u] \in {"signal", "broadcast"} => pc'[u] = pc[u]
        /\ \A u \in Thread : pc'[u] \in {"signal", "broadcast"} => pc'[u] = pc[u]
        /\ \A u \in Thread : (pc[u] \in {"waitsleep", "waiting"}
                                <=> pc'[u] \in {"waitsleep", "waiting"})
    BY <1>1 DEF WaitBegin, WaitSleep, WaitEnd, SynchTypeOK, Holds
  <2> QED BY Zenon, <2>1, Invisible
<1>2. CASE Signal(t)
  <2>1. cv_wchan # <<>> => Head(cv_wchan) \in Thread /\ pc[Head(cv_wchan)] = "waiting"
    BY Dequeue DEF SynchTypeOK, CvInv, Sleepers
  <2>2. Holds(t) /\ pc[t] = "in" /\ Holds(t)' /\ pc'[t] = "signal"
    BY Zenon, <1>2, <2>1 DEF Signal, SynchTypeOK, Holds
  <2>3. holder = t /\ call = "none" /\ holder' = t /\ call' = "signal"
    BY <2>2 DEF Mapped
  <2>4. \/ waiters = {} /\ waiters' = {}
        \/ \E u \in waiters : waiters' = waiters \ {u}
    <3>1. CASE cv_wchan = <<>>
      <4>1. \A u \in Thread : pc[u] # "waiting"
        BY <3>1 DEF CvInv
      <4>2. \A u \in Thread : pc[u] # "waitsleep"
        BY <1>2 DEF Signal, CvInv
      <4> QED BY Zenon, <1>2, <3>1, <4>1, <4>2 DEF Signal, SynchTypeOK, waiters
    <3>2. CASE cv_wchan # <<>>
      <4> DEFINE h == Head(cv_wchan)
      <4>1. h \in waiters
        BY Zenon, <2>1, <3>2 DEF waiters
      <4>2. waiters' = waiters \ {h}
        BY <1>2, <2>1, <2>2, <3>2 DEF Signal, SynchTypeOK, waiters
      <4> QED BY <4>1, <4>2
    <3> QED BY Zenon, <3>1, <3>2
  <2>5. M!Signal(t)
    BY <2>3, <2>4, Zenon DEF M!Signal
  <2> QED BY <2>5 DEF M!Next
<1>3. CASE Broadcast(t)
  <2>1. Holds(t) /\ pc[t] = "in" /\ Holds(t)' /\ pc'[t] = "broadcast"
    BY Zenon, <1>3 DEF Broadcast, Holds
  <2>2. holder = t /\ call = "none" /\ holder' = t /\ call' = "broadcast"
    BY <2>1 DEF Mapped
  <2>3. \A u \in Thread : pc[u] # "waitsleep"
    BY Zenon, <1>3 DEF Broadcast, CvInv
  <2>4. \A u \in Thread : pc[u] = "waiting" => u \in Range(cv_wchan)
    BY DEF CvInv, Range, SynchTypeOK
  <2>5. waiters' = {}
    BY <1>3, <2>3, <2>4 DEF Broadcast, SynchTypeOK, waiters
  <2>6. M!Broadcast(t)
    BY <2>2, <2>5 DEF M!Broadcast
  <2> QED BY Zenon, <2>6 DEF M!Next
<1>4. CASE SignalReturn(t)
  <2>1. Holds(t) /\ pc[t] \in {"signal", "broadcast"} /\ Holds(t)' /\ pc'[t] = "in"
    BY Zenon, <1>4 DEF SignalReturn, SynchTypeOK, Holds
  <2>2. holder = t /\ call # "none" /\ holder' = t /\ call' = "none"
    BY Zenon, <2>1 DEF Mapped
  <2>3. waiters' = waiters
    BY Zenon, <1>4 DEF SignalReturn, SynchTypeOK, waiters
  <2>4. M!Return(t)
    BY <2>2, <2>3 DEF M!Return
  <2> QED BY Zenon, <2>4 DEF M!Next
<1> QED BY Zenon, <1>1, <1>2, <1>3, <1>4

\* The lock and the condition variable implement Monitor: mutual exclusion, a wait
\* that is atomic with the release, and signals that miss no waiter.
THEOREM SynchImplementsMonitor == Spec => ImplementsMonitor
<1>1. SynchInit => M!Init
  BY DEF SynchInit, M!Init, holder, waiters, call, Holds
<1>2. Inv /\ Inv' /\ [SynchNext]_synchVars => [M!Next]_(M!vars)
  <2> SUFFICES ASSUME Inv, Inv', [SynchNext]_synchVars PROVE M!Next \/ UNCHANGED M!vars
    OBVIOUS
  <2>1. Mapped(holder, call)
    BY MappedState
  <2>2. Mapped(holder, call)'
    BY MappedState, PTL
  <2>3. CASE UNCHANGED synchVars
    BY <2>3 DEF synchVars, M!vars, holder, waiters, call, Holds
  <2>4. CASE SynchNext
    <3>1. PICK t \in Thread : SynchStep(t)
      BY <2>4 DEF SynchNext
    <3> QED BY <2>1, <2>2, <3>1, LockRefines, CvRefines, Zenon
            DEF SynchStep, SynchContinue, SynchCall
  <2> QED BY Zenon, <2>3, <2>4
<1> QED BY <1>1, <1>2, InvAlways, PTL DEF Spec, ImplementsMonitor, M!Spec

---------------------------------------------------------------------------
(* The disk driver and its semaphores.                                     *)

Places == {"none", "lh_clear", "start", "lh_done", "result", "asleep"}

IoRecord ==
  [at : Places, rw : {"UIO_READ", "UIO_WRITE"}, sector : Word, left : Nat]

\* A thread in lhd_io has a sector to do.
Unfinished(r) == r.at # "none" => r.left > 0

DiskType ==
  /\ sem_count \in [Semaphore -> 0 .. 1]
  /\ sem_wchan \in [Semaphore -> Queue(Thread)]
  /\ STAT \in {"LHD_IDLE", "LHD_WORKING", "LHD_WORKING|LHD_ISWRITE", "LHD_OK",
               "LHD_INVSECT", "LHD_MEDIA"}
  /\ SECT \in Word
  /\ io \in [Thread -> IoRecord]
  /\ \A t \in Thread : Unfinished(io[t])

\* A thread sleeps on one of the semaphores exactly when it is on its channel.
Asleep(s) == Range(sem_wchan[s])

SleepersInv ==
  /\ Asleep("lh_clear") \cap Asleep("lh_done") = {}
  /\ \A t \in Thread :
       io[t].at = "asleep" <=> t \in Asleep("lh_clear") \cup Asleep("lh_done")

\* The thread has started a request and has not had its result.
Waiting(t) == io[t].at = "lh_done" \/ t \in Asleep("lh_done")

\* The sector of t is on the disk, and the buffer holds it if it was read.
Served(t) == io[t].sector \in Sector /\ (io[t].rw = "UIO_READ" => lh_buf = io[t].sector)

\* The request of t is under way, ...
UnderWay(t) ==
  /\ STAT # "LHD_IDLE" /\ sem_count["lh_done"] = 0
  /\ SECT = io[t].sector
  /\ io[t].rw = "UIO_WRITE" => lh_buf = t
  /\ STAT = "LHD_WORKING" => io[t].rw = "UIO_READ"
  /\ STAT = "LHD_WORKING|LHD_ISWRITE" => io[t].rw = "UIO_WRITE"
  /\ STAT = "LHD_OK" => Served(t)

\* ... or has been reported, and t is on its way to see it.
Reported(t) ==
  /\ STAT = "LHD_IDLE" /\ sem_count["lh_done"] = 1 /\ io[t].at = "lh_done"
  /\ lh_result = 0 => Served(t)

\* lh_clear is the right to the device: one thread has it or nobody does.
DeviceInv ==
  /\ \A t, u \in Thread : OnDevice(t) /\ OnDevice(u) => t = u
  /\ sem_count["lh_clear"] = 1 => \A t \in Thread : ~OnDevice(t)
  /\ STAT # "LHD_IDLE" \/ sem_count["lh_done"] = 1 => \E t \in Thread : Waiting(t)
  /\ \A t \in Thread : Waiting(t) => UnderWay(t) \/ Reported(t)
  /\ \A t \in Thread : io[t].at = "result" /\ lh_result = 0 => Served(t)

\* A free device with threads asleep on lh_clear has one that is about to look.
ClearWakeup ==
  sem_count["lh_clear"] = 1 /\ sem_wchan["lh_clear"] # <<>> =>
    \E t \in Thread : io[t].at = "lh_clear"

DiskInv == DiskType /\ SleepersInv /\ DeviceInv /\ ClearWakeup

---------------------------------------------------------------------------
(* Steps of P and V.                                                       *)

WithAt(r, a) == [r EXCEPT !.at = a]

\* What a request is after its thread has moved.
LEMMA SetAt ==
  ASSUME NEW r \in IoRecord, NEW a \in Places
  PROVE  LET n == WithAt(r, a)
         IN /\ n \in IoRecord /\ n.at = a
            /\ n.rw = r.rw /\ n.sector = r.sector /\ n.left = r.left
  BY DEF IoRecord, WithAt

\* Only t moves, to a, with its request.
Moves(t, a) ==
  /\ io' \in [Thread -> IoRecord]
  /\ \A u \in Thread : u # t => io'[u] = io[u]
  /\ io'[t].at = a /\ io'[t].rw = io[t].rw
  /\ io'[t].sector = io[t].sector /\ io'[t].left = io[t].left

\* The others stay where they are, and the request of the thread stays the same.
LEMMA MoveStep ==
  ASSUME io \in [Thread -> IoRecord], NEW t \in Thread, NEW a \in Places,
         io' = [io EXCEPT ![t].at = a]
  PROVE  Moves(t, a)
<1> DEFINE n == WithAt(io[t], a)
<1>1. io' = [io EXCEPT ![t] = n]
  BY DEF WithAt
<1>2. /\ n \in IoRecord /\ n.at = a /\ n.rw = io[t].rw /\ n.sector = io[t].sector
      /\ n.left = io[t].left
  BY SetAt
<1> HIDE DEF n
<1> QED BY <1>1, <1>2 DEF Moves

\* P either puts the caller to sleep or takes one off the count.
LEMMA PStep ==
  ASSUME DiskType, SleepersInv, NEW t \in Thread, NEW s \in Semaphore, NEW next \in Places,
         P(t, s, next)
  PROVE  /\ io[t].at = s
         /\ \/ /\ sem_count[s] = 0 /\ sem_count' = sem_count
               /\ sem_wchan' \in [Semaphore -> Queue(Thread)]
               /\ Asleep(s)' = Asleep(s) \cup {t}
               /\ \A r \in Semaphore : r # s => sem_wchan'[r] = sem_wchan[r]
               /\ Moves(t, "asleep")
            \/ /\ sem_count[s] = 1 /\ sem_count' \in [Semaphore -> 0 .. 1] /\ sem_count'[s] = 0
               /\ \A r \in Semaphore : r # s => sem_count'[r] = sem_count[r]
               /\ sem_wchan' = sem_wchan
               /\ Moves(t, next)
<1>1. io[t].at = s
  BY DEF P
<1>2. CASE /\ sem_count[s] = 0
           /\ sem_wchan' = [sem_wchan EXCEPT ![s] = Append(@, t)]
           /\ io' = [io EXCEPT ![t].at = "asleep"]
           /\ UNCHANGED sem_count
  <2>1. t \notin Range(sem_wchan[s]) /\ sem_wchan[s] \in Queue(Thread)
    BY <1>1 DEF SleepersInv, Asleep, Semaphore, DiskType
  <2>2. /\ Append(sem_wchan[s], t) \in Queue(Thread)
        /\ Range(Append(sem_wchan[s], t)) = Range(sem_wchan[s]) \cup {t}
    BY <2>1, QueueAppend
  <2>3. Moves(t, "asleep")
    BY Zenon, <1>2, MoveStep DEF DiskType, Places
  <2> QED BY Zenon, <1>1, <1>2, <2>2, <2>3 DEF DiskType, Asleep
<1>3. CASE /\ sem_count[s] > 0
           /\ sem_count' = [sem_count EXCEPT ![s] = @ - 1]
           /\ io' = [io EXCEPT ![t].at = next]
           /\ UNCHANGED sem_wchan
  <2>1. Moves(t, next)
    BY Zenon, <1>3, MoveStep DEF DiskType
  <2> QED BY <1>1, <1>3, <2>1 DEF DiskType
<1> QED BY <1>1, <1>2, <1>3 DEF P

\* V counts, and wakes the first sleeper if there is one.
LEMMA VStep ==
  ASSUME DiskType, NEW s \in Semaphore, NEW io1 \in [Thread -> IoRecord],
         sem_count[s] = 0, V(s, io1)
  PROVE  /\ sem_count' \in [Semaphore -> 0 .. 1] /\ sem_count'[s] = 1
         /\ \A r \in Semaphore : r # s => sem_count'[r] = sem_count[r]
         /\ io' \in [Thread -> IoRecord] /\ sem_wchan' \in [Semaphore -> Queue(Thread)]
         /\ \A r \in Semaphore : r # s => sem_wchan'[r] = sem_wchan[r]
         /\ \/ sem_wchan[s] = <<>> /\ io' = io1 /\ sem_wchan' = sem_wchan
            \/ \E h \in Asleep(s) :
                 /\ h \in Thread
                 /\ \A u \in Thread : u # h => io'[u] = io1[u]
                 /\ io'[h].at = s /\ io'[h].rw = io1[h].rw
                 /\ io'[h].sector = io1[h].sector /\ io'[h].left = io1[h].left
                 /\ Asleep(s)' = Asleep(s) \ {h}
<1>0. sem_wchan[s] \in Queue(Thread) /\ s \in Places
  BY DEF DiskType, Semaphore, Places
<1>1. /\ sem_count' \in [Semaphore -> 0 .. 1] /\ sem_count'[s] = 1
      /\ \A r \in Semaphore : r # s => sem_count'[r] = sem_count[r]
  BY DEF V, DiskType
<1>2. CASE sem_wchan[s] = <<>>
  BY Zenon, <1>1, <1>2 DEF V, DiskType
<1>3. CASE sem_wchan[s] # <<>>
  <2> DEFINE h == Head(sem_wchan[s])
             q == Tail(sem_wchan[s])
             n == WithAt(io1[h], s)
  <2>1. /\ h \in Thread /\ h \in Range(sem_wchan[s]) /\ q \in Queue(Thread)
        /\ Range(q) = Range(sem_wchan[s]) \ {h}
    BY <1>0, <1>3, QueueTail
  <2>2. sem_wchan' = [sem_wchan EXCEPT ![s] = q]
    BY <1>3 DEF V
  <2>3. io' = [io1 EXCEPT ![h] = n]
    BY Zenon, <1>3 DEF V, WithAt
  <2>4. /\ n \in IoRecord /\ n.at = s /\ n.rw = io1[h].rw /\ n.sector = io1[h].sector
        /\ n.left = io1[h].left
    BY <1>0, <2>1, SetAt
  <2> HIDE DEF h, q, n
  <2>5. sem_wchan' \in [Semaphore -> Queue(Thread)] /\ sem_wchan'[s] = q
        /\ \A r \in Semaphore : r # s => sem_wchan'[r] = sem_wchan[r]
    BY Zenon, <2>1, <2>2 DEF DiskType
  <2>6. /\ io' \in [Thread -> IoRecord] /\ io'[h] = n
        /\ \A u \in Thread : u # h => io'[u] = io1[u]
    BY Zenon, <2>1, <2>3, <2>4
  <2> QED BY Zenon, <1>1, <2>1, <2>4, <2>5, <2>6 DEF Asleep
<1> QED BY <1>2, <1>3

---------------------------------------------------------------------------
(* The actions of lhd_io and of the device.                                *)

\* A thread has the device exactly when it is at one of these places.
LEMMA Possession ==
  ASSUME DiskInv, NEW t \in Thread
  PROVE  /\ OnDevice(t) <=> io[t].at \in {"start", "result"} \/ Waiting(t)
         /\ Waiting(t) <=> io[t].at = "lh_done" \/ t \in Asleep("lh_done")
         /\ t \in Asleep("lh_done") => io[t].at = "asleep" /\ t \notin Asleep("lh_clear")
         /\ OnDevice(t) => sem_count["lh_clear"] = 0
         /\ io[t].at \in {"start", "result"} =>
              /\ STAT = "LHD_IDLE" /\ sem_count["lh_done"] = 0
              /\ \A u \in Thread : ~Waiting(u)
<1> USE DEF DiskInv
<1>1. /\ OnDevice(t) <=> io[t].at \in {"start", "result"} \/ Waiting(t)
      /\ Waiting(t) <=> io[t].at = "lh_done" \/ t \in Asleep("lh_done")
  BY Zenon DEF OnDevice, Waiting, Asleep
<1>2. t \in Asleep("lh_done") => io[t].at = "asleep" /\ t \notin Asleep("lh_clear")
  BY DEF SleepersInv
<1>3. sem_count["lh_clear"] \in 0 .. 1 /\ sem_count["lh_done"] \in 0 .. 1
  BY Zenon DEF DiskType, Semaphore
<1>4. OnDevice(t) => sem_count["lh_clear"] = 0
  BY <1>3 DEF DeviceInv
<1>5. ASSUME io[t].at \in {"start", "result"}, NEW u \in Thread, Waiting(u) PROVE FALSE
  <2>1. OnDevice(t) /\ OnDevice(u)
    BY <1>5 DEF OnDevice, Waiting, Asleep
  <2>2. u = t
    BY Zenon, <2>1 DEF DeviceInv
  <2> QED BY <1>2, <1>5, <2>2 DEF Waiting
<1>6. io[t].at \in {"start", "result"} => STAT = "LHD_IDLE" /\ sem_count["lh_done"] = 0
  BY <1>3, <1>5 DEF DeviceInv
<1> QED BY Zenon, <1>1, <1>2, <1>4, <1>5, <1>6

\* What is taken modulo WORD fits a word.
LEMMA InWord == ASSUME NEW n \in Nat PROVE n % WORD \in Word
  BY DiskAssumption DEF Word

\* A thread outside lhd_io has a record, and nothing to do there.
LEMMA NoIoRecord ==
  0 \in Word /\ NoIo \in IoRecord /\ NoIo.at = "none" /\ Unfinished(NoIo)
<1>1. 0 \in Word
  BY DiskAssumption DEF Word
<1> QED BY <1>1 DEF NoIo, IoRecord, Places, Unfinished

\* At first the driver is idle and nobody sleeps.
LEMMA DiskInvInit == Init => DiskInv
<1> SUFFICES ASSUME Init PROVE DiskInv
  OBVIOUS
<1> USE DEF Init, DiskInit
<1>1. \A s \in Semaphore : sem_wchan[s] = <<>> /\ Asleep(s) = {}
  BY EmptyQueue DEF Asleep
<1>2. NoIo \in IoRecord /\ NoIo.at = "none"
  BY NoIoRecord
<1>3. sem_wchan["lh_done"] = <<>> /\ Asleep("lh_done") = {} /\ Asleep("lh_clear") = {}
      /\ Range(sem_wchan["lh_done"]) = {} /\ sem_wchan["lh_clear"] = <<>>
  BY <1>1 DEF Semaphore, Asleep
<1>4. sem_count["lh_clear"] = 1 /\ sem_count["lh_done"] = 0
  BY DEF SemInit, Semaphore
<1>5. \A t \in Thread : io[t].at = "none"
  BY Zenon, <1>2
<1>6. DiskType
  BY <1>1, <1>2, <1>5, EmptyQueue, NoIoRecord DEF DiskType, SemInit, Unfinished
<1>7. \A t \in Thread : ~OnDevice(t) /\ ~Waiting(t)
  BY Zenon, <1>3, <1>5 DEF OnDevice, Waiting
<1>8. SleepersInv /\ DeviceInv /\ ClearWakeup
  BY <1>3, <1>4, <1>5, <1>7 DEF SleepersInv, DeviceInv, ClearWakeup
<1> QED BY <1>6, <1>8 DEF DiskInv

\* A call of lhd_io starts at P(lh_clear).
LEMMA IoCallStep ==
  ASSUME DiskInv, NEW t \in Thread, NEW r \in Request, IoCall(t, r)
  PROVE  DiskInv'
<1> USE DEF DiskInv
<1> DEFINE n == [at |-> "lh_clear", rw |-> r.rw, sector |-> FirstSector(r),
               left |-> r.len]
<1>1. /\ io[t].at = "none" /\ io' = [io EXCEPT ![t] = n]
      /\ sem_count' = sem_count /\ sem_wchan' = sem_wchan /\ lh_result' = lh_result
      /\ STAT' = STAT /\ SECT' = SECT /\ lh_buf' = lh_buf
  BY Zenon DEF IoCall
<1>2. n \in IoRecord /\ n.at = "lh_clear" /\ Unfinished(n)
  <2>1. r.rw \in {"UIO_READ", "UIO_WRITE"} /\ r.sector \in Nat /\ r.len \in Nat /\ r.len > 0
    BY DiskAssumption
  <2>2. FirstSector(r) \in Word
    BY <2>1, InWord DEF FirstSector
  <2> QED BY <2>1, <2>2 DEF IoRecord, Places, Unfinished
<1> HIDE DEF n
<1>3. /\ io' \in [Thread -> IoRecord] /\ io'[t] = n
      /\ \A u \in Thread : u # t => io'[u] = io[u]
  BY Zenon, <1>1, <1>2 DEF DiskType
<1>4. DiskType'
  BY <1>1, <1>2, <1>3 DEF DiskType, Unfinished
<1>5. Asleep("lh_clear")' = Asleep("lh_clear") /\ Asleep("lh_done")' = Asleep("lh_done")
  BY <1>1 DEF Asleep
<1>6. t \notin Asleep("lh_clear") /\ t \notin Asleep("lh_done")
  BY Zenon, <1>1 DEF SleepersInv
<1>7. SleepersInv'
  BY Zenon, <1>1, <1>2, <1>3, <1>5, <1>6 DEF SleepersInv
<1>8. ASSUME NEW u \in Thread
      PROVE  /\ OnDevice(u)' <=> OnDevice(u)
             /\ Waiting(u)' <=> Waiting(u)
             /\ OnDevice(u) => u # t
  BY Zenon, <1>1, <1>2, <1>3, <1>5, <1>6 DEF OnDevice, Waiting, Asleep
<1>9. DeviceInv'
  <2>1. \A u \in Thread : Waiting(u) => u # t
    BY Zenon, <1>1, <1>6 DEF Waiting
  <2>2. \A u \in Thread : Waiting(u)' => UnderWay(u)' \/ Reported(u)'
    BY ZenonT(60), <1>1, <1>3, <1>8, <2>1 DEF DeviceInv, UnderWay, Reported, Served
  <2>3. \A u \in Thread : io'[u].at = "result" /\ lh_result' = 0 => Served(u)'
    BY <1>1, <1>2, <1>3 DEF DeviceInv, Served
  <2> QED BY Zenon, <1>1, <1>8, <2>2, <2>3 DEF DeviceInv
<1>10. ClearWakeup'
  BY Zenon, <1>2, <1>3 DEF ClearWakeup
<1> QED BY Zenon, <1>4, <1>7, <1>9, <1>10

\* P(lh_clear) takes the device or sleeps.
LEMMA WaitClearStep ==
  ASSUME DiskInv, NEW t \in Thread, WaitClear(t)
  PROVE  DiskInv'
<1> USE DEF DiskInv
<1>1. P(t, "lh_clear", "start") /\ UNCHANGED <<lh_result, STAT, SECT, lh_buf>>
  BY DEF WaitClear
<1> "lh_clear" \in Semaphore /\ "lh_done" \in Semaphore /\ "start" \in Places
  BY DEF Semaphore, Places
<1>2. /\ io[t].at = "lh_clear"
      /\ t \notin Asleep("lh_clear") /\ t \notin Asleep("lh_done")
  BY <1>1 DEF SleepersInv, P
<1>3. CASE /\ sem_count["lh_clear"] = 0 /\ sem_count' = sem_count
           /\ sem_wchan' \in [Semaphore -> Queue(Thread)]
           /\ Asleep("lh_clear")' = Asleep("lh_clear") \cup {t}
           /\ sem_wchan'["lh_done"] = sem_wchan["lh_done"]
           /\ Moves(t, "asleep")
  <2>1. DiskType'
    BY Zenon, <1>1, <1>2, <1>3 DEF DiskType, Moves, Unfinished
  <2>2. Asleep("lh_done")' = Asleep("lh_done")
    BY <1>3 DEF Asleep
  <2>3. SleepersInv'
    BY ZenonT(60), <1>2, <1>3, <2>2 DEF SleepersInv, Moves
  <2>4. \A u \in Thread : /\ OnDevice(u)' <=> OnDevice(u)
                          /\ Waiting(u)' <=> Waiting(u)
                          /\ Waiting(u) => u # t
    BY Zenon, <1>2, <1>3, <2>2 DEF OnDevice, Waiting, Asleep, Moves
  <2>5. \A u \in Thread : Waiting(u)' => UnderWay(u)' \/ Reported(u)'
    BY <1>1, <1>3, <2>4 DEF DeviceInv, UnderWay, Reported, Served, Moves
  <2>6. \A u \in Thread : io'[u].at = "result" /\ lh_result' = 0 => Served(u)'
    BY ZenonT(60), <1>1, <1>3 DEF DeviceInv, Served, Moves
  <2>7. DeviceInv'
    BY Zenon, <1>1, <1>3, <2>4, <2>5, <2>6 DEF DeviceInv
  <2>8. ClearWakeup'
    BY <1>3 DEF ClearWakeup
  <2> QED BY Zenon, <2>1, <2>3, <2>7, <2>8
<1>4. CASE /\ sem_count["lh_clear"] = 1 /\ sem_count' \in [Semaphore -> 0 .. 1]
           /\ sem_count'["lh_clear"] = 0 /\ sem_count'["lh_done"] = sem_count["lh_done"]
           /\ sem_wchan' = sem_wchan
           /\ Moves(t, "start")
  <2>1. DiskType'
    BY Zenon, <1>1, <1>2, <1>4 DEF DiskType, Moves, Unfinished
  <2>2. /\ Asleep("lh_clear")' = Asleep("lh_clear")
        /\ Asleep("lh_done")' = Asleep("lh_done")
    BY <1>4 DEF Asleep
  <2>3. SleepersInv'
    BY Zenon, <1>2, <1>4, <2>2 DEF SleepersInv, Moves
  <2>4. \A u \in Thread : ~OnDevice(u) /\ ~Waiting(u)
    BY Zenon, <1>4, Possession DEF DeviceInv
  <2>5. \A u \in Thread : ~Waiting(u)' /\ (OnDevice(u)' => u = t)
    BY <1>2, <1>4, <2>2, <2>4 DEF OnDevice, Waiting, Asleep, Moves
  <2>6. \A u \in Thread : io'[u].at # "result"
    BY Zenon, <1>4, <2>4 DEF Moves, OnDevice
  <2>7. DeviceInv'
    <3>1. STAT = "LHD_IDLE" /\ sem_count["lh_done"] # 1
      BY Zenon, <2>4 DEF DeviceInv
    <3>2. STAT' = "LHD_IDLE" /\ sem_count'["lh_done"] # 1 /\ sem_count'["lh_clear"] # 1
      BY <1>1, <1>4, <3>1
    <3> QED BY Zenon, <2>5, <2>6, <3>2 DEF DeviceInv
  <2>8. ClearWakeup'
    BY <1>4 DEF ClearWakeup
  <2> QED BY Zenon, <2>1, <2>3, <2>7, <2>8
<1>5. "lh_done" # "lh_clear"
  OBVIOUS
<1> QED BY <1>1, <1>3, <1>4, <1>5, PStep

\* The holder of lh_clear loads the registers and starts the device, ...
LEMMA StartStep ==
  ASSUME DiskInv, NEW t \in Thread, Start(t)
  PROVE  DiskInv'
<1> USE DEF DiskInv
<1>1. /\ io[t].at = "start"
      /\ lh_buf' = IF io[t].rw = "UIO_WRITE" THEN t ELSE lh_buf
      /\ SECT' = io[t].sector
      /\ STAT' = IF io[t].rw = "UIO_WRITE" THEN "LHD_WORKING|LHD_ISWRITE" ELSE "LHD_WORKING"
      /\ sem_count' = sem_count /\ sem_wchan' = sem_wchan /\ lh_result' = lh_result
  BY DEF Start
<1>2. Moves(t, "lh_done")
  BY Zenon, MoveStep DEF Start, DiskType, Places
<1>3. /\ sem_count["lh_done"] = 0 /\ sem_count["lh_clear"] = 0
      /\ \A u \in Thread : ~Waiting(u)
      /\ \A u \in Thread : OnDevice(u) => u = t
      /\ t \notin Asleep("lh_clear") /\ t \notin Asleep("lh_done")
  BY Zenon, <1>1, Possession DEF DeviceInv, SleepersInv
<1>4. Asleep("lh_clear")' = Asleep("lh_clear") /\ Asleep("lh_done")' = Asleep("lh_done")
  BY <1>1 DEF Asleep
<1>5. io[t] \in IoRecord /\ Unfinished(io[t])
  BY Zenon DEF DiskType
<1>6. io[t].sector \in Word /\ io[t].left \in Nat /\ io[t].rw \in {"UIO_READ", "UIO_WRITE"}
  BY Zenon, <1>5 DEF IoRecord
<1>7. SECT' \in Word
  BY Zenon, <1>1, <1>6
<1>8. DiskType'
  BY Zenon, <1>1, <1>2, <1>7 DEF DiskType, Moves, Unfinished
<1>9. SleepersInv'
  BY Zenon, <1>1, <1>2, <1>3, <1>4 DEF SleepersInv, Moves
<1>10. \A u \in Thread : (OnDevice(u)' => u = t) /\ (Waiting(u)' => u = t) /\ Waiting(t)'
  BY Zenon, <1>1, <1>2, <1>3, <1>4 DEF OnDevice, Waiting, Asleep, Moves
<1>11. UnderWay(t)'
  BY Zenon, <1>1, <1>2, <1>3, <1>6 DEF UnderWay, Moves
<1>12. \A u \in Thread : io'[u].at # "result"
  BY Zenon, <1>1, <1>2, <1>3 DEF Moves, OnDevice
<1>13. DeviceInv'
  BY Zenon, <1>1, <1>3, <1>10, <1>11, <1>12 DEF DeviceInv
<1>14. ClearWakeup'
  BY <1>1, <1>3 DEF ClearWakeup
<1> QED BY <1>8, <1>9, <1>13, <1>14

\* The thread that has the device gives it up, and goes to n: out of lhd_io, or to the
\* wait for its next sector.
LEMMA GiveUpStep ==
  ASSUME DiskInv, NEW t \in Thread, io[t].at \in {"start", "result"},
         NEW n \in IoRecord, n.at \in {"none", "lh_clear"}, Unfinished(n),
         V("lh_clear", [io EXCEPT ![t] = n]), UNCHANGED <<lh_result, STAT, SECT, lh_buf>>
  PROVE  DiskInv'
<1> USE DEF DiskInv
<1> DEFINE io1 == [io EXCEPT ![t] = n]
<1> "lh_clear" \in Semaphore /\ "lh_done" \in Semaphore /\ "lh_done" # "lh_clear"
  BY DEF Semaphore
<1>1. /\ io1 \in [Thread -> IoRecord] /\ io1[t] = n
      /\ \A u \in Thread : u # t => io1[u] = io[u]
  BY Zenon DEF DiskType
<1>2. /\ sem_count["lh_clear"] = 0 /\ sem_count["lh_done"] = 0 /\ STAT = "LHD_IDLE"
      /\ \A u \in Thread : ~Waiting(u) /\ (OnDevice(u) => u = t)
      /\ t \notin Asleep("lh_clear") /\ t \notin Asleep("lh_done")
  BY Possession DEF DeviceInv, SleepersInv
<1>3. V("lh_clear", io1)
  BY Zenon
<1> HIDE DEF io1
<1>4. /\ sem_count' \in [Semaphore -> 0 .. 1] /\ sem_count'["lh_clear"] = 1
      /\ sem_count'["lh_done"] = 0
      /\ io' \in [Thread -> IoRecord] /\ sem_wchan' \in [Semaphore -> Queue(Thread)]
      /\ Asleep("lh_done")' = Asleep("lh_done")
  BY <1>1, <1>2, <1>3, VStep DEF Asleep
<1>5. \/ sem_wchan["lh_clear"] = <<>> /\ io' = io1 /\ sem_wchan' = sem_wchan
      \/ \E h \in Asleep("lh_clear") :
           /\ h \in Thread
           /\ \A u \in Thread : u # h => io'[u] = io1[u]
           /\ io'[h].at = "lh_clear" /\ io'[h].rw = io1[h].rw
           /\ io'[h].sector = io1[h].sector /\ io'[h].left = io1[h].left
           /\ Asleep("lh_clear")' = Asleep("lh_clear") \ {h}
  BY <1>1, <1>2, <1>3, VStep
<1>6. \A u \in Thread : Unfinished(io1[u])
  BY <1>1 DEF DiskType
<1>7. DiskType'
  <2>1. \A u \in Thread : Unfinished(io[u])'
    BY Zenon, <1>1, <1>5, <1>6 DEF SleepersInv, Unfinished
  <2> QED BY Zenon, <1>4, <2>1 DEF DiskType, Unfinished
<1>8. SleepersInv'
  <2>1. CASE sem_wchan["lh_clear"] = <<>> /\ io' = io1 /\ sem_wchan' = sem_wchan
    <3>1. Asleep("lh_clear")' = Asleep("lh_clear")
      BY Zenon, <2>1 DEF Asleep
    <3> QED BY Zenon, <1>1, <1>2, <1>4, <2>1, <3>1 DEF SleepersInv
  <2>2. ASSUME NEW h \in Asleep("lh_clear"), h \in Thread,
               \A u \in Thread : u # h => io'[u] = io1[u], io'[h].at = "lh_clear",
               Asleep("lh_clear")' = Asleep("lh_clear") \ {h}
        PROVE  SleepersInv'
    <3>1. h # t /\ h \notin Asleep("lh_done")
      BY Zenon, <1>2 DEF SleepersInv
    <3>2. ASSUME NEW u \in Thread
          PROVE  io'[u].at = "asleep" <=> u \in Asleep("lh_clear")' \cup Asleep("lh_done")'
      <4>1. CASE u = h
        BY Zenon, <1>4, <2>2, <3>1, <4>1
      <4>2. CASE u = t
        <5>1. io'[u].at # "asleep"
          BY Zenon, <1>1, <2>2, <3>1, <4>2
        <5> QED BY Zenon, <1>2, <1>4, <2>2, <4>2, <5>1
      <4>3. CASE u # h /\ u # t
        <5>1. io'[u] = io[u]
          BY Zenon, <1>1, <2>2, <4>3
        <5> QED BY <1>4, <2>2, <4>3, <5>1 DEF SleepersInv
      <4> QED BY Zenon, <4>1, <4>2, <4>3
    <3>3. Asleep("lh_clear")' \cap Asleep("lh_done")' = {}
      BY <1>4, <2>2 DEF SleepersInv
    <3> QED BY Zenon, <3>2, <3>3 DEF SleepersInv
  <2> QED BY Zenon, <1>5, <2>1, <2>2
<1>9. \A u \in Thread : io'[u].at \notin {"start", "lh_done", "result"}
  BY Zenon, <1>1, <1>2, <1>5 DEF OnDevice
<1>10. \A u \in Thread : ~OnDevice(u)' /\ ~Waiting(u)'
  BY Zenon, <1>2, <1>4, <1>9 DEF OnDevice, Waiting, Asleep
<1>11. DeviceInv'
  BY Zenon, <1>2, <1>4, <1>9, <1>10 DEF DeviceInv
<1>12. ClearWakeup'
  BY <1>5 DEF ClearWakeup
<1> QED BY Zenon, <1>7, <1>8, <1>11, <1>12

\* ... or fails to copy what is to be written, and gives the device up.
LEMMA StartFailsStep ==
  ASSUME DiskInv, NEW t \in Thread, StartFails(t)
  PROVE  DiskInv'
<1>1. NoIo \in IoRecord /\ NoIo.at \in {"none", "lh_clear"} /\ Unfinished(NoIo)
  BY NoIoRecord
<1> QED BY Zenon, <1>1, GiveUpStep DEF StartFails

\* The result is read before lh_clear is given up.
LEMMA FinishStep ==
  ASSUME DiskInv, NEW t \in Thread, Finish(t)
  PROVE  DiskInv'
<1>1. PICK result : V("lh_clear", [io EXCEPT ![t] = AfterSector(t, result)])
  BY Zenon DEF Finish
<1> DEFINE n == AfterSector(t, result)
<1>2. /\ io[t] \in IoRecord /\ Unfinished(io[t]) /\ io[t].at = "result"
      /\ UNCHANGED <<lh_result, STAT, SECT, lh_buf>>
  BY DEF Finish, DiskInv, DiskType
<1>3. n \in IoRecord /\ n.at \in {"none", "lh_clear"} /\ Unfinished(n)
  <2>1. CASE result # 0 \/ LastSector(t)
    BY Zenon, <2>1, NoIoRecord DEF AfterSector
  <2>2. CASE ~(result # 0 \/ LastSector(t))
    <3>1. n = [at |-> "lh_clear", rw |-> io[t].rw, sector |-> (io[t].sector + 1) % WORD,
               left |-> io[t].left - 1]
      BY Zenon, <2>2 DEF AfterSector
    <3>2. /\ io[t].rw \in {"UIO_READ", "UIO_WRITE"}
          /\ io[t].sector \in Word /\ io[t].left \in Nat
      BY Zenon, <1>2 DEF IoRecord
    <3>3. io[t].left > 1
      BY <1>2, <2>2, <3>2 DEF LastSector, Unfinished
    <3>4. io[t].left - 1 \in Nat /\ io[t].left - 1 > 0
      BY <3>2, <3>3
    <3>5. (io[t].sector + 1) % WORD \in Word
      BY <3>2, InWord, DiskAssumption DEF Word
    <3> HIDE DEF n
    <3> QED BY Zenon, <3>1, <3>2, <3>4, <3>5 DEF IoRecord, Places, Unfinished
  <2> QED BY Zenon, <2>1, <2>2
<1> HIDE DEF n
<1>4. V("lh_clear", [io EXCEPT ![t] = n])
  BY Zenon, <1>1 DEF n
<1> QED BY Zenon, <1>2, <1>3, <1>4, GiveUpStep

\* P(lh_done) waits for the interrupt handler.
LEMMA WaitDoneStep ==
  ASSUME DiskInv, NEW t \in Thread, WaitDone(t)
  PROVE  DiskInv'
<1> USE DEF DiskInv
<1>1. P(t, "lh_done", "result") /\ UNCHANGED <<lh_result, STAT, SECT, lh_buf>>
  BY DEF WaitDone
<1> "lh_clear" \in Semaphore /\ "lh_done" \in Semaphore /\ "result" \in Places
    /\ "lh_done" # "lh_clear"
  BY DEF Semaphore, Places
<1>2. /\ io[t].at = "lh_done" /\ Waiting(t) /\ OnDevice(t)
      /\ t \notin Asleep("lh_clear") /\ t \notin Asleep("lh_done")
      /\ sem_count["lh_clear"] = 0
      /\ \A u \in Thread : OnDevice(u) => u = t
      /\ UnderWay(t) \/ Reported(t)
  BY <1>1, Possession DEF SleepersInv, DeviceInv, P
<1>3. CASE /\ sem_count["lh_done"] = 0 /\ sem_count' = sem_count
           /\ sem_wchan' \in [Semaphore -> Queue(Thread)]
           /\ Asleep("lh_done")' = Asleep("lh_done") \cup {t}
           /\ sem_wchan'["lh_clear"] = sem_wchan["lh_clear"]
           /\ Moves(t, "asleep")
  <2>1. DiskType'
    BY <1>1, <1>2, <1>3 DEF DiskType, Moves, Unfinished
  <2>2. Asleep("lh_clear")' = Asleep("lh_clear")
    BY Zenon, <1>3 DEF Asleep
  <2>3. SleepersInv'
    BY ZenonT(60), <1>2, <1>3, <2>2 DEF SleepersInv, Moves
  <2>4. \A u \in Thread : /\ OnDevice(u)' <=> u = t
                          /\ Waiting(u)' <=> u = t
    BY Zenon, <1>2, <1>3 DEF OnDevice, Waiting, Asleep, Moves
  <2>5. UnderWay(t)'
    BY <1>1, <1>2, <1>3 DEF UnderWay, Reported, Served, Moves
  <2>6. \A u \in Thread : io'[u].at # "result"
    BY <1>2, <1>3 DEF Moves, OnDevice
  <2>7. DeviceInv'
    BY Zenon, <1>1, <1>2, <1>3, <2>4, <2>5, <2>6 DEF DeviceInv
  <2>8. ClearWakeup'
    BY <1>2, <1>3 DEF ClearWakeup
  <2> QED BY Zenon, <2>1, <2>3, <2>7, <2>8
<1>4. CASE /\ sem_count["lh_done"] = 1 /\ sem_count' \in [Semaphore -> 0 .. 1]
           /\ sem_count'["lh_done"] = 0 /\ sem_count'["lh_clear"] = sem_count["lh_clear"]
           /\ sem_wchan' = sem_wchan
           /\ Moves(t, "result")
  <2>1. DiskType'
    BY <1>1, <1>2, <1>4 DEF DiskType, Moves, Unfinished
  <2>2. /\ Asleep("lh_clear")' = Asleep("lh_clear")
        /\ Asleep("lh_done")' = Asleep("lh_done")
    BY Zenon, <1>4 DEF Asleep
  <2>3. SleepersInv'
    BY ZenonT(60), <1>2, <1>4, <2>2 DEF SleepersInv, Moves
  <2>4. Reported(t)
    BY <1>2, <1>4 DEF UnderWay
  <2>5. \A u \in Thread : ~Waiting(u)' /\ (OnDevice(u)' => u = t)
    BY <1>2, <1>4, <2>2 DEF OnDevice, Waiting, Asleep, Moves
  <2>6. \A u \in Thread : io'[u].at = "result" /\ lh_result' = 0 => Served(u)'
    BY ZenonT(60), <1>1, <1>2, <1>4, <2>4 DEF DeviceInv, OnDevice, Reported, Served, Moves
  <2>7. DeviceInv'
    BY Zenon, <1>1, <1>2, <1>4, <2>4, <2>5, <2>6 DEF DeviceInv, Reported
  <2>8. ClearWakeup'
    BY <1>2, <1>4 DEF ClearWakeup
  <2> QED BY Zenon, <2>1, <2>3, <2>7, <2>8
<1> QED BY Zenon, <1>1, <1>3, <1>4, PStep

\* The device ends a request it was given.
LEMMA DeviceDoneStep == ASSUME DiskInv, DeviceDone PROVE DiskInv'
<1> USE DEF DiskInv
<1>1. /\ sem_count' = sem_count /\ sem_wchan' = sem_wchan /\ lh_result' = lh_result
      /\ SECT' = SECT /\ io' = io
      /\ STAT \in {"LHD_WORKING", "LHD_WORKING|LHD_ISWRITE"}
      /\ STAT' \in {"LHD_OK", "LHD_INVSECT", "LHD_MEDIA"}
      /\ STAT = "LHD_WORKING|LHD_ISWRITE" => lh_buf' = lh_buf
      /\ STAT' = "LHD_OK" => SECT \in Sector /\ (STAT = "LHD_WORKING" => lh_buf' = SECT)
  BY Zenon DEF DeviceDone
<1>2. DiskType' /\ SleepersInv' /\ ClearWakeup'
  BY Zenon, <1>1 DEF DiskType, Unfinished, SleepersInv, ClearWakeup, Asleep
<1>3. \A u \in Thread : (OnDevice(u)' <=> OnDevice(u)) /\ (Waiting(u)' <=> Waiting(u))
  BY <1>1 DEF OnDevice, Waiting, Asleep
<1>4. \A u \in Thread : io[u].at # "result"
  BY Zenon, <1>1, Possession
<1>5. \A u \in Thread : Waiting(u) => UnderWay(u)'
  <2> SUFFICES ASSUME NEW u \in Thread, Waiting(u) PROVE UnderWay(u)'
    OBVIOUS
  <2>1. UnderWay(u) /\ io[u].rw \in {"UIO_READ", "UIO_WRITE"}
    BY Zenon, <1>1 DEF DeviceInv, Reported, DiskType, IoRecord
  <2> QED BY <1>1, <2>1 DEF UnderWay, Served
<1>6. DeviceInv'
  BY Zenon, <1>1, <1>3, <1>4, <1>5 DEF DeviceInv
<1> QED BY <1>2, <1>6

\* The interrupt finds the one thread that waits in P(lh_done), asleep or about to.
LEMMA LhdIrqStep == ASSUME DiskInv, LhdIrq PROVE DiskInv'
<1> USE DEF DiskInv
<1> "lh_clear" \in Semaphore /\ "lh_done" \in Semaphore /\ "lh_done" # "lh_clear"
  BY Zenon DEF Semaphore
<1>1. /\ STAT \in {"LHD_OK", "LHD_INVSECT", "LHD_MEDIA"} /\ STAT' = "LHD_IDLE"
      /\ lh_result' = 0 => STAT = "LHD_OK"
      /\ V("lh_done", io) /\ SECT' = SECT /\ lh_buf' = lh_buf
  BY DEF LhdIrq, lhd_code_to_errno, EINVAL, EIO
<1>2. PICK t \in Thread : Waiting(t)
  BY Zenon, <1>1 DEF DeviceInv
<1>3. /\ UnderWay(t) /\ OnDevice(t) /\ sem_count["lh_clear"] = 0
      /\ \A u \in Thread : OnDevice(u) => u = t
      /\ \A u \in Thread : Waiting(u) => u = t
  BY <1>1, <1>2, Possession DEF DeviceInv, Reported
<1>4. sem_count["lh_done"] = 0
  BY Zenon, <1>3 DEF UnderWay
<1>5. /\ sem_count' \in [Semaphore -> 0 .. 1] /\ sem_count'["lh_done"] = 1
      /\ sem_count'["lh_clear"] = 0
      /\ io' \in [Thread -> IoRecord] /\ sem_wchan' \in [Semaphore -> Queue(Thread)]
      /\ sem_wchan'["lh_clear"] = sem_wchan["lh_clear"]
      /\ Asleep("lh_clear")' = Asleep("lh_clear")
  <2>1. DiskType /\ io \in [Thread -> IoRecord] /\ V("lh_done", io)
    BY <1>1 DEF DiskType
  <2>2. /\ sem_count' \in [Semaphore -> 0 .. 1] /\ sem_count'["lh_done"] = 1
        /\ \A r \in Semaphore : r # "lh_done" => sem_count'[r] = sem_count[r]
        /\ io' \in [Thread -> IoRecord] /\ sem_wchan' \in [Semaphore -> Queue(Thread)]
        /\ \A r \in Semaphore : r # "lh_done" => sem_wchan'[r] = sem_wchan[r]
    BY Zenon, <1>4, <2>1, VStep
  <2> QED BY Zenon, <1>3, <2>2 DEF Asleep
<1>6. Asleep("lh_done") \subseteq {t}
  <2> SUFFICES ASSUME NEW h \in Asleep("lh_done") PROVE h = t
    OBVIOUS
  <2>1. h \in Thread
    BY EmptyQueue DEF Asleep, DiskType, Queue, Range
  <2> QED BY <1>3, <2>1 DEF Waiting
<1>7. /\ Moves(t, "lh_done")
      /\ Asleep("lh_done")' = {}
  <2>1. CASE sem_wchan["lh_done"] = <<>> /\ io' = io /\ sem_wchan' = sem_wchan
    <3>1. Asleep("lh_done") = {} /\ Asleep("lh_done")' = {}
      BY Zenon, <2>1, EmptyQueue DEF Asleep
    <3> QED BY <1>2, <2>1, <3>1 DEF Moves, Waiting, DiskType
  <2>2. ASSUME NEW h \in Asleep("lh_done"),
               \A u \in Thread : u # h => io'[u] = io[u],
               io'[h].at = "lh_done", io'[h].rw = io[h].rw,
               io'[h].sector = io[h].sector, io'[h].left = io[h].left,
               Asleep("lh_done")' = Asleep("lh_done") \ {h}
        PROVE  Moves(t, "lh_done") /\ Asleep("lh_done")' = {}
    BY Zenon, <1>5, <1>6, <2>2 DEF Moves
  <2> QED BY <1>1, <1>4, <2>1, <2>2, VStep DEF DiskType
<1>8. DiskType'
  BY Zenon, <1>1, <1>2, <1>5, <1>7, Possession DEF DiskType, Moves, Unfinished, Waiting
<1>9. SleepersInv'
  BY <1>2, <1>5, <1>6, <1>7 DEF SleepersInv, Moves, Waiting
<1>10. \A u \in Thread : (OnDevice(u)' => u = t) /\ (Waiting(u)' <=> u = t)
  BY Zenon, <1>3, <1>7 DEF OnDevice, Waiting, Asleep, Moves
<1>11. Reported(t)'
  BY <1>1, <1>3, <1>5, <1>7 DEF Reported, UnderWay, Served, Moves
<1>12. \A u \in Thread : io'[u].at # "result"
  BY ZenonT(60), <1>3, <1>7 DEF Moves, OnDevice
<1>13. DeviceInv'
  BY <1>5, <1>10, <1>11, <1>12 DEF DeviceInv
<1>14. ClearWakeup'
  BY <1>5 DEF ClearWakeup
<1> QED BY Zenon, <1>8, <1>9, <1>13, <1>14

\* Every step keeps the invariant of the driver, ...
LEMMA DiskInvNext == DiskInv /\ [Next]_vars => DiskInv'
<1> SUFFICES ASSUME DiskInv, [Next]_vars PROVE DiskInv'
  OBVIOUS
<1>1. CASE UNCHANGED diskVars
  BY Zenon, <1>1 DEF diskVars, DiskInv, DiskType, Unfinished, SleepersInv, Asleep, DeviceInv, OnDevice,
     Waiting, UnderWay, Reported, Served, ClearWakeup
<1>2. CASE UNCHANGED vars
  BY <1>1, <1>2 DEF vars
<1>3. ASSUME NEW t \in Thread, IoContinue(t) PROVE DiskInv'
  BY <1>3, WaitClearStep, StartFailsStep, StartStep, WaitDoneStep, FinishStep DEF IoContinue
<1> QED BY <1>1, <1>2, <1>3, IoCallStep, DeviceDoneStep, LhdIrqStep DEF Next

---------------------------------------------------------------------------
(* What follows for threads that lock, wait and do disk I/O.               *)

\* ... which therefore holds always.
LEMMA DiskInvAlways == DiskSpec => []DiskInv
  BY DiskInvInit, DiskInvNext, PTL DEF DiskSpec

\* Disk I/O is invisible to the lock and the condition variable: the threads of Disk
\* do with them what those of Synch do, or nothing.
THEOREM DiskKeepsSynch == DiskSpec => Spec
<1>1. Init => SynchInit
  BY DEF Init
<1>2. [Next]_vars => [SynchNext]_synchVars
  BY Zenon DEF Next, vars, SynchNext
<1> QED BY <1>1, <1>2, PTL DEF DiskSpec, Spec

\* The lock is exclusive and its owner is right, whoever is in lhd_io with the lock.
THEOREM LockIsExclusiveAcrossIo == DiskSpec => []LockHeldByOwner
  BY DiskKeepsSynch, LockIsExclusive, PTL

\* No release of the lock misses a sleeper because threads are in lhd_io.
THEOREM NoWakeupIsLostAcrossIo == DiskSpec => []NoLostWakeup
  BY DiskKeepsSynch, NoWakeupIsLost, PTL

\* lock and condition variable implement Monitor for threads that also do disk I/O.
THEOREM DiskImplementsMonitor == DiskSpec => ImplementsMonitor
  BY DiskKeepsSynch, SynchImplementsMonitor, PTL

\* Every variable keeps its type: the driver's semaphores are never counted past one,
\* and a thread in lhd_io has sectors left, of a request of any length that passed the
\* check of its end, by wrapping round or not.
THEOREM DiskTypeCorrect == DiskSpec => []TypeOK
<1>1. Inv /\ DiskInv => TypeOK
  <2> SUFFICES ASSUME Inv, DiskInv PROVE TypeOK
    BY Zenon
  <2>1. \A s \in Semaphore : sem_wchan[s] \in Seq(Thread)
    BY Zenon DEF DiskInv, DiskType, Queue
  <2>2. ASSUME NEW t \in Thread, io[t].at # "none"
        PROVE  io[t].sector \in Word /\ io[t].left > 0
    <3>1. io[t] \in IoRecord /\ Unfinished(io[t])
      BY Zenon DEF DiskInv, DiskType
    <3> QED BY Zenon, <2>2, <3>1 DEF Unfinished, IoRecord
  <2> QED BY <2>1, <2>2 DEF TypeOK, Inv, DiskInv, DiskType
<1> QED BY <1>1, DiskInvAlways, DiskKeepsSynch, InvAlways, PTL

\* One thread at a time has the device, and the device's registers, buffer and result
\* are those of that thread's sector, for any number of threads and any requests.
THEOREM DeviceServesItsCaller == DiskSpec => []DiskServesItsCaller
<1>1. DiskInv => DiskServesItsCaller
  <2> SUFFICES ASSUME DiskInv PROVE DiskServesItsCaller
    OBVIOUS
  <2>1. \A t, u \in Thread : OnDevice(t) /\ OnDevice(u) => t = u
    BY Zenon DEF DiskInv, DeviceInv
  <2>2. ASSUME STAT # "LHD_IDLE"
        PROVE  \E t \in Thread : /\ OnDevice(t) /\ io[t].at \in {"lh_done", "asleep"}
                                 /\ SECT = io[t].sector
                                 /\ io[t].rw = "UIO_WRITE" => lh_buf = t
    <3>1. PICK t \in Thread : Waiting(t)
      BY Zenon, <2>2 DEF DiskInv, DeviceInv
    <3>2. UnderWay(t)
      BY <2>2, <3>1 DEF DiskInv, DeviceInv, Reported
    <3>3. OnDevice(t) /\ io[t].at \in {"lh_done", "asleep"}
      BY Zenon, <3>1, Possession
    <3> QED BY Zenon, <3>2, <3>3 DEF UnderWay
  <2>3. ASSUME NEW t \in Thread, io[t].at = "result"
        PROVE  /\ STAT = "LHD_IDLE"
               /\ lh_result = 0 => /\ io[t].sector \in Sector
                                   /\ io[t].rw = "UIO_READ" => lh_buf = io[t].sector
    BY Zenon, <2>3, Possession DEF DiskInv, DeviceInv, Served
  <2> QED BY <2>1, <2>2, <2>3 DEF DiskServesItsCaller
<1> QED BY <1>1, DiskInvAlways, PTL

\* V wakes one sleeper at a time and no wakeup of the driver's semaphores is lost.
THEOREM NoSemWakeupIsLost == DiskSpec => []NoLostSemWakeup
<1>1. DiskInv => NoLostSemWakeup
  <2> SUFFICES ASSUME DiskInv, NEW s \in Semaphore, sem_count[s] > 0, sem_wchan[s] # <<>>
               PROVE  \E t \in Thread : io[t].at = s
    BY Zenon DEF NoLostSemWakeup
  <2>1. sem_count[s] = 1 /\ sem_wchan[s] \in Queue(Thread)
    BY DEF DiskInv, DiskType
  <2>2. CASE s = "lh_clear"
    BY Zenon, <2>1, <2>2 DEF DiskInv, ClearWakeup
  <2>3. CASE s = "lh_done"
    <3>1. PICK t \in Thread : Waiting(t)
      BY Zenon, <2>1, <2>3 DEF DiskInv, DeviceInv
    <3>2. Reported(t)
      BY <2>1, <2>3, <3>1 DEF DiskInv, DeviceInv, UnderWay
    <3> QED BY Zenon, <2>3, <3>2 DEF Reported
  <2> QED BY Zenon, <2>2, <2>3 DEF Semaphore
<1> QED BY <1>1, DiskInvAlways, PTL
=============================================================================
