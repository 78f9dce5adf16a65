-------------------------------- MODULE Disk --------------------------------
(***************************************************************************)
(* Semaphores (kern/thread/synch.c) and the disk driver built on them      *)
(* (kern/dev/lamebus/lhd.c), used by the threads of Synch: a thread does   *)
(* disk I/O with or without the lock, as the file system does under        *)
(* vfs_biglock.  lh_clear admits one thread to the device's one buffer and *)
(* one set of registers; lh_done is signalled by the interrupt handler.    *)
(* P and V are one step each, as they run under the semaphore's spinlock.  *)
(*                                                                         *)
(* Data is known by where it comes from: what is in the buffer was put     *)
(* there by a thread, or read from a sector.  The device is external: it   *)
(* ends a request some time after it was started, well or not, and then    *)
(* interrupts; a sector it does not have is an error.  lhd_io computes     *)
(* sectors in a uint32_t, and every sum is taken modulo its size.          *)
(***************************************************************************)
EXTENDS Synch

CONSTANTS
  WORD,        \* how many values a uint32_t has: 2^32
  d_blocks,    \* number of sectors
  Request      \* the calls made: a direction, a first sector and a number of sectors

ASSUME DiskAssumption ==
  /\ WORD \in Nat
  /\ d_blocks \in 1 .. WORD - 1
  /\ Request \subseteq [rw : {"UIO_READ", "UIO_WRITE"}, sector : Nat, len : 1 .. WORD - 1]

VARIABLES
  sem_count,   \* lh_clear and lh_done
  sem_wchan,
  lh_result,   \* what the interrupt handler saved; 0 or an error
  STAT,        \* the status register
  SECT,        \* the sector register
  lh_buf,      \* the on-card buffer: a thread, or a sector
  io           \* lhd_io's place and arguments in each thread

diskVars == <<sem_count, sem_wchan, lh_result, STAT, SECT, lh_buf, io>>
vars == <<synchVars, diskVars>>

Semaphore == {"lh_clear", "lh_done"}
Word == 0 .. WORD - 1
Sector == 0 .. d_blocks - 1
EFAULT == 6
EINVAL == 8
EIO == 32

NoIo == [at |-> "none", rw |-> "UIO_READ", sector |-> 0, left |-> 0]

\* Mutant: two threads are admitted to the device.
SemInitTwo == [s \in Semaphore |-> IF s = "lh_clear" THEN 2 ELSE 0]

\* config_lhd: sem_create("lhd-clear", 1), sem_create("lhd-done", 0).
SemInit == [s \in Semaphore |-> IF s = "lh_clear" THEN 1 ELSE 0]

DiskInit ==
  /\ sem_count = SemInit
  /\ sem_wchan = [s \in Semaphore |-> <<>>]
  /\ lh_result = 0
  /\ STAT = "LHD_IDLE"
  /\ SECT = 0
  /\ lh_buf = NoThread
  /\ io = [t \in Thread |-> NoIo]

---------------------------------------------------------------------------
(* P and V.  A thread in P of semaphore s has io[t].at = s.                *)

P(t, s, next) ==
  /\ io[t].at = s
  /\ \/ /\ sem_count[s] = 0
        /\ sem_wchan' = [sem_wchan EXCEPT ![s] = Append(@, t)]
        /\ io' = [io EXCEPT ![t].at = "asleep"]
        /\ UNCHANGED sem_count
     \/ /\ sem_count[s] > 0
        /\ sem_count' = [sem_count EXCEPT ![s] = @ - 1]
        /\ io' = [io EXCEPT ![t].at = next]
        /\ UNCHANGED sem_wchan

\* Mutant: counted, and nobody woken.
VSilent(s, io1) ==
  /\ sem_count' = [sem_count EXCEPT ![s] = @ + 1]
  /\ io' = io1
  /\ UNCHANGED sem_wchan

\* wchan_wakeone: the first sleeper looks at the count again.  io1 is io after what
\* else the step does.
V(s, io1) ==
  /\ sem_count' = [sem_count EXCEPT ![s] = @ + 1]
  /\ IF sem_wchan[s] = <<>>
     THEN io' = io1 /\ UNCHANGED sem_wchan
     ELSE /\ io' = [io1 EXCEPT ![Head(sem_wchan[s])].at = s]
          /\ sem_wchan' = [sem_wchan EXCEPT ![s] = Tail(@)]

---------------------------------------------------------------------------
(* lhd_io, one pass of its loop per sector.                                *)

\* uint32_t sector = uio->uio_offset / LHD_SECTSIZE, of an offset of 64 bits.
FirstSector(r) == r.sector % WORD

\* A request past the end of the disk returns EINVAL and changes nothing.  The sum
\* may wrap round, and such a request goes on ("XXX this check can overflow").
IoCall(t, r) ==
  /\ io[t].at = "none"
  /\ pc[t] \in {"out", "in"}
  /\ (FirstSector(r) + r.len) % WORD <= d_blocks
  /\ io' = [io EXCEPT ![t] = [at |-> "lh_clear", rw |-> r.rw, sector |-> FirstSector(r),
                              left |-> r.len]]
  /\ UNCHANGED <<sem_count, sem_wchan, lh_result, STAT, SECT, lh_buf>>

WaitClear(t) ==
  /\ P(t, "lh_clear", "start")
  /\ UNCHANGED <<lh_result, STAT, SECT, lh_buf>>

\* uiomove cannot read the caller's data: the device is given up.
StartFails(t) ==
  /\ io[t].at = "start"
  /\ io[t].rw = "UIO_WRITE"
  /\ V("lh_clear", [io EXCEPT ![t] = NoIo])
  /\ UNCHANGED <<lh_result, STAT, SECT, lh_buf>>

Start(t) ==
  /\ io[t].at = "start"
  /\ lh_buf' = IF io[t].rw = "UIO_WRITE" THEN t ELSE lh_buf
  /\ SECT' = io[t].sector
  /\ STAT' = IF io[t].rw = "UIO_WRITE" THEN "LHD_WORKING|LHD_ISWRITE" ELSE "LHD_WORKING"
  /\ io' = [io EXCEPT ![t].at = "lh_done"]
  /\ UNCHANGED <<sem_count, sem_wchan, lh_result>>

WaitDone(t) ==
  /\ P(t, "lh_done", "result")
  /\ UNCHANGED <<lh_result, STAT, SECT, lh_buf>>

\* Mutant: one sector too many.
LastSectorLate(t) == io[t].left = 0

LastSector(t) == io[t].left = 1

\* Mutant: an error does not give the device up.
FinishKeeps(t) ==
  /\ io[t].at = "result"
  /\ IF lh_result # 0
     THEN io' = [io EXCEPT ![t] = NoIo] /\ UNCHANGED <<sem_count, sem_wchan>>
     ELSE V("lh_clear", [io EXCEPT ![t] = NoIo])
  /\ UNCHANGED <<lh_result, STAT, SECT, lh_buf>>

\* The next sector, unless there was an error or none is left.
AfterSector(t, result) ==
  IF result # 0 \/ LastSector(t) THEN NoIo
  ELSE [at |-> "lh_clear", rw |-> io[t].rw, sector |-> (io[t].sector + 1) % WORD,
        left |-> io[t].left - 1]

\* The result of the request or, when data was read, that of moving it to the caller;
\* the device is given up.
Finish(t) ==
  /\ io[t].at = "result"
  /\ \E result \in {lh_result} \cup
                   (IF lh_result = 0 /\ io[t].rw = "UIO_READ" THEN {EFAULT} ELSE {}) :
       V("lh_clear", [io EXCEPT ![t] = AfterSector(t, result)])
  /\ UNCHANGED <<lh_result, STAT, SECT, lh_buf>>

---------------------------------------------------------------------------
(* The device, and lhd_irq.                                                *)

DeviceDone ==
  /\ STAT \in {"LHD_WORKING", "LHD_WORKING|LHD_ISWRITE"}
  /\ \/ /\ SECT \in Sector
        /\ STAT' = "LHD_OK"
        /\ lh_buf' = IF STAT = "LHD_WORKING" THEN SECT ELSE lh_buf
     \/ /\ STAT' = IF SECT \in Sector THEN "LHD_MEDIA" ELSE "LHD_INVSECT"
        /\ UNCHANGED lh_buf
  /\ UNCHANGED <<sem_count, sem_wchan, lh_result, SECT, io>>

lhd_code_to_errno(code) ==
  CASE code = "LHD_OK" -> 0
    [] code = "LHD_INVSECT" -> EINVAL
    [] code = "LHD_MEDIA" -> EIO

\* The status is cleared, and lhd_iodone reports it.
LhdIrq ==
  /\ STAT \in {"LHD_OK", "LHD_INVSECT", "LHD_MEDIA"}
  /\ STAT' = "LHD_IDLE"
  /\ lh_result' = lhd_code_to_errno(STAT)
  /\ V("lh_done", io)
  /\ UNCHANGED <<SECT, lh_buf>>

---------------------------------------------------------------------------

IoContinue(t) ==
  WaitClear(t) \/ StartFails(t) \/ Start(t) \/ WaitDone(t) \/ Finish(t)

Init == SynchInit /\ DiskInit

\* A thread in lhd_io does nothing else.
Next ==
  \/ \E t \in Thread : io[t].at = "none" /\ SynchStep(t) /\ UNCHANGED diskVars
  \/ \E t \in Thread : IoContinue(t) /\ UNCHANGED synchVars
  \/ \E t \in Thread, r \in Request : IoCall(t, r) /\ UNCHANGED synchVars
  \/ (DeviceDone \/ LhdIrq) /\ UNCHANGED synchVars

\* A thread that is in a call goes on, the device ends what it was given, and its
\* interrupt is served.
Fairness ==
  /\ \A t \in Thread :
       /\ WF_vars(IoContinue(t) /\ UNCHANGED synchVars)
       /\ WF_vars(io[t].at = "none" /\ SynchContinue(t) /\ UNCHANGED diskVars)
  /\ WF_vars((DeviceDone \/ LhdIrq) /\ UNCHANGED synchVars)

DiskSpec == Init /\ [][Next]_vars /\ Fairness

---------------------------------------------------------------------------
(* Properties.                                                             *)

\* Every variable has its type; the semaphores of the driver are binary.
TypeOK ==
  /\ SynchTypeOK
  /\ sem_count \in [Semaphore -> 0 .. 1]
  /\ \A s \in Semaphore : sem_wchan[s] \in Seq(Thread)
  /\ SECT \in Word
  /\ \A t \in Thread : io[t].at # "none" => io[t].sector \in Word /\ io[t].left > 0

\* The thread has the device.
OnDevice(t) ==
  \/ io[t].at \in {"start", "lh_done", "result"}
  \/ t \in Range(sem_wchan["lh_done"])

\* The device works for the thread that waits for it, whatever other threads ask of
\* the driver meanwhile: while a request is under way the registers and, for a write,
\* the buffer hold what its caller put there; after P(lh_done) a success means that
\* the caller's sector is on the disk, also where the check of the request's end has
\* wrapped round, and that for a read the buffer holds it.
DiskServesItsCaller ==
  /\ \A t, u \in Thread : OnDevice(t) /\ OnDevice(u) => t = u
  /\ STAT # "LHD_IDLE" =>
       \E t \in Thread :
         /\ OnDevice(t) /\ io[t].at \in {"lh_done", "asleep"}
         /\ SECT = io[t].sector
         /\ io[t].rw = "UIO_WRITE" => lh_buf = t
  /\ \A t \in Thread : io[t].at = "result" =>
       /\ STAT = "LHD_IDLE"
       /\ lh_result = 0 => /\ io[t].sector \in Sector
                           /\ io[t].rw = "UIO_READ" => lh_buf = io[t].sector

\* V wakes one sleeper, and a newcomer may come first: as long as the count is not
\* zero and threads sleep in P, one of them is about to look at the count.
NoLostSemWakeup ==
  \A s \in Semaphore :
    sem_count[s] > 0 /\ sem_wchan[s] # <<>> => \E t \in Thread : io[t].at = s

\* A thread that gets the device gives it up: the interrupt is not missed when it
\* comes before P(lh_done), and every error path ends in V(lh_clear).
DeviceIsGivenUp == (\E t \in Thread : OnDevice(t)) ~> sem_count["lh_clear"] = 1
=============================================================================
