-------------------------- MODULE ProcessesProofs ---------------------------
(***************************************************************************)
(* For any number of process structures, identifiers, descriptors, entries *)
(* and files: the invariants of Processes hold.                            *)
(***************************************************************************)
EXTENDS Processes, FiniteSetTheorems, TLAPS

\* The provers that a step is given to, one after the other, and their time in seconds.
USE SMTT(30), Z3T(30), ZenonT(20)

Byte == 0 .. 255

\* The types, of the fields of every proc structure too.
ProcRecord ==
  [live : BOOLEAN, p_pid : Nat, p_numthreads : 0 .. 1, p_status : Byte,
   s_exit : 0 .. 1, p_addrspace : BOOLEAN, fileTable : [Fd -> Entry \cup {NULL, Stray}]]

ProcType ==
  /\ proc \in [Proc -> ProcRecord]
  /\ pid_table \in [Pid -> Proc \cup {kproc, NULL}]
  /\ menu \in {"prompt", "fork", "wait", "asleep", "reap", "destroy"}
  /\ mproc \in Proc \cup {NULL}
  /\ exit_code \in Nat /\ exited \in Nat /\ failed \in BOOLEAN
  /\ tpc \in {"none", "load", "user", "selfwait", "V", "thread_exit", "gone"}
  /\ t_proc \in Proc \cup {NULL}
  /\ panicked \in {"no", "p != kproc", "fatal trap"}

\* The menu has one process at a time, the only live one, and the table leads to it
\* until it is taken out; the memory of the others holds nothing.
OneProcess ==
  /\ \A q \in Proc : q # mproc => proc[q] = NoProc
  /\ menu = "prompt" <=> mproc = NULL
  /\ menu # "prompt" => proc[mproc].live /\ proc[mproc].p_pid \in Pid
  /\ \A i \in Pid : pid_table[i] = kproc <=> i = MINP
  /\ \A i \in Pid : pid_table[i] \in Proc <=>
       menu \notin {"prompt", "destroy"} /\ i = proc[mproc].p_pid
  /\ menu \notin {"prompt", "destroy"} => pid_table[proc[mproc].p_pid] = mproc

\* Where the program's thread can be while the menu is where it is.
Together ==
  /\ t_proc # NULL =>
       /\ t_proc = mproc /\ menu \in {"wait", "asleep"}
       /\ proc[mproc].p_numthreads = 1 /\ proc[mproc].s_exit = 0
       /\ tpc \in {"load", "user", "selfwait", "thread_exit"}
       /\ tpc = "thread_exit" <=> failed
  /\ t_proc = NULL =>
       /\ tpc \in {"none", "V", "thread_exit", "gone"}
       /\ mproc # NULL => proc[mproc].p_numthreads = 0
  /\ menu = "fork" => tpc = "none" /\ ~failed /\ proc[mproc].s_exit = 0 /\ t_proc = NULL
  /\ menu \in {"reap", "destroy", "prompt"} => tpc \in {"none", "thread_exit", "gone"} /\ ~failed
  /\ menu \in {"wait", "asleep"} /\ t_proc = NULL =>
       \/ failed /\ tpc \in {"none", "gone"} /\ proc[mproc].s_exit = 0
       \/ ~failed /\ tpc = "V" /\ p = mproc /\ proc[mproc].s_exit = 0
       \/ /\ ~failed /\ menu = "wait" /\ tpc \in {"thread_exit", "gone"}
          /\ proc[mproc].s_exit = 1

\* The status the menu is going to get is the one the program left.
StatusKept ==
  /\ menu = "reap" \/ (menu \in {"wait", "asleep"} /\ t_proc = NULL /\ ~failed) =>
       proc[mproc].p_status = exited % 256
  /\ menu \in {"destroy", "prompt"} => exit_code = exited % 256

ProcInv == ProcType /\ OneProcess /\ Together /\ StatusKept

\* The entries a process uses, and those left behind by sys_open.
FilesInv ==
  /\ SYSTEMFileTable \in [Entry -> Vnode \cup {NULL}]
  /\ opens \in [Vnode -> Nat]
  /\ stale \subseteq Entry
  /\ \A e \in stale : SYSTEMFileTable[e] # NULL
  /\ OpenFilesAccounted

---------------------------------------------------------------------------
(* The menu and the program's thread.                                      *)

Less == {ss \in Nat \X Nat : ss[1] < ss[2]}

\* A set of numbers that is not empty has a least one, and Min is it.
LEMMA MinIsLeast ==
  ASSUME NEW T, T \subseteq Nat, T # {}
  PROVE  Min(T) \in T /\ \A y \in T : Min(T) <= y
<1>1. IsWellFoundedOn(Less, Nat)
  BY NatLessThanWellFounded, Zenon DEF OpToRel, Less
<1>2. PICK x \in T : \A y \in T : ~(<<y, x>> \in Less)
  BY Zenon, <1>1, WFMin
<1>3. \A y \in T : x <= y
  <2> SUFFICES ASSUME NEW y \in T, y < x PROVE FALSE
    OBVIOUS
  <2>1. <<y, x>> \in Nat \X Nat /\ <<y, x>>[1] = y /\ <<y, x>>[2] = x
    OBVIOUS
  <2>2. <<y, x>> \in Less
    BY <2>1 DEF Less
  <2> QED BY <1>2, <2>2
<1>4. \E z \in T : \A y \in T : z <= y
  BY <1>3
<1> QED BY Zenon, <1>4 DEF Min

\* The empty structure is well formed, and its slots name no entry.
LEMMA NoProcType ==
  /\ NoProc \in ProcRecord
  /\ ~NoProc.live /\ NoProc.p_numthreads = 0 /\ NoProc.s_exit = 0
  /\ \A fd \in Fd : NoProc.fileTable[fd] \notin Entry
  BY ProcessesAssumption DEF NoProc, ProcRecord, Entry, Byte

\* Before the first program there is no process and no thread.
LEMMA ProcInvInit == Init => ProcInv
<1> SUFFICES ASSUME Init PROVE ProcInv
  OBVIOUS
<1> USE ProcessesAssumption DEF Init
<1>1. ProcType
  BY Zenon, NoProcType DEF ProcType, Pid
<1>2. OneProcess
  BY DEF OneProcess, Pid
<1>3. Together /\ StatusKept
  BY DEF Together, StatusKept
<1> QED BY <1>1, <1>2, <1>3 DEF ProcInv

\* proc_create_runprogram gives the new process an identifier that was free.
LEMMA CreateKeepsProcInv ==
  ASSUME ProcInv, NEW q \in Proc, NEW junk \in [Fd -> {NULL, Stray}],
         ProcCreateRunprogram(q, junk)
  PROVE  ProcInv' /\ FreePid # {}
<1> USE ProcessesAssumption DEF ProcInv
<1> DEFINE i == Min(FreePid)
<1>1. MINP + 1 \in FreePid
  <2>1. menu = "prompt"
    BY Zenon DEF ProcCreateRunprogram
  <2>3. MINP + 1 \in Pid /\ MINP + 1 # MINP
    BY DEF Pid
  <2>2. pid_table[MINP + 1] \notin Proc /\ pid_table[MINP + 1] # kproc
    BY <2>1, <2>3 DEF OneProcess
  <2> QED BY Zenon, <2>2, <2>3 DEF ProcType, FreePid
<1>2. i \in Pid /\ pid_table[i] = NULL /\ i \in Nat
  <2>1. FreePid \subseteq Nat
    BY DEF FreePid, Pid
  <2> HIDE DEF i
  <2>2. i \in FreePid
    BY Zenon, <1>1, <2>1, MinIsLeast DEF i
  <2> QED BY <2>1, <2>2 DEF FreePid
<1> HIDE DEF i
<1> DEFINE new == NewProc(i, junk)
<1>3. /\ new \in ProcRecord
      /\ new.live /\ new.p_pid = i /\ new.p_numthreads = 0 /\ new.s_exit = 0
  BY <1>2 DEF NewProc, ProcRecord, Byte
<1>4. /\ menu = "prompt" /\ menu' = "fork" /\ mproc' = q
      /\ proc' = [proc EXCEPT ![q] = new]
      /\ pid_table' = [pid_table EXCEPT ![i] = q]
      /\ panicked' = panicked /\ tpc' = "none" /\ failed' = FALSE /\ exit_code' = 1
      /\ t_proc' = t_proc /\ p' = p /\ exited' = exited
  BY Zenon, <1>1 DEF ProcCreateRunprogram, i
<1> HIDE DEF new
<1>5. ProcType'
  BY Zenon, <1>2, <1>3, <1>4 DEF ProcType
<1>6. OneProcess'
  <2>1. \A r \in Proc : r # mproc' => proc'[r] = NoProc
    BY Zenon, <1>4 DEF OneProcess, ProcType
  <2>2. proc'[q] = new
    BY Zenon, <1>4 DEF ProcType
  <2>3. pid_table'[i] = q /\ \A j \in Pid \ {i} : pid_table'[j] = pid_table[j]
    BY Zenon, <1>2, <1>4 DEF ProcType
  <2>4. \A j \in Pid : pid_table'[j] = kproc <=> j = MINP
    <3>1. q # kproc /\ i # MINP
      BY <1>2 DEF OneProcess
    <3> QED BY Zenon, <1>2, <2>3, <3>1 DEF OneProcess
  <2>5. \A j \in Pid : pid_table'[j] \in Proc <=> j = i
    BY <1>2, <1>4, <2>3 DEF OneProcess
  <2> QED BY ZenonT(60), <1>2, <1>3, <1>4, <2>1, <2>2, <2>3, <2>4, <2>5 DEF OneProcess
<1>7. Together' /\ StatusKept'
  BY Zenon, <1>3, <1>4 DEF Together, StatusKept, ProcType, OneProcess
<1> QED BY <1>1, <1>5, <1>6, <1>7

\* Writing one field of a structure leaves the others as they are.
WithNumthreads(r, x) == [r EXCEPT !.p_numthreads = x]

WithExit(r, x) == [r EXCEPT !.s_exit = x]

WithStatus(r, x) == [r EXCEPT !.p_status = x]

WithAddrspace(r, x) == [r EXCEPT !.p_addrspace = x]

WithFd(r, fd, e) == [r EXCEPT !.fileTable[fd] = e]

\* What a record of Proc is after the number of threads has been set.
LEMMA SetNumthreads ==
  ASSUME NEW r \in ProcRecord, NEW x \in 0 .. 1
  PROVE  LET n == WithNumthreads(r, x)
         IN /\ n \in ProcRecord /\ n.p_numthreads = x
            /\ n.live = r.live /\ n.p_pid = r.p_pid /\ n.s_exit = r.s_exit
            /\ n.p_status = r.p_status /\ n.fileTable = r.fileTable
  BY DEF ProcRecord, WithNumthreads

\* The same for s_exit, ...
LEMMA SetExit ==
  ASSUME NEW r \in ProcRecord, NEW x \in 0 .. 1
  PROVE  LET n == WithExit(r, x)
         IN /\ n \in ProcRecord /\ n.s_exit = x
            /\ n.live = r.live /\ n.p_pid = r.p_pid /\ n.p_numthreads = r.p_numthreads
            /\ n.p_status = r.p_status /\ n.fileTable = r.fileTable
  BY DEF ProcRecord, WithExit

\* ... for the status, ...
LEMMA SetStatus ==
  ASSUME NEW r \in ProcRecord, NEW x \in Byte
  PROVE  LET n == WithStatus(r, x)
         IN /\ n \in ProcRecord /\ n.p_status = x
            /\ n.live = r.live /\ n.p_pid = r.p_pid /\ n.s_exit = r.s_exit
            /\ n.p_numthreads = r.p_numthreads /\ n.fileTable = r.fileTable
  BY DEF ProcRecord, WithStatus

\* ... for the address space ...
LEMMA SetAddrspace ==
  ASSUME NEW r \in ProcRecord, NEW x \in BOOLEAN
  PROVE  LET n == WithAddrspace(r, x)
         IN /\ n \in ProcRecord
            /\ n.live = r.live /\ n.p_pid = r.p_pid /\ n.s_exit = r.s_exit
            /\ n.p_numthreads = r.p_numthreads /\ n.p_status = r.p_status
            /\ n.fileTable = r.fileTable
  BY DEF ProcRecord, WithAddrspace

\* ... and for a descriptor.
LEMMA SetFd ==
  ASSUME NEW r \in ProcRecord, NEW fd \in Fd, NEW e \in Entry \cup {NULL, Stray}
  PROVE  LET n == WithFd(r, fd, e)
         IN /\ n \in ProcRecord
            /\ n.live = r.live /\ n.p_pid = r.p_pid /\ n.s_exit = r.s_exit
            /\ n.p_numthreads = r.p_numthreads /\ n.p_status = r.p_status
            /\ n.fileTable[fd] = e
            /\ \A g \in Fd : g # fd => n.fileTable[g] = r.fileTable[g]
  BY DEF ProcRecord, WithFd

\* thread_fork adds the one thread of the process, or fails.
LEMMA ForkKeepsProcInv ==
  ASSUME ProcInv, ThreadFork
  PROVE  ProcInv'
<1> USE ProcessesAssumption DEF ProcInv
<1>1. menu = "fork" /\ menu' = "wait" /\ mproc \in Proc /\ mproc # NULL
  BY Zenon DEF ThreadFork, ProcType, OneProcess
<1>2. /\ t_proc = NULL /\ tpc = "none" /\ ~failed
      /\ proc[mproc].s_exit = 0 /\ proc[mproc].p_numthreads = 0
  BY <1>1 DEF Together
<1>3. CASE /\ proc' = [proc EXCEPT ![mproc].p_numthreads = @ + 1]
           /\ t_proc' = mproc /\ tpc' = "load" /\ failed' = failed
  <2>1. /\ proc' \in [Proc -> ProcRecord]
        /\ \A r \in Proc : r # mproc => proc'[r] = proc[r]
        /\ proc'[mproc].live = proc[mproc].live /\ proc'[mproc].p_pid = proc[mproc].p_pid
        /\ proc'[mproc].s_exit = 0 /\ proc'[mproc].p_numthreads = 1
    <3>1. proc[mproc] \in ProcRecord /\ proc \in [Proc -> ProcRecord]
      BY Zenon, <1>1 DEF ProcType
    <3>2. /\ proc' = [proc EXCEPT ![mproc] = proc'[mproc]]
          /\ proc'[mproc] = WithNumthreads(proc[mproc], 1)
      BY <1>1, <1>2, <1>3, <3>1 DEF WithNumthreads
    <3>3. proc'[mproc] \in ProcRecord
      BY <3>1, <3>2, SetNumthreads
    <3>4. /\ proc' \in [Proc -> ProcRecord]
          /\ \A r \in Proc : r # mproc => proc'[r] = proc[r]
      BY <3>1, <3>2, <3>3
    <3> QED BY <1>2, <3>1, <3>2, <3>4, SetNumthreads
  <2>2. ProcType'
    BY Zenon, <1>1, <1>3, <2>1 DEF ProcType, ThreadFork
  <2>3. OneProcess'
    BY <1>1, <2>1 DEF OneProcess, ThreadFork
  <2>4. Together' /\ StatusKept'
    BY <1>1, <1>2, <1>3, <2>1 DEF Together, StatusKept, ThreadFork
  <2> QED BY <2>2, <2>3, <2>4
<1>4. CASE failed' = TRUE /\ UNCHANGED <<proc, t_proc, tpc>>
  <2>1. ProcType' /\ OneProcess'
    BY Zenon, <1>1, <1>4 DEF ProcType, OneProcess, ThreadFork
  <2>2. Together' /\ StatusKept'
    BY <1>1, <1>2, <1>4 DEF Together, StatusKept, ThreadFork
  <2> QED BY <2>1, <2>2
<1> QED BY Zenon, <1>3, <1>4 DEF ThreadFork

\* P(s_exit) in proc_wait takes the count or sleeps.
LEMMA WaitKeepsProcInv ==
  ASSUME ProcInv, MenuWait
  PROVE  ProcInv'
<1> USE ProcessesAssumption DEF ProcInv
<1>1. menu = "wait" /\ mproc \in Proc /\ mproc # NULL
  BY Zenon DEF MenuWait, ProcType, OneProcess
<1>2. CASE proc[mproc].s_exit = 0 /\ menu' = "asleep" /\ UNCHANGED proc
  <2>1. ProcType' /\ OneProcess'
    BY Zenon, <1>1, <1>2 DEF ProcType, OneProcess, MenuWait, progVars
  <2>2. Together' /\ StatusKept'
    BY <1>1, <1>2 DEF Together, StatusKept, MenuWait, progVars
  <2> QED BY <2>1, <2>2
<1>3. CASE /\ proc[mproc].s_exit > 0
           /\ proc' = [proc EXCEPT ![mproc].s_exit = @ - 1]
           /\ menu' = "reap"
  <2>1. /\ proc' \in [Proc -> ProcRecord]
        /\ \A r \in Proc : r # mproc => proc'[r] = proc[r]
        /\ proc'[mproc].live = proc[mproc].live /\ proc'[mproc].p_pid = proc[mproc].p_pid
        /\ proc'[mproc].p_numthreads = proc[mproc].p_numthreads
        /\ proc'[mproc].p_status = proc[mproc].p_status
    <3>1. proc[mproc] \in ProcRecord /\ proc \in [Proc -> ProcRecord]
      BY Zenon, <1>1 DEF ProcType
    <3>2. proc[mproc].s_exit = 1
      BY <1>3, <3>1 DEF ProcRecord
    <3>3. /\ proc' = [proc EXCEPT ![mproc] = proc'[mproc]]
          /\ proc'[mproc] = WithExit(proc[mproc], 0)
      BY <1>1, <1>3, <3>1, <3>2 DEF WithExit
    <3>4. proc'[mproc] \in ProcRecord
      BY <3>1, <3>3, SetExit
    <3>5. /\ proc' \in [Proc -> ProcRecord]
          /\ \A r \in Proc : r # mproc => proc'[r] = proc[r]
      BY <3>1, <3>3, <3>4
    <3> QED BY <3>1, <3>3, <3>5, SetExit
  <2>2. ProcType'
    BY Zenon, <1>1, <1>3, <2>1 DEF ProcType, MenuWait, progVars
  <2>3. OneProcess'
    BY <1>1, <1>3, <2>1 DEF OneProcess, MenuWait, progVars
  <2>4. Together' /\ StatusKept'
    BY <1>1, <1>3, <2>1 DEF Together, StatusKept, MenuWait, progVars
  <2> QED BY <2>2, <2>3, <2>4
<1> QED BY <1>2, <1>3 DEF MenuWait

\* The status is read while the process still exists.
LEMMA ReapKeepsProcInv ==
  ASSUME ProcInv, MenuReap
  PROVE  ProcInv'
<1> USE ProcessesAssumption DEF ProcInv
<1>1. /\ menu = "reap" /\ menu' = "destroy" /\ mproc \in Proc /\ mproc # NULL
      /\ proc[mproc].p_pid \in Pid
  BY Zenon DEF MenuReap, ProcType, OneProcess
<1> DEFINE i == proc[mproc].p_pid
<1>2. /\ proc' = proc /\ mproc' = mproc /\ tpc' = tpc /\ t_proc' = t_proc /\ p' = p
      /\ exited' = exited /\ failed' = failed /\ panicked' = panicked
      /\ exit_code' = proc[mproc].p_status
      /\ pid_table' = [pid_table EXCEPT ![i] = NULL]
  BY DEF MenuReap, progVars
<1>3. ProcType'
  <2>1. proc[mproc] \in ProcRecord
    BY Zenon, <1>1 DEF ProcType
  <2>2. proc[mproc].p_status \in Nat
    BY <2>1 DEF ProcRecord, Byte
  <2> QED BY Zenon, <1>1, <1>2, <2>2 DEF ProcType
<1>4. pid_table'[i] = NULL /\ \A j \in Pid \ {i} : pid_table'[j] = pid_table[j]
  BY Zenon, <1>1, <1>2 DEF ProcType
<1>5. pid_table[i] = mproc /\ i # MINP
  BY <1>1 DEF OneProcess
<1>6. \A j \in Pid : pid_table'[j] = kproc <=> j = MINP
  BY <1>4, <1>5 DEF OneProcess
<1>7. \A j \in Pid : pid_table'[j] \notin Proc
  BY Zenon, <1>4, <1>1 DEF OneProcess
<1>8. OneProcess'
  BY Zenon, <1>1, <1>2, <1>6, <1>7 DEF OneProcess
<1>9. Together' /\ StatusKept'
  BY <1>1, <1>2 DEF Together, StatusKept
<1> QED BY <1>3, <1>8, <1>9

\* proc_destroy frees a process without threads.
LEMMA DestroyKeepsProcInv ==
  ASSUME ProcInv, MenuDestroy
  PROVE  ProcInv'
<1> USE ProcessesAssumption DEF ProcInv
<1>1. /\ menu = "destroy" /\ mproc \in Proc /\ mproc # NULL /\ t_proc = NULL
      /\ proc[mproc].p_numthreads = 0
  BY Zenon DEF MenuDestroy, ProcType, OneProcess, Together
<1>2. /\ proc' = [proc EXCEPT ![mproc] = NoProc] /\ menu' = "prompt" /\ mproc' = NULL
      /\ pid_table' = pid_table /\ exit_code' = exit_code /\ tpc' = tpc /\ t_proc' = t_proc
      /\ p' = p /\ exited' = exited /\ failed' = failed /\ panicked' = panicked
  BY <1>1 DEF MenuDestroy, progVars
<1>3. ProcType'
  BY Zenon, <1>1, <1>2, NoProcType DEF ProcType
<1>4. \A r \in Proc : proc'[r] = NoProc
  BY Zenon, <1>1, <1>2 DEF ProcType, OneProcess
<1>5. OneProcess'
  BY <1>1, <1>2, <1>4 DEF OneProcess
<1>6. Together' /\ StatusKept'
  BY <1>1, <1>2 DEF Together, StatusKept
<1> QED BY Zenon, <1>3, <1>5, <1>6

\* A step that changes no more than a field of the process, and of those only fields
\* that the menu does not look at.
LEMMA UserStepKeepsProcInv ==
  ASSUME ProcInv, t_proc # NULL, tpc \in {"load", "user"}, failed = FALSE,
         tpc' \in {"load", "user", "selfwait", "thread_exit"},
         (tpc' = "thread_exit" /\ failed' = TRUE) \/ (tpc' # "thread_exit" /\ failed' = FALSE),
         proc' \in [Proc -> ProcRecord],
         \A r \in Proc : r # t_proc => proc'[r] = proc[r],
         proc'[t_proc].live = proc[t_proc].live,
         proc'[t_proc].p_pid = proc[t_proc].p_pid,
         proc'[t_proc].s_exit = proc[t_proc].s_exit,
         proc'[t_proc].p_numthreads = proc[t_proc].p_numthreads,
         panicked' \in {"no", "p != kproc", "fatal trap"},
         pid_table' = pid_table, menu' = menu, mproc' = mproc, exit_code' = exit_code,
         t_proc' = t_proc, exited' = exited
  PROVE  ProcInv'
<1> USE ProcessesAssumption DEF ProcInv
<1>1. /\ t_proc = mproc /\ mproc \in Proc /\ menu \in {"wait", "asleep"}
      /\ proc[mproc].p_numthreads = 1 /\ proc[mproc].s_exit = 0
  BY Zenon DEF Together, ProcType
<1>2. ProcType'
  BY Zenon DEF ProcType
<1>3. OneProcess'
  BY Zenon, <1>1 DEF OneProcess
<1>4. Together' /\ StatusKept'
  BY Zenon, <1>1 DEF Together, StatusKept
<1> QED BY Zenon, <1>2, <1>3, <1>4

\* While the thread has its process, that is the menu's, and it is waited for.
LEMMA ThreadInProcess ==
  ASSUME ProcInv, t_proc # NULL
  PROVE  /\ t_proc = mproc /\ mproc \in Proc /\ menu \in {"wait", "asleep"}
         /\ proc[mproc].p_numthreads = 1 /\ proc[mproc].s_exit = 0
         /\ proc[mproc] \in ProcRecord /\ proc \in [Proc -> ProcRecord]
  BY Zenon, ProcessesAssumption DEF ProcInv, Together, ProcType

\* The thread of a program has the process the menu waits for.
LEMMA UserHasProcess ==
  ASSUME ProcInv, tpc \in {"load", "user"}
  PROVE  t_proc # NULL /\ failed = FALSE
  BY Zenon DEF ProcInv, Together, ProcType

\* runprogram loads the program or lets the thread exit.
LEMMA LoadKeepsProcInv ==
  ASSUME ProcInv, panicked = "no", LoadProgram \/ LoadFails
  PROVE  ProcInv'
<1>1. tpc = "load" /\ t_proc # NULL /\ failed = FALSE
  BY Zenon, UserHasProcess DEF LoadProgram, LoadFails
<1>2. PICK as \in BOOLEAN : proc' = [proc EXCEPT ![t_proc].p_addrspace = as]
  BY Zenon DEF LoadProgram, LoadFails
<1> t_proc \in Proc /\ proc[t_proc] \in ProcRecord /\ proc \in [Proc -> ProcRecord]
  BY <1>1, ThreadInProcess
<1> DEFINE n == WithAddrspace(proc[t_proc], as)
<1>3. proc' = [proc EXCEPT ![t_proc] = n]
  BY <1>2 DEF WithAddrspace
<1>4. /\ n \in ProcRecord /\ n.live = proc[t_proc].live /\ n.p_pid = proc[t_proc].p_pid
      /\ n.s_exit = proc[t_proc].s_exit /\ n.p_numthreads = proc[t_proc].p_numthreads
  BY SetAddrspace, Zenon
<1> HIDE DEF n
<1>5. /\ proc' \in [Proc -> ProcRecord]
      /\ \A r \in Proc : r # t_proc => proc'[r] = proc[r]
      /\ proc'[t_proc] = n
  BY Zenon, <1>3, <1>4
<1>6. /\ proc'[t_proc].live = proc[t_proc].live
      /\ proc'[t_proc].p_pid = proc[t_proc].p_pid
      /\ proc'[t_proc].s_exit = proc[t_proc].s_exit
      /\ proc'[t_proc].p_numthreads = proc[t_proc].p_numthreads
  BY <1>4, <1>5
<1>7. /\ panicked' \in {"no", "p != kproc", "fatal trap"}
      /\ pid_table' = pid_table /\ menu' = menu /\ mproc' = mproc /\ exit_code' = exit_code
      /\ t_proc' = t_proc /\ exited' = exited
  BY Zenon DEF LoadProgram, LoadFails, menuVars
<1>8. (tpc' = "user" /\ failed' = failed) \/ (tpc' = "thread_exit" /\ failed' = TRUE)
  BY DEF LoadProgram, LoadFails
<1>9. /\ tpc \in {"load", "user"} /\ tpc' \in {"load", "user", "selfwait", "thread_exit"}
      /\ (tpc' = "thread_exit" /\ failed' = TRUE) \/ (tpc' # "thread_exit" /\ failed' = FALSE)
  BY Zenon, <1>1, <1>8
<1> QED BY <1>1, <1>5, <1>6, <1>7, <1>9, UserStepKeepsProcInv, Zenon

\* sys_exit stores the status and takes the thread out of the process ...
LEMMA ExitKeepsProcInv ==
  ASSUME ProcInv, NEW status \in Status, SysExit(status)
  PROVE  ProcInv'
<1> USE ProcessesAssumption
<1>1. tpc = "user" /\ t_proc # NULL /\ failed = FALSE
  BY UserHasProcess DEF SysExit
<1>2. status \in Nat /\ status % 256 \in 0 .. 255
  OBVIOUS
<1>0. PICK low \in Byte : low = status % 256
  BY Zenon, <1>2 DEF Byte
<1> DEFINE q == WithStatus(proc[t_proc], low)
<1>3. /\ q \in ProcRecord /\ q.p_status = status % 256 /\ q.live = proc[t_proc].live
      /\ q.p_pid = proc[t_proc].p_pid /\ q.s_exit = 0 /\ q.p_numthreads = 1
  <2>1. /\ proc[t_proc] \in ProcRecord
        /\ proc[t_proc].s_exit = 0 /\ proc[t_proc].p_numthreads = 1
    BY Zenon, <1>1, ThreadInProcess
  <2>2. /\ q \in ProcRecord /\ q.p_status = low /\ q.live = proc[t_proc].live
        /\ q.p_pid = proc[t_proc].p_pid /\ q.s_exit = proc[t_proc].s_exit
        /\ q.p_numthreads = proc[t_proc].p_numthreads
    BY <2>1, SetStatus
  <2> QED BY ZenonT(60), <1>0, <2>1, <2>2
<1>4. proc' = [proc EXCEPT ![t_proc] = [q EXCEPT !.p_numthreads = q.p_numthreads - 1]]
  BY <1>0 DEF SysExit, RemThread, WithStatus, LowByte
<1> HIDE DEF q
<1>5. /\ proc' = [proc EXCEPT ![t_proc] = proc'[t_proc]]
      /\ proc'[t_proc] = WithNumthreads(q, 0)
  BY <1>1, <1>3, <1>4, ThreadInProcess DEF WithNumthreads
<1>6. /\ proc'[t_proc] \in ProcRecord /\ proc'[t_proc].p_status = status % 256
      /\ proc'[t_proc].live = proc[t_proc].live /\ proc'[t_proc].p_pid = proc[t_proc].p_pid
      /\ proc'[t_proc].s_exit = 0 /\ proc'[t_proc].p_numthreads = 0
  BY <1>3, <1>5, SetNumthreads
<1>7. /\ t_proc' = NULL /\ p' = t_proc /\ tpc' = "V" /\ exited' = status
      /\ pid_table' = pid_table /\ menu' = menu /\ mproc' = mproc /\ exit_code' = exit_code
      /\ failed' = failed /\ panicked' = panicked
  BY DEF SysExit, RemThread, menuVars
<1>8. /\ proc' \in [Proc -> ProcRecord]
      /\ \A r \in Proc : r # t_proc => proc'[r] = proc[r]
  BY Zenon, <1>1, <1>5, <1>6, ThreadInProcess
<1>9. t_proc = mproc /\ mproc \in Proc /\ menu \in {"wait", "asleep"}
  BY <1>1, ThreadInProcess
<1>10. ProcType'
  BY Zenon, <1>2, <1>7, <1>8 DEF ProcInv, ProcType
<1>11. OneProcess'
  BY Zenon, <1>6, <1>7, <1>8, <1>9 DEF ProcInv, OneProcess
<1>12. Together' /\ StatusKept'
  BY Zenon, <1>1, <1>6, <1>7, <1>9 DEF Together, StatusKept
<1> QED BY Zenon, <1>10, <1>11, <1>12 DEF ProcInv

\* ... before it signals s_exit, after which it uses the process no more.
LEMMA ExitVKeepsProcInv ==
  ASSUME ProcInv, SysExitV
  PROVE  ProcInv'
<1> USE ProcessesAssumption
<1>1. /\ tpc = "V" /\ t_proc = NULL /\ menu \in {"wait", "asleep"} /\ p = mproc /\ ~failed
      /\ proc[mproc].s_exit = 0 /\ mproc \in Proc /\ proc[mproc].p_numthreads = 0
      /\ proc[mproc].p_status = exited % 256
      /\ proc[mproc] \in ProcRecord /\ proc \in [Proc -> ProcRecord]
  BY Zenon DEF SysExitV, ProcInv, Together, OneProcess, ProcType, StatusKept
<1>2. /\ proc' = [proc EXCEPT ![mproc] = proc'[mproc]]
      /\ proc'[mproc] = WithExit(proc[mproc], 1)
  BY <1>1 DEF SysExitV, WithExit
<1>3. /\ proc'[mproc] \in ProcRecord /\ proc'[mproc].live = proc[mproc].live
      /\ proc'[mproc].p_pid = proc[mproc].p_pid /\ proc'[mproc].s_exit = 1
      /\ proc'[mproc].p_numthreads = 0 /\ proc'[mproc].p_status = exited % 256
  BY <1>1, <1>2, SetExit
<1>4. /\ proc' \in [Proc -> ProcRecord]
      /\ \A r \in Proc : r # mproc => proc'[r] = proc[r]
  BY Zenon, <1>1, <1>2, <1>3
<1>5. /\ menu' = "wait" /\ tpc' = "thread_exit" /\ pid_table' = pid_table /\ mproc' = mproc
      /\ exit_code' = exit_code /\ t_proc' = t_proc /\ p' = p /\ exited' = exited
      /\ failed' = failed /\ panicked' = panicked
  BY <1>1 DEF SysExitV, WakeMenu
<1>6. ProcType'
  BY Zenon, <1>1, <1>4, <1>5 DEF ProcInv, ProcType
<1>7. OneProcess'
  BY ZenonT(60), <1>1, <1>3, <1>4, <1>5 DEF ProcInv, OneProcess
<1>8. Together' /\ StatusKept'
  BY Zenon, <1>1, <1>3, <1>5 DEF Together, StatusKept
<1> QED BY Zenon, <1>6, <1>7, <1>8 DEF ProcInv

\* thread_exit takes the thread out of its process if it still is in it.
LEMMA ThreadExitKeepsProcInv ==
  ASSUME ProcInv, ThreadExit
  PROVE  ProcInv'
<1> USE ProcessesAssumption
<1>1. /\ tpc = "thread_exit" /\ tpc' = "gone" /\ p' = NULL /\ pid_table' = pid_table
      /\ menu' = menu /\ mproc' = mproc /\ exit_code' = exit_code /\ exited' = exited
      /\ failed' = failed /\ panicked' = panicked
  BY DEF ThreadExit, menuVars
<1>2. CASE t_proc = NULL
  <2>1. proc' = proc /\ t_proc' = t_proc
    BY <1>2 DEF ThreadExit
  <2>2. ProcType' /\ OneProcess'
    BY Zenon, <1>1, <2>1 DEF ProcInv, ProcType, OneProcess
  <2>3. Together' /\ StatusKept'
    BY ZenonT(60), <1>1, <1>2, <2>1 DEF ProcInv, Together, StatusKept
  <2> QED BY <2>2, <2>3 DEF ProcInv
<1>3. CASE t_proc # NULL
  <2>1. proc' = [proc EXCEPT ![mproc] = [proc[mproc] EXCEPT !.p_numthreads = 0]]
    BY <1>3, ThreadInProcess DEF ThreadExit, RemThread
  <2>2. proc' = [proc EXCEPT ![mproc] = WithNumthreads(proc[mproc], 0)] /\ t_proc' = NULL
    BY Zenon, <1>3, <2>1 DEF ThreadExit, RemThread, WithNumthreads
  <2>3. proc'[mproc] = WithNumthreads(proc[mproc], 0)
    BY Zenon, <1>3, <2>2, ThreadInProcess
  <2>4. /\ proc'[mproc] \in ProcRecord /\ proc'[mproc].live = proc[mproc].live
        /\ proc'[mproc].p_pid = proc[mproc].p_pid /\ proc'[mproc].s_exit = 0
        /\ proc'[mproc].p_numthreads = 0
    BY <1>3, <2>3, SetNumthreads, ThreadInProcess
  <2>5. /\ proc' \in [Proc -> ProcRecord]
        /\ \A r \in Proc : r # mproc => proc'[r] = proc[r]
    BY Zenon, <1>3, <2>2, <2>3, <2>4, ThreadInProcess
  <2>6. ProcType'
    BY Zenon, <1>1, <2>2, <2>5 DEF ProcInv, ProcType
  <2>7. OneProcess'
    BY Zenon, <1>1, <1>3, <2>4, <2>5, ThreadInProcess DEF ProcInv, OneProcess
  <2>8. failed
    BY <1>1, <1>3 DEF ProcInv, Together
  <2>9. Together' /\ StatusKept'
    BY Zenon, <1>1, <1>3, <2>2, <2>4, <2>8, ThreadInProcess DEF Together, StatusKept
  <2> QED BY <2>6, <2>7, <2>9 DEF ProcInv
<1> QED BY Zenon, <1>2, <1>3

\* waitpid, and a stray pointer, change nothing but where the program is or that the
\* kernel has stopped.
LEMMA StopKeepsProcInv ==
  ASSUME ProcInv, panicked = "no",
         \/ \E pid \in Pid : SysWaitpid(pid)
         \/ \E fd \in 0 .. OPEN_MAX : FollowStray(fd)
  PROVE  ProcInv'
<1>1. tpc = "user" /\ t_proc # NULL /\ failed = FALSE
  BY Zenon, UserHasProcess DEF SysWaitpid, FollowStray
<1>2. /\ proc' = proc /\ pid_table' = pid_table /\ menu' = menu /\ mproc' = mproc
      /\ exit_code' = exit_code /\ t_proc' = t_proc /\ exited' = exited /\ failed' = failed
      /\ tpc' \in {"user", "selfwait"} /\ panicked' \in {"no", "p != kproc", "fatal trap"}
  BY Zenon, <1>1 DEF SysWaitpid, FollowStray, procs, menuVars, progVars
<1>3. proc \in [Proc -> ProcRecord]
  BY <1>1, ThreadInProcess
<1>4. /\ tpc \in {"load", "user"} /\ tpc' \in {"load", "user", "selfwait", "thread_exit"}
      /\ tpc' # "thread_exit" /\ failed' = FALSE
  BY Zenon, <1>1, <1>2
<1> QED BY <1>1, <1>2, <1>3, <1>4, UserStepKeepsProcInv, Zenon

\* open and close change one slot of the file table of the program's process.
LEMMA FdStep ==
  ASSUME ProcInv, tpc = "user", NEW fd \in Fd, NEW e \in Entry \cup {NULL, Stray},
         proc' = [proc EXCEPT ![t_proc].fileTable[fd] = e],
         UNCHANGED <<pid_table, menuVars, progVars, exited, failed, panicked>>
  PROVE  /\ ProcInv'
         /\ t_proc = mproc /\ mproc \in Proc /\ mproc' = mproc
         /\ \A r \in Proc : r # mproc => proc'[r] = proc[r]
         /\ proc'[mproc].fileTable[fd] = e
         /\ \A g \in Fd : g # fd => proc'[mproc].fileTable[g] = proc[mproc].fileTable[g]
<1>1. t_proc # NULL /\ failed = FALSE
  BY UserHasProcess
<1> t_proc \in Proc /\ proc[t_proc] \in ProcRecord /\ proc \in [Proc -> ProcRecord]
  BY <1>1, ThreadInProcess
<1> DEFINE n == WithFd(proc[t_proc], fd, e)
<1>2. proc' = [proc EXCEPT ![t_proc] = n]
  BY DEF WithFd
<1>3. /\ n \in ProcRecord /\ n.live = proc[t_proc].live /\ n.p_pid = proc[t_proc].p_pid
      /\ n.s_exit = proc[t_proc].s_exit /\ n.p_numthreads = proc[t_proc].p_numthreads
      /\ n.fileTable[fd] = e
      /\ \A g \in Fd : g # fd => n.fileTable[g] = proc[t_proc].fileTable[g]
  BY SetFd
<1> HIDE DEF n
<1>4. /\ proc' \in [Proc -> ProcRecord]
      /\ \A r \in Proc : r # t_proc => proc'[r] = proc[r]
      /\ proc'[t_proc] = n
  BY <1>2, <1>3
<1>5. /\ tpc' = tpc /\ failed' = failed /\ panicked' = panicked /\ t_proc' = t_proc
      /\ pid_table' = pid_table /\ exited' = exited
      /\ menu' = menu /\ mproc' = mproc /\ exit_code' = exit_code
      /\ panicked \in {"no", "p != kproc", "fatal trap"}
  BY Zenon DEF menuVars, progVars, ProcInv, ProcType
<1>6. /\ tpc \in {"load", "user"} /\ tpc' \in {"load", "user", "selfwait", "thread_exit"}
      /\ tpc' # "thread_exit"
  BY Zenon, <1>5
<1>7. ProcInv'
  <2> /\ proc'[t_proc].live = proc[t_proc].live
      /\ proc'[t_proc].p_pid = proc[t_proc].p_pid
      /\ proc'[t_proc].s_exit = proc[t_proc].s_exit
      /\ proc'[t_proc].p_numthreads = proc[t_proc].p_numthreads
    BY <1>3, <1>4
  <2>1. failed' = FALSE
    BY Zenon, <1>1, <1>5
  <2> QED BY <1>1, <1>4, <1>5, <1>6, <2>1, UserStepKeepsProcInv, Zenon
<1> QED BY Zenon, <1>1, <1>3, <1>4, <1>5, <1>7, ThreadInProcess

---------------------------------------------------------------------------
(* Files.                                                                  *)

\* The entries that hold an open of v.
Holders(v) == {e \in Entry \ stale : SYSTEMFileTable[e] = v}

\* There are finitely many entries of the file table.
LEMMA EntriesAreFinite ==
  /\ IsFiniteSet(Entry) /\ Cardinality(Entry) = SYSTEM_OPEN_MAX
  /\ \A S : S \subseteq Entry => IsFiniteSet(S) /\ Cardinality(S) \in 0 .. SYSTEM_OPEN_MAX
<1> USE ProcessesAssumption
<1>1. IsFiniteSet(Entry) /\ Cardinality(Entry) = SYSTEM_OPEN_MAX
  BY FS_Interval DEF Entry
<1>2. ASSUME NEW S, S \subseteq Entry
      PROVE  IsFiniteSet(S) /\ Cardinality(S) \in 0 .. SYSTEM_OPEN_MAX
  <2>1. IsFiniteSet(S) /\ Cardinality(S) <= SYSTEM_OPEN_MAX
    BY Zenon, <1>1, <1>2, FS_Subset
  <2>2. Cardinality(S) \in Nat
    BY <2>1, FS_CardinalityType
  <2> QED BY <2>1, <2>2
<1> QED BY Zenon, <1>1, <1>2

\* No file is open before the first program.
LEMMA FilesInvInit == Init => FilesInv
<1> SUFFICES ASSUME Init PROVE FilesInv
  BY Zenon
<1> USE ProcessesAssumption DEF Init
<1>1. \A v \in Vnode : {e \in Entry \ stale : SYSTEMFileTable[e] = v} = {}
  OBVIOUS
<1>2. \A q \in Proc : \A fd \in Fd : proc[q].fileTable[fd] \notin Entry
  BY Zenon, NoProcType
<1> QED BY Zenon, <1>1, <1>2, FS_EmptySet DEF FilesInv, OpenFilesAccounted

\* A step that leaves the table alone and gives no process a new entry.
LEMMA QuietKeepsFilesInv ==
  ASSUME FilesInv, UNCHANGED files,
         \A q \in Proc : \/ proc'[q].fileTable = proc[q].fileTable
                         \/ \A fd \in Fd : proc'[q].fileTable[fd] \notin Entry
  PROVE  FilesInv'
<1>1. SYSTEMFileTable' = SYSTEMFileTable /\ opens' = opens /\ stale' = stale
  BY Zenon DEF files
<1>2. \A v \in Vnode :
        opens'[v] = Cardinality({e \in Entry \ stale' : SYSTEMFileTable'[e] = v})
  BY <1>1 DEF FilesInv, OpenFilesAccounted
<1>3. ASSUME NEW q \in Proc, NEW fd \in Fd, proc'[q].fileTable[fd] \in Entry
      PROVE  /\ SYSTEMFileTable'[proc'[q].fileTable[fd]] # NULL
             /\ proc'[q].fileTable[fd] \notin stale'
             /\ \A g \in Fd : proc'[q].fileTable[g] = proc'[q].fileTable[fd] => g = fd
  <2>1. proc'[q].fileTable = proc[q].fileTable
    BY Zenon, <1>3
  <2> QED BY <1>1, <1>3, <2>1 DEF FilesInv, OpenFilesAccounted
<1>4. OpenFilesAccounted'
  BY Zenon, <1>2, <1>3 DEF OpenFilesAccounted
<1> QED BY Zenon, <1>1, <1>4 DEF FilesInv

\* The first free entry is free, and not one of those left behind.
LEMMA FreeEntryIsFree ==
  ASSUME FilesInv, FreeEntry # {}
  PROVE  LET e == Min(FreeEntry)
         IN e \in Entry /\ SYSTEMFileTable[e] = NULL /\ e \notin stale
<1>1. FreeEntry \subseteq Nat
  BY ProcessesAssumption DEF FreeEntry, Entry
<1>2. Min(FreeEntry) \in FreeEntry
  BY Zenon, <1>1, MinIsLeast
<1> QED BY <1>2 DEF FreeEntry, FilesInv

\* The descriptor sys_open takes has no entry.
LEMMA FreeFdIsFree ==
  ASSUME FreeFd # {}
  PROVE  Min(FreeFd) \in Fd /\ proc[t_proc].fileTable[Min(FreeFd)] = NULL
<1>1. FreeFd \subseteq Nat
  BY ProcessesAssumption DEF FreeFd, Fd
<1>2. Min(FreeFd) \in FreeFd
  BY Zenon, <1>1, MinIsLeast
<1> QED BY Zenon, <1>2 DEF FreeFd

\* sys_open takes an entry for each open of a vnode.
LEMMA OpenKeepsInv ==
  ASSUME ProcInv, FilesInv, NEW v \in Vnode, SysOpen(v)
  PROVE  ProcInv' /\ FilesInv'
<1> USE ProcessesAssumption
<1> DEFINE e == Min(FreeEntry)
           fd == Min(FreeFd)
<1>1. /\ tpc = "user"
      /\ e \in Entry /\ SYSTEMFileTable[e] = NULL /\ e \notin stale
      /\ fd \in Fd /\ proc[t_proc].fileTable[fd] = NULL
  BY Zenon, FreeEntryIsFree, FreeFdIsFree DEF SysOpen
<1>2. /\ SYSTEMFileTable' = [SYSTEMFileTable EXCEPT ![e] = v]
      /\ opens' = [opens EXCEPT ![v] = opens[v] + 1]
      /\ proc' = [proc EXCEPT ![t_proc].fileTable[fd] = e]
      /\ stale' = stale
      /\ UNCHANGED <<pid_table, menuVars, progVars, exited, failed, panicked>>
  BY DEF SysOpen
<1> HIDE DEF e, fd
<1>3. /\ ProcInv' /\ t_proc = mproc /\ mproc \in Proc /\ mproc' = mproc
      /\ \A r \in Proc : r # mproc => proc'[r] = proc[r]
      /\ proc'[mproc].fileTable[fd] = e
      /\ \A g \in Fd : g # fd => proc'[mproc].fileTable[g] = proc[mproc].fileTable[g]
  BY Zenon, <1>1, <1>2, FdStep
<1>4. /\ SYSTEMFileTable' \in [Entry -> Vnode \cup {NULL}]
      /\ SYSTEMFileTable'[e] = v
      /\ \A x \in Entry : x # e => SYSTEMFileTable'[x] = SYSTEMFileTable[x]
  BY Zenon, <1>1, <1>2 DEF FilesInv
<1>5. /\ opens' \in [Vnode -> Nat] /\ opens'[v] = opens[v] + 1
      /\ \A u \in Vnode : u # v => opens'[u] = opens[u]
  BY <1>2 DEF FilesInv
<1>6. stale' \subseteq Entry /\ \A x \in stale' : SYSTEMFileTable'[x] # NULL
  BY Zenon, <1>1, <1>2, <1>4 DEF FilesInv
<1>7. ASSUME NEW u \in Vnode
      PROVE  opens'[u] = Cardinality({x \in Entry \ stale' : SYSTEMFileTable'[x] = u})
  <2>1. opens[u] = Cardinality(Holders(u))
    BY DEF FilesInv, OpenFilesAccounted, Holders
  <2>2. CASE u = v
    <3>1. {x \in Entry \ stale' : SYSTEMFileTable'[x] = u} = Holders(u) \cup {e}
      BY Zenon, <1>1, <1>2, <1>4, <2>2 DEF Holders
    <3>2. e \notin Holders(u) /\ IsFiniteSet(Holders(u))
      BY Zenon, <1>1, EntriesAreFinite DEF Holders
    <3>3. Cardinality(Holders(u) \cup {e}) = Cardinality(Holders(u)) + 1
      BY Zenon, <3>2, FS_AddElement
    <3>4. opens'[u] = Cardinality(Holders(u)) + 1
      BY Zenon, <1>5, <2>1, <2>2
    <3> QED BY Zenon, <3>1, <3>3, <3>4
  <2>3. CASE u # v
    <3>1. {x \in Entry \ stale' : SYSTEMFileTable'[x] = u} = Holders(u)
      BY Zenon, <1>1, <1>2, <1>4, <2>3 DEF Holders
    <3> QED BY Zenon, <1>5, <2>1, <2>3, <3>1
  <2> QED BY Zenon, <2>2, <2>3
<1>8. ASSUME NEW q \in Proc, NEW g \in Fd, proc'[q].fileTable[g] \in Entry
      PROVE  /\ SYSTEMFileTable'[proc'[q].fileTable[g]] # NULL
             /\ proc'[q].fileTable[g] \notin stale'
             /\ \A h \in Fd : proc'[q].fileTable[h] = proc'[q].fileTable[g] => h = g
  <2>1. \A h \in Fd : proc[q].fileTable[h] \in Entry =>
          /\ SYSTEMFileTable[proc[q].fileTable[h]] # NULL
          /\ proc[q].fileTable[h] \notin stale
          /\ proc[q].fileTable[h] # e
          /\ \A k \in Fd : proc[q].fileTable[k] = proc[q].fileTable[h] => k = h
    BY Zenon, <1>1 DEF FilesInv, OpenFilesAccounted
  <2>2. CASE q # mproc
    BY <1>2, <1>3, <1>4, <1>8, <2>1, <2>2
  <2>3. CASE q = mproc
    <3>1. CASE g = fd
      BY <1>1, <1>2, <1>3, <1>4, <2>1, <2>3, <3>1
    <3>2. CASE g # fd
      BY <1>1, <1>2, <1>3, <1>4, <1>8, <2>1, <2>3, <3>2
    <3> QED BY Zenon, <3>1, <3>2
  <2> QED BY Zenon, <2>2, <2>3
<1>9. OpenFilesAccounted'
  BY Zenon, <1>7, <1>8 DEF OpenFilesAccounted
<1> QED BY Zenon, <1>3, <1>4, <1>5, <1>6, <1>9 DEF FilesInv

\* A sys_open that finds no descriptor leaves its entry behind.
LEMMA OpenNoFdKeepsFilesInv ==
  ASSUME FilesInv, NEW v \in Vnode, SysOpenNoFd(v)
  PROVE  FilesInv'
<1> USE ProcessesAssumption
<1> DEFINE e == Min(FreeEntry)
<1>1. e \in Entry /\ SYSTEMFileTable[e] = NULL /\ e \notin stale
  BY Zenon, FreeEntryIsFree DEF SysOpenNoFd
<1>2. /\ SYSTEMFileTable' = [SYSTEMFileTable EXCEPT ![e] = v]
      /\ opens' = opens /\ proc' = proc
      /\ stale' = stale \cup {e}
  BY Zenon DEF SysOpenNoFd, CloseAgain, procs
<1> HIDE DEF e
<1>4. /\ SYSTEMFileTable' \in [Entry -> Vnode \cup {NULL}]
      /\ SYSTEMFileTable'[e] = v
      /\ \A x \in Entry : x # e => SYSTEMFileTable'[x] = SYSTEMFileTable[x]
  BY Zenon, <1>1, <1>2 DEF FilesInv
<1>6. stale' \subseteq Entry /\ \A x \in stale' : SYSTEMFileTable'[x] # NULL
  BY Zenon, <1>1, <1>2, <1>4 DEF FilesInv
<1>7. ASSUME NEW u \in Vnode
      PROVE  opens'[u] = Cardinality({x \in Entry \ stale' : SYSTEMFileTable'[x] = u})
  <2>1. opens[u] = Cardinality(Holders(u))
    BY DEF FilesInv, OpenFilesAccounted, Holders
  <2>2. {x \in Entry \ stale' : SYSTEMFileTable'[x] = u} = Holders(u)
    BY Zenon, <1>1, <1>2, <1>4 DEF Holders
  <2> QED BY Zenon, <1>2, <2>1, <2>2
<1>8. ASSUME NEW q \in Proc, NEW g \in Fd, proc'[q].fileTable[g] \in Entry
      PROVE  /\ SYSTEMFileTable'[proc'[q].fileTable[g]] # NULL
             /\ proc'[q].fileTable[g] \notin stale'
             /\ \A h \in Fd : proc'[q].fileTable[h] = proc'[q].fileTable[g] => h = g
  BY <1>1, <1>2, <1>4, <1>8 DEF FilesInv, OpenFilesAccounted
<1>9. OpenFilesAccounted'
  BY Zenon, <1>7, <1>8 DEF OpenFilesAccounted
<1> QED BY Zenon, <1>2, <1>4, <1>6, <1>9 DEF FilesInv

\* sys_close gives up the entry and the open it stands for.
LEMMA CloseKeepsInv ==
  ASSUME ProcInv, FilesInv, NEW fd \in Fd, SysClose(fd)
  PROVE  ProcInv' /\ FilesInv'
<1> USE ProcessesAssumption
<1> DEFINE e == proc[t_proc].fileTable[fd]
           w == SYSTEMFileTable[e]
<1>1. tpc = "user" /\ e \in Entry /\ w # NULL
  BY Zenon DEF SysClose
<1>2. /\ SYSTEMFileTable' = [SYSTEMFileTable EXCEPT ![e] = NULL]
      /\ opens' = [opens EXCEPT ![w] = opens[w] - 1]
      /\ proc' = [proc EXCEPT ![t_proc].fileTable[fd] = NULL]
      /\ stale' = stale
      /\ UNCHANGED <<pid_table, menuVars, progVars, exited, failed, panicked>>
  BY DEF SysClose
<1>3. /\ ProcInv' /\ t_proc = mproc /\ mproc \in Proc /\ mproc' = mproc
      /\ \A r \in Proc : r # mproc => proc'[r] = proc[r]
      /\ proc'[mproc].fileTable[fd] = NULL
      /\ \A g \in Fd : g # fd => proc'[mproc].fileTable[g] = proc[mproc].fileTable[g]
  BY Zenon, <1>1, <1>2, FdStep
<1>0. w \in Vnode /\ e \notin stale /\ \A g \in Fd : proc[mproc].fileTable[g] = e => g = fd
  BY <1>1, <1>3 DEF FilesInv, OpenFilesAccounted
<1> HIDE DEF e, w
<1>4. /\ SYSTEMFileTable' \in [Entry -> Vnode \cup {NULL}]
      /\ SYSTEMFileTable'[e] = NULL
      /\ \A x \in Entry : x # e => SYSTEMFileTable'[x] = SYSTEMFileTable[x]
  BY Zenon, <1>1, <1>2 DEF FilesInv
<1>5. \A u \in Vnode : /\ opens[u] = Cardinality(Holders(u)) /\ IsFiniteSet(Holders(u))
                       /\ Cardinality(Holders(u)) \in Nat
  BY ZenonT(60), EntriesAreFinite DEF FilesInv, OpenFilesAccounted, Holders
<1>6. stale' \subseteq Entry /\ \A x \in stale' : SYSTEMFileTable'[x] # NULL
  BY Zenon, <1>0, <1>2, <1>4 DEF FilesInv
<1>7. ASSUME NEW u \in Vnode
      PROVE  /\ opens'[u] = Cardinality({x \in Entry \ stale' : SYSTEMFileTable'[x] = u})
             /\ opens'[u] \in Nat
  <2>1. CASE u = w
    <3>1. {x \in Entry \ stale' : SYSTEMFileTable'[x] = u} = Holders(u) \ {e}
      BY Zenon, <1>1, <1>2, <1>4, <2>1 DEF Holders
    <3>2. e \in Holders(u)
      BY Zenon, <1>0, <1>1, <2>1 DEF Holders, w
    <3>3. opens'[u] = opens[u] - 1
      BY Zenon, <1>2, <2>1 DEF FilesInv
    <3>4. Cardinality(Holders(u) \ {e}) = Cardinality(Holders(u)) - 1
      BY Zenon, <1>5, <3>2, FS_RemoveElement
    <3>5. IsFiniteSet(Holders(u) \ {e})
      BY Zenon, <1>5, FS_RemoveElement
    <3>6. Cardinality(Holders(u) \ {e}) \in Nat
      BY Zenon, <3>5, FS_CardinalityType
    <3> QED BY Zenon, <1>5, <3>1, <3>3, <3>4, <3>6
  <2>2. CASE u # w
    <3>1. {x \in Entry \ stale' : SYSTEMFileTable'[x] = u} = Holders(u)
      BY Zenon, <1>1, <1>2, <1>4, <2>2 DEF Holders, w
    <3>2. opens'[u] = opens[u]
      BY Zenon, <1>2, <2>2 DEF FilesInv
    <3> QED BY Zenon, <1>5, <3>1, <3>2
  <2> QED BY Zenon, <2>1, <2>2
<1>8. ASSUME NEW q \in Proc, NEW g \in Fd, proc'[q].fileTable[g] \in Entry
      PROVE  /\ SYSTEMFileTable'[proc'[q].fileTable[g]] # NULL
             /\ proc'[q].fileTable[g] \notin stale'
             /\ \A h \in Fd : proc'[q].fileTable[h] = proc'[q].fileTable[g] => h = g
  <2>1. q = mproc
    <3>1. q # mproc => proc'[q] = NoProc
      BY Zenon, <1>3 DEF ProcInv, OneProcess
    <3> QED BY Zenon, <1>8, <3>1, NoProcType
  <2>2. NULL \notin Entry
    BY DEF Entry
  <2>3. g # fd
    BY Zenon, <1>3, <1>8, <2>1, <2>2
  <2>4. proc'[q].fileTable[g] = proc[q].fileTable[g] /\ proc[q].fileTable[g] # e
    BY Zenon, <1>0, <1>3, <2>1, <2>3
  <2>5. /\ SYSTEMFileTable[proc[q].fileTable[g]] # NULL
        /\ proc[q].fileTable[g] \notin stale
        /\ \A h \in Fd : proc[q].fileTable[h] = proc[q].fileTable[g] => h = g
    BY Zenon, <1>8, <2>4 DEF FilesInv, OpenFilesAccounted
  <2> QED BY <1>2, <1>3, <1>4, <1>8, <2>1, <2>2, <2>4, <2>5
<1>9. OpenFilesAccounted'
  BY Zenon, <1>7, <1>8 DEF OpenFilesAccounted
<1>10. opens' \in [Vnode -> Nat]
  BY Zenon, <1>2, <1>7 DEF FilesInv
<1> QED BY Zenon, <1>3, <1>4, <1>6, <1>9, <1>10 DEF FilesInv

\* The menu's steps, and those of a thread that leaves, give no process an entry.
LEMMA MenuKeepsFilesInv ==
  ASSUME ProcInv, FilesInv, Menu
  PROVE  FilesInv'
<1> USE ProcessesAssumption
<1> DEFINE Same(q) == proc'[q].fileTable = proc[q].fileTable
           None(q) == \A fd \in Fd : proc'[q].fileTable[fd] \notin Entry
<1>0. proc \in [Proc -> ProcRecord]
  BY Zenon DEF ProcInv, ProcType
<1>1. ASSUME NEW q \in Proc, NEW junk \in [Fd -> {NULL, Stray}], ProcCreateRunprogram(q, junk)
      PROVE  UNCHANGED files /\ \A r \in Proc : Same(r) \/ None(r)
  <2> DEFINE new == NewProc(Min(FreePid), junk)
  <2>1. UNCHANGED files /\ proc' = [proc EXCEPT ![q] = new]
    BY Zenon, <1>1, CreateKeepsProcInv DEF ProcCreateRunprogram
  <2>2. new.fileTable = junk
    BY DEF NewProc
  <2> HIDE DEF new
  <2>3. proc'[q] = new /\ \A r \in Proc : r # q => proc'[r] = proc[r]
    BY Zenon, <1>0, <2>1
  <2>4. \A fd \in Fd : junk[fd] \notin Entry
    BY Zenon DEF Entry
  <2>5. None(q)
    BY Zenon, <2>2, <2>3, <2>4
  <2> QED BY Zenon, <2>1, <2>3, <2>5
<1>2. ASSUME ThreadFork \/ MenuWait
      PROVE  UNCHANGED files /\ \A r \in Proc : Same(r) \/ None(r)
  <2>1. mproc \in Proc
    BY Zenon, <1>2 DEF ThreadFork, MenuWait, ProcInv, ProcType, OneProcess
  <2>2. UNCHANGED files
    BY <1>2 DEF ThreadFork, MenuWait
  <2>3. PICK r \in ProcRecord : proc' = [proc EXCEPT ![mproc] = r]
                                /\ r.fileTable = proc[mproc].fileTable
    <3>0. proc[mproc] \in ProcRecord
      BY Zenon, <1>0, <2>1
    <3>1. CASE proc' = proc
      BY Zenon, <1>0, <2>1, <3>0, <3>1
    <3>2. CASE ThreadFork /\ proc' = [proc EXCEPT ![mproc].p_numthreads = @ + 1]
      <4>1. proc[mproc].p_numthreads = 0
        BY <3>2 DEF ThreadFork, ProcInv, Together, OneProcess
      <4>2. proc' = [proc EXCEPT ![mproc] = WithNumthreads(proc[mproc], 1)]
        BY <1>0, <2>1, <3>2, <4>1 DEF WithNumthreads
      <4>3. /\ WithNumthreads(proc[mproc], 1) \in ProcRecord
            /\ WithNumthreads(proc[mproc], 1).fileTable = proc[mproc].fileTable
        BY <3>0, SetNumthreads
      <4> QED BY Zenon, <4>2, <4>3
    <3>3. CASE /\ proc[mproc].s_exit > 0
               /\ proc' = [proc EXCEPT ![mproc].s_exit = @ - 1]
      <4>1. proc[mproc].s_exit = 1
        BY <3>0, <3>3 DEF ProcRecord
      <4>2. proc' = [proc EXCEPT ![mproc] = WithExit(proc[mproc], 0)]
        BY <1>0, <2>1, <3>3, <4>1 DEF WithExit
      <4>3. /\ WithExit(proc[mproc], 0) \in ProcRecord
            /\ WithExit(proc[mproc], 0).fileTable = proc[mproc].fileTable
        BY <3>0, SetExit
      <4> QED BY Zenon, <4>2, <4>3
    <3> QED BY Zenon, <1>2, <3>1, <3>2, <3>3 DEF ThreadFork, MenuWait
  <2> QED BY Zenon, <1>0, <2>1, <2>2, <2>3
<1>3. ASSUME MenuReap \/ MenuDestroy
      PROVE  UNCHANGED files /\ \A r \in Proc : Same(r) \/ None(r)
  <2>1. UNCHANGED files
    BY Zenon, <1>3 DEF MenuReap, MenuDestroy
  <2>2. proc' = proc \/ proc' = [proc EXCEPT ![mproc] = NoProc]
    BY Zenon, <1>3 DEF MenuReap, MenuDestroy
  <2>3. \A r \in Proc : proc'[r] = proc[r] \/ proc'[r] = NoProc
    BY Zenon, <1>0, <2>2
  <2> QED BY Zenon, <2>1, <2>3, NoProcType
<1> HIDE DEF Same, None
<1>4. UNCHANGED files /\ \A r \in Proc : Same(r) \/ None(r)
  BY Zenon, <1>1, <1>2, <1>3 DEF Menu
<1> QED BY Zenon, <1>4, QuietKeepsFilesInv DEF Same, None

\* Steps that open and close no file leave the accounts alone.
LEMMA LeaveKeepsFilesInv ==
  ASSUME ProcInv, FilesInv,
         \/ LoadProgram \/ LoadFails \/ SysExitV \/ ThreadExit
         \/ \E status \in Status : SysExit(status)
         \/ \E pid \in Pid : SysWaitpid(pid)
         \/ \E fd \in 0 .. OPEN_MAX : FollowStray(fd)
  PROVE  FilesInv'
<1> USE ProcessesAssumption
<1> DEFINE Quiet == /\ UNCHANGED files
                    /\ \A q \in Proc : proc'[q].fileTable = proc[q].fileTable
<1> SUFFICES Quiet
  BY QuietKeepsFilesInv
<1>0. proc \in [Proc -> ProcRecord]
  BY Zenon DEF ProcInv, ProcType
<1>1. ASSUME NEW q \in Proc, NEW r \in ProcRecord, UNCHANGED files,
             proc' = [proc EXCEPT ![q] = r], r.fileTable = proc[q].fileTable
      PROVE  Quiet
  BY <1>0, <1>1
<1> HIDE DEF Quiet
<1>2. CASE LoadProgram \/ LoadFails
  <2>1. t_proc \in Proc /\ proc[t_proc] \in ProcRecord
    BY Zenon, <1>2, UserHasProcess, ThreadInProcess DEF LoadProgram, LoadFails
  <2>2. PICK as \in BOOLEAN : proc' = [proc EXCEPT ![t_proc].p_addrspace = as]
    BY Zenon, <1>2 DEF LoadProgram, LoadFails
  <2>3. proc' = [proc EXCEPT ![t_proc] = WithAddrspace(proc[t_proc], as)]
    BY Zenon, <1>0, <2>1, <2>2 DEF WithAddrspace
  <2>4. UNCHANGED files
    BY <1>2 DEF LoadProgram, LoadFails
  <2>5. /\ WithAddrspace(proc[t_proc], as) \in ProcRecord
        /\ WithAddrspace(proc[t_proc], as).fileTable = proc[t_proc].fileTable
    BY <2>1, SetAddrspace, Zenon
  <2> QED BY Zenon, <1>1, <2>1, <2>3, <2>4, <2>5
<1>3. CASE SysExitV
  <2>1. p \in Proc /\ proc[p] \in ProcRecord /\ proc[p].s_exit = 0
    BY Zenon, <1>3 DEF SysExitV, ProcInv, Together, OneProcess, ProcType
  <2>2. proc' = [proc EXCEPT ![p] = WithExit(proc[p], 1)]
    BY <1>0, <1>3, <2>1 DEF SysExitV, WithExit
  <2>3. UNCHANGED files
    BY <1>3 DEF SysExitV
  <2>4. WithExit(proc[p], 1) \in ProcRecord /\ WithExit(proc[p], 1).fileTable = proc[p].fileTable
    BY <2>1, SetExit
  <2> QED BY Zenon, <1>1, <2>1, <2>2, <2>3, <2>4
<1>4. CASE ThreadExit
  <2>1. UNCHANGED files
    BY Zenon, <1>4 DEF ThreadExit
  <2>2. CASE t_proc = NULL
    BY <1>4, <2>1, <2>2 DEF ThreadExit, Quiet
  <2>3. CASE t_proc # NULL
    <3>1. t_proc \in Proc /\ proc[t_proc] \in ProcRecord /\ proc[t_proc].p_numthreads = 1
      BY <2>3, ThreadInProcess
    <3>2. proc' = [proc EXCEPT ![t_proc] = WithNumthreads(proc[t_proc], 0)]
      BY <1>0, <1>4, <2>3, <3>1 DEF ThreadExit, RemThread, WithNumthreads
    <3>3. /\ WithNumthreads(proc[t_proc], 0) \in ProcRecord
          /\ WithNumthreads(proc[t_proc], 0).fileTable = proc[t_proc].fileTable
      BY <3>1, SetNumthreads
    <3> QED BY Zenon, <1>1, <2>1, <3>1, <3>2, <3>3
  <2> QED BY Zenon, <2>2, <2>3
<1>5. ASSUME NEW status \in Status, SysExit(status)
      PROVE  Quiet
  <2>1. /\ t_proc \in Proc /\ proc[t_proc] \in ProcRecord /\ proc[t_proc].p_numthreads = 1
    BY Zenon, <1>5, UserHasProcess, ThreadInProcess DEF SysExit
  <2>2. PICK low \in Byte : low = status % 256
    BY DEF Byte
  <2> DEFINE q == WithStatus(proc[t_proc], low)
  <2>3. q \in ProcRecord /\ q.p_numthreads = 1 /\ q.fileTable = proc[t_proc].fileTable
    BY <2>1, SetStatus
  <2>4. proc' = [proc EXCEPT ![t_proc] = [q EXCEPT !.p_numthreads = q.p_numthreads - 1]]
    BY Zenon, <1>5, <2>2 DEF SysExit, RemThread, WithStatus, LowByte
  <2> HIDE DEF q
  <2>5. proc' = [proc EXCEPT ![t_proc] = WithNumthreads(q, 0)]
    BY <2>3, <2>4 DEF WithNumthreads
  <2>6. UNCHANGED files
    BY Zenon, <1>5 DEF SysExit
  <2>7. /\ WithNumthreads(q, 0) \in ProcRecord
        /\ WithNumthreads(q, 0).fileTable = proc[t_proc].fileTable
    BY <2>3, SetNumthreads
  <2> QED BY Zenon, <1>1, <2>1, <2>5, <2>6, <2>7
<1>6. CASE \/ \E pid \in Pid : SysWaitpid(pid)
           \/ \E fd \in 0 .. OPEN_MAX : FollowStray(fd)
  <2>1. UNCHANGED files /\ proc' = proc
    BY Zenon, <1>6 DEF SysWaitpid, FollowStray, procs
  <2> QED BY <2>1 DEF Quiet
<1> QED BY Zenon, <1>2, <1>3, <1>4, <1>5, <1>6

\* A close that follows a stray pointer clears the slot it was in.
LEMMA CloseStrayKeepsInv ==
  ASSUME ProcInv, FilesInv, NEW fd \in Fd, CloseStray(fd)
  PROVE  ProcInv' /\ FilesInv'
<1>1. /\ tpc = "user" /\ proc' = [proc EXCEPT ![t_proc].fileTable[fd] = NULL]
      /\ UNCHANGED <<pid_table, menuVars, progVars, exited, failed, panicked>>
      /\ SYSTEMFileTable' = SYSTEMFileTable /\ opens' = opens /\ stale' = stale
  BY Zenon DEF CloseStray, files
<1>2. /\ ProcInv' /\ mproc \in Proc
      /\ \A r \in Proc : r # mproc => proc'[r] = proc[r]
      /\ proc'[mproc].fileTable[fd] = NULL
      /\ \A g \in Fd : g # fd => proc'[mproc].fileTable[g] = proc[mproc].fileTable[g]
  BY Zenon, <1>1, FdStep
<1>3. NULL \notin Entry
  BY ProcessesAssumption DEF Entry
<1>4. \A q \in Proc : \A g \in Fd : proc'[q].fileTable[g] \in Entry =>
        proc'[q].fileTable[g] = proc[q].fileTable[g]
  BY Zenon, <1>2, <1>3
<1>5. ASSUME NEW q \in Proc, NEW g \in Fd, proc'[q].fileTable[g] \in Entry
      PROVE  /\ SYSTEMFileTable'[proc'[q].fileTable[g]] # NULL
             /\ proc'[q].fileTable[g] \notin stale'
             /\ \A h \in Fd : proc'[q].fileTable[h] = proc'[q].fileTable[g] => h = g
  <2>1. proc'[q].fileTable[g] = proc[q].fileTable[g]
    BY Zenon, <1>4, <1>5
  <2>2. /\ SYSTEMFileTable[proc[q].fileTable[g]] # NULL
        /\ proc[q].fileTable[g] \notin stale
        /\ \A h \in Fd : proc[q].fileTable[h] = proc[q].fileTable[g] => h = g
    BY Zenon, <1>5, <2>1 DEF FilesInv, OpenFilesAccounted
  <2>3. ASSUME NEW h \in Fd, proc'[q].fileTable[h] = proc'[q].fileTable[g] PROVE h = g
    <3>1. proc'[q].fileTable[h] = proc[q].fileTable[h]
      BY Zenon, <1>4, <1>5, <2>3
    <3> QED BY Zenon, <2>1, <2>2, <2>3, <3>1
  <2>4. /\ SYSTEMFileTable'[proc'[q].fileTable[g]] # NULL
        /\ proc'[q].fileTable[g] \notin stale'
    BY <1>1, <2>1, <2>2
  <2> QED BY Zenon, <2>3, <2>4
<1>6. \A v \in Vnode :
        opens'[v] = Cardinality({e \in Entry \ stale' : SYSTEMFileTable'[e] = v})
  BY <1>1 DEF FilesInv, OpenFilesAccounted
<1>7. OpenFilesAccounted'
  BY Zenon, <1>5, <1>6 DEF OpenFilesAccounted
<1> QED BY Zenon, <1>1, <1>2, <1>7 DEF FilesInv

---------------------------------------------------------------------------
(* The theorems.                                                           *)

ProcessesInv == ProcInv /\ FilesInv

\* Steps that change only the open files keep the part about processes.
LEMMA SameKeepsProcInv ==
  ASSUME ProcInv,
         UNCHANGED <<proc, pid_table, menu, mproc, exit_code, tpc, t_proc, p, exited, failed,
                     panicked>>
  PROVE  ProcInv'
<1>1. ProcType'
  BY Zenon DEF ProcInv, ProcType
<1>2. OneProcess'
  BY Zenon DEF ProcInv, OneProcess
<1>3. Together'
  BY Zenon DEF ProcInv, Together
<1>4. StatusKept'
  BY DEF ProcInv, StatusKept
<1> QED BY Zenon, <1>1, <1>2, <1>3, <1>4 DEF ProcInv

\* Every step of the menu and the program keeps the invariant.
LEMMA ProcessesStep == ProcessesInv /\ [Next]_vars => ProcessesInv'
<1> SUFFICES ASSUME ProcInv, FilesInv, [Next]_vars
             PROVE  ProcInv' /\ FilesInv'
  BY DEF ProcessesInv
<1>1. CASE UNCHANGED vars
  <2>1. UNCHANGED <<proc, pid_table, menu, mproc, exit_code, tpc, t_proc, p, exited, failed,
                    panicked>> /\ UNCHANGED files
    BY <1>1 DEF vars, procs, menuVars, progVars
  <2>2. ProcInv'
    BY Zenon, <2>1, SameKeepsProcInv
  <2>3. FilesInv'
    BY Zenon, <2>1, QuietKeepsFilesInv
  <2> QED BY Zenon, <2>2, <2>3
<1>2. CASE panicked = "no" /\ Menu
  <2>1. ProcInv'
    BY Zenon, <1>2, CreateKeepsProcInv, ForkKeepsProcInv, WaitKeepsProcInv, ReapKeepsProcInv,
       DestroyKeepsProcInv DEF Menu
  <2> QED BY Zenon, <1>2, <2>1, MenuKeepsFilesInv
<1>3. CASE panicked = "no" /\ Program
  <2>1. CASE LoadProgram \/ LoadFails
    BY Zenon, <1>3, <2>1, LoadKeepsProcInv, LeaveKeepsFilesInv
  <2>2. CASE \E status \in Status : SysExit(status)
    BY Zenon, <2>2, ExitKeepsProcInv, LeaveKeepsFilesInv
  <2>3. CASE SysExitV
    BY Zenon, <2>3, ExitVKeepsProcInv, LeaveKeepsFilesInv
  <2>4. CASE ThreadExit
    BY Zenon, <2>4, ThreadExitKeepsProcInv, LeaveKeepsFilesInv
  <2>5. CASE \/ \E pid \in Pid : SysWaitpid(pid)
             \/ \E fd \in 0 .. OPEN_MAX : FollowStray(fd)
    BY Zenon, <1>3, <2>5, StopKeepsProcInv, LeaveKeepsFilesInv
  <2>6. ASSUME NEW v \in Vnode, SysOpen(v) PROVE ProcInv' /\ FilesInv'
    BY <2>6, OpenKeepsInv
  <2>7. ASSUME NEW v \in Vnode, SysOpenNoFd(v) PROVE ProcInv' /\ FilesInv'
    <3>1. UNCHANGED <<proc, pid_table, menu, mproc, exit_code, tpc, t_proc, p, exited, failed,
                      panicked>>
      BY Zenon, <2>7 DEF SysOpenNoFd, procs, menuVars, progVars
    <3>2. ProcInv'
      BY Zenon, <3>1, SameKeepsProcInv
    <3> QED BY Zenon, <2>7, <3>2, OpenNoFdKeepsFilesInv
  <2>8. ASSUME NEW fd \in Fd, SysClose(fd) PROVE ProcInv' /\ FilesInv'
    BY <2>8, CloseKeepsInv
  <2>9. ASSUME NEW fd \in Fd, CloseStray(fd) PROVE ProcInv' /\ FilesInv'
    BY Zenon, <2>9, CloseStrayKeepsInv
  <2> QED BY Zenon, <1>3, <2>1, <2>2, <2>3, <2>4, <2>5, <2>6, <2>7, <2>8, <2>9 DEF Program
<1> QED BY Zenon, <1>1, <1>2, <1>3 DEF Next

\* The invariant holds of every reachable state of Processes.
LEMMA ProcessesInvAlways == Spec => []ProcessesInv
<1>1. Init => ProcessesInv
  BY ProcInvInit, FilesInvInit DEF ProcessesInv
<1> QED BY <1>1, ProcessesStep, PTL DEF Spec

\* Type correctness: one thread and a binary semaphore per process, whatever the sizes
\* of the tables; a vnode is open at most once per entry of SYSTEMFileTable.
THEOREM ProcessesTypeOK == Spec => []TypeOK
<1>1. ProcessesInv => TypeOK
  <2> SUFFICES ASSUME ProcInv, FilesInv PROVE TypeOK
    BY DEF ProcessesInv
  <2>1. \A q \in Proc : proc[q] \in ProcRecord
    BY Zenon DEF ProcInv, ProcType
  <2>2. \A q \in Proc :
          /\ proc[q].p_numthreads \in 0 .. 1 /\ proc[q].s_exit \in 0 .. 1
          /\ proc[q].p_status \in 0 .. 255
          /\ proc[q].fileTable \in [Fd -> Entry \cup {NULL, Stray}]
    BY <2>1 DEF ProcRecord, Byte
  <2>3. \A v \in Vnode : opens[v] \in 0 .. SYSTEM_OPEN_MAX
    BY Zenon, EntriesAreFinite DEF FilesInv, OpenFilesAccounted
  <2>4. opens \in [Vnode -> 0 .. SYSTEM_OPEN_MAX]
    BY <2>3 DEF FilesInv
  <2> QED BY Zenon, <2>2, <2>4 DEF TypeOK, FilesInv, ProcInv, ProcType
<1> QED BY <1>1, ProcessesInvAlways, PTL

\* proc_destroy never frees a structure that the program's thread still uses, and
\* the table always leads from an identifier to its process: proc_destroy's and
\* proc_create's assertions hold.
THEOREM ProcessLivesWhileUsed == Spec => []ProcLivesWhileUsed
<1>1. ProcessesInv => ProcLivesWhileUsed
  <2> SUFFICES ASSUME ProcInv PROVE ProcLivesWhileUsed
    BY Zenon DEF ProcessesInv
  <2> USE ProcessesAssumption DEF ProcInv
  <2>1. t_proc # NULL => proc[t_proc].live /\ proc[t_proc].p_numthreads = 1
    BY DEF Together, OneProcess
  <2>2. tpc = "V" => proc[p].live /\ pid_table[proc[p].p_pid] = p
    BY Zenon DEF Together, OneProcess, ProcType
  <2>3. \A i \in Pid : pid_table[i] \in Proc =>
          proc[pid_table[i]].live /\ proc[pid_table[i]].p_pid = i
    BY DEF OneProcess
  <2>4. \A q \in Proc : proc[q].live /\ menu # "destroy" => pid_table[proc[q].p_pid] = q
    BY ZenonT(60), NoProcType DEF OneProcess, ProcType
  <2> QED BY Zenon, <2>1, <2>2, <2>3, <2>4 DEF ProcLivesWhileUsed, OneProcess, ProcType
<1> QED BY <1>1, ProcessesInvAlways, PTL

\* The menu gets the low byte of what the program it ran, and no other, passed to _exit.
THEOREM MenuGetsTheStatus == Spec => []MenuGetsExitStatus
<1>1. ProcessesInv => MenuGetsExitStatus
  BY DEF ProcessesInv, ProcInv, StatusKept, Together, MenuGetsExitStatus
<1> QED BY <1>1, ProcessesInvAlways, PTL

\* The wakeup of sys_waitpid is not lost: with its program gone, the menu sleeps only
\* after a fork or a load that failed.
THEOREM MenuIsWoken == Spec => []MenuSleepsAfterFailureOnly
<1>1. ProcessesInv => MenuSleepsAfterFailureOnly
  BY DEF ProcessesInv, ProcInv, Together, MenuSleepsAfterFailureOnly
<1> QED BY <1>1, ProcessesInvAlways, PTL

\* Every open of a vnode belongs to one entry of SYSTEMFileTable, and no two
\* descriptors share an entry, whatever sys_open left behind.
THEOREM FilesAreAccounted == Spec => []OpenFilesAccounted
<1>1. ProcessesInv => OpenFilesAccounted
  BY DEF ProcessesInv, FilesInv
<1> QED BY <1>1, ProcessesInvAlways, PTL
=============================================================================
