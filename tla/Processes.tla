----------------------------- MODULE Processes -----------------------------
(***************************************************************************)
(* Processes (kern/proc/proc.c, kern/syscall/proc_syscalls.c,              *)
(* runprogram.c), the menu that runs programs one at a time and waits for  *)
(* each (kern/main/menu.c), and the files a program opens                  *)
(* (kern/syscall/file_syscalls.c).                                         *)
(*                                                                         *)
(* Two threads interleave: the menu's, and that of the program, which goes *)
(* on for a while after it has signalled its exit.  A proc structure is a  *)
(* piece of kernel memory that is used, freed and used again; its          *)
(* fileTable is never initialised, so each of its slots starts as NULL or  *)
(* as a stray pointer.                                                     *)
(***************************************************************************)
EXTENDS Naturals, FiniteSets, FiniteSetsExt

CONSTANTS
  Proc,             \* memory for proc structures of programs
  kproc,            \* the process of the kernel
  NULL,
  Stray,            \* a pointer left in memory that was not initialised
  MINP, MAXP,       \* process identifiers are MINP .. MAXP - 1
  OPEN_MAX,         \* descriptors are 0 .. OPEN_MAX - 1
  SYSTEM_OPEN_MAX,  \* entries of SYSTEMFileTable
  Vnode,            \* files that can be opened
  Status            \* what programs pass to _exit

ASSUME ProcessesAssumption ==
  /\ MINP \in Nat /\ MAXP \in Nat /\ MINP + 1 < MAXP
  /\ OPEN_MAX \in Nat /\ SYSTEM_OPEN_MAX \in Nat /\ Status \subseteq Nat
  /\ kproc \notin Proc /\ NULL \notin Proc /\ NULL # kproc /\ NULL \notin Vnode
  /\ Stray \notin 0 .. SYSTEM_OPEN_MAX - 1 /\ NULL \notin 0 .. SYSTEM_OPEN_MAX - 1

VARIABLES
  proc,       \* the proc structures
  pid_table,
  menu,       \* where the menu thread is in common_prog
  mproc,      \* its proc
  exit_code,  \* the status sys_waitpid gave it
  tpc,        \* where the program's thread is
  t_proc,     \* its process
  p,          \* the proc sys__exit works on
  SYSTEMFileTable,  \* the vnode of each entry
  opens,      \* how often each vnode is open
  stale,      \* entries whose vnode sys_open has closed again
  exited,     \* the status last passed to _exit
  failed,     \* the fork or the load of the current program failed
  panicked    \* the KASSERT or panic that was hit

procs == <<proc, pid_table>>
menuVars == <<menu, mproc, exit_code>>
progVars == <<tpc, t_proc, p>>
files == <<SYSTEMFileTable, opens, stale>>
vars == <<procs, menuVars, progVars, files, exited, failed, panicked>>

Pid == MINP .. MAXP - 1
Fd == 0 .. OPEN_MAX - 1
Entry == 0 .. SYSTEM_OPEN_MAX - 1

NoProc == [live |-> FALSE, p_pid |-> 0, p_numthreads |-> 0, p_status |-> 0, s_exit |-> 0,
           p_addrspace |-> FALSE, fileTable |-> [fd \in Fd |-> NULL]]

\* What proc_create fills in; the file table is not among it.
NewProc(pid, junk) ==
  [live |-> TRUE, p_pid |-> pid, p_numthreads |-> 0, p_status |-> 0, s_exit |-> 0,
   p_addrspace |-> FALSE, fileTable |-> junk]

\* proc_bootstrap gives kproc the first identifier.
Init ==
  /\ proc = [q \in Proc |-> NoProc]
  /\ pid_table = [i \in Pid |-> IF i = MINP THEN kproc ELSE NULL]
  /\ menu = "prompt" /\ mproc = NULL /\ exit_code = 0
  /\ tpc = "none" /\ t_proc = NULL /\ p = NULL
  /\ SYSTEMFileTable = [e \in Entry |-> NULL]
  /\ opens = [v \in Vnode |-> 0]
  /\ stale = {}
  /\ exited = 0 /\ failed = FALSE /\ panicked = "no"

---------------------------------------------------------------------------
(* The menu: common_prog.                                                  *)

FreePid == {i \in Pid : pid_table[i] = NULL}

\* proc_create: a structure from kmalloc, with the first free identifier.  The thread
\* of the program before may still be in thread_exit: it has no process any more, and
\* what it has left to do touches nothing here.
ProcCreateRunprogram(q, junk) ==
  /\ menu = "prompt"
  /\ ~proc[q].live
  /\ IF FreePid = {}
     THEN /\ panicked' = "table full"
          /\ UNCHANGED <<procs, menu, mproc>>
     ELSE /\ proc' = [proc EXCEPT ![q] = NewProc(Min(FreePid), junk)]
          /\ pid_table' = [pid_table EXCEPT ![Min(FreePid)] = q]
          /\ menu' = "fork" /\ mproc' = q
          /\ UNCHANGED panicked
  /\ tpc' = "none" /\ failed' = FALSE /\ exit_code' = 1
  /\ UNCHANGED <<t_proc, p, files, exited>>

\* thread_fork: result is looked at only after sys_waitpid has returned.
ThreadFork ==
  /\ menu = "fork"
  /\ menu' = "wait"
  /\ \/ /\ proc' = [proc EXCEPT ![mproc].p_numthreads = @ + 1]
        /\ t_proc' = mproc
        /\ tpc' = "load"
        /\ UNCHANGED failed
     \/ /\ failed' = TRUE
        /\ UNCHANGED <<proc, t_proc, tpc>>
  /\ UNCHANGED <<pid_table, mproc, exit_code, p, files, exited, panicked>>

\* sys_waitpid(proc_getpid(proc)): P(s_exit), from the start or woken.
MenuWait ==
  /\ menu = "wait"
  /\ pid_table[proc[mproc].p_pid] = mproc
  /\ \/ /\ proc[mproc].s_exit = 0
        /\ menu' = "asleep"
        /\ UNCHANGED proc
     \/ /\ proc[mproc].s_exit > 0
        /\ proc' = [proc EXCEPT ![mproc].s_exit = @ - 1]
        /\ menu' = "reap"
  /\ UNCHANGED <<pid_table, mproc, exit_code, progVars, files, exited, failed, panicked>>

\* The status is read; proc_destroy starts with the semaphore and the identifier.
MenuReap ==
  /\ menu = "reap"
  /\ exit_code' = proc[mproc].p_status
  /\ pid_table' = [pid_table EXCEPT ![proc[mproc].p_pid] = NULL]
  /\ menu' = "destroy"
  /\ UNCHANGED <<proc, mproc, progVars, files, exited, failed, panicked>>

\* The address space goes, then the structure, which must have no thread.
MenuDestroy ==
  /\ menu = "destroy"
  /\ IF proc[mproc].p_numthreads = 0
     THEN /\ proc' = [proc EXCEPT ![mproc] = NoProc]
          /\ menu' = "prompt" /\ mproc' = NULL
          /\ UNCHANGED panicked
     ELSE /\ panicked' = "p_numthreads == 0"
          /\ UNCHANGED <<proc, menu, mproc>>
  /\ UNCHANGED <<pid_table, exit_code, progVars, files, exited, failed>>

---------------------------------------------------------------------------
(* The program's thread: runprogram, _exit and waitpid.                    *)

\* The executable is opened, loaded into a new address space and closed.
LoadProgram ==
  /\ tpc = "load"
  /\ proc' = [proc EXCEPT ![t_proc].p_addrspace = TRUE]
  /\ tpc' = "user"
  /\ UNCHANGED <<pid_table, menuVars, t_proc, p, files, exited, failed, panicked>>

\* An error of vfs_open, as_create, load_elf or as_define_stack: cmd_progthread
\* returns, the address space, if there is one by now, stays, and nobody signals.
LoadFails ==
  /\ tpc = "load"
  /\ \E as \in BOOLEAN : proc' = [proc EXCEPT ![t_proc].p_addrspace = as]
  /\ tpc' = "thread_exit"
  /\ failed' = TRUE
  /\ UNCHANGED <<pid_table, menuVars, t_proc, p, files, exited, panicked>>

\* Mutant: all the bits of the status.
LowByteAll(status) == status

\* status & 0xff
LowByte(status) == status % 256

\* Mutant: the thread is left in the process.
RemThreadNot(q) == proc' = [proc EXCEPT ![t_proc] = q] /\ UNCHANGED t_proc

\* proc_remthread, with the other fields of the process as in q.
RemThread(q) ==
  /\ proc' = [proc EXCEPT ![t_proc] = [q EXCEPT !.p_numthreads = @ - 1]]
  /\ t_proc' = NULL

\* sys__exit: the status is stored and the thread detached ...
SysExit(status) ==
  /\ tpc = "user"
  /\ p' = t_proc
  /\ exited' = status
  /\ RemThread([proc[t_proc] EXCEPT !.p_status = LowByte(status)])
  /\ tpc' = "V"
  /\ UNCHANGED <<pid_table, menuVars, files, failed, panicked>>

\* Mutant: the menu is not woken.
WakeMenuNot == UNCHANGED menu

WakeMenu == menu' = IF menu = "asleep" /\ mproc = p THEN "wait" ELSE menu

\* ... then V(p->s_exit), the last access to the structure.
SysExitV ==
  /\ tpc = "V"
  /\ proc' = [proc EXCEPT ![p].s_exit = @ + 1]
  /\ WakeMenu
  /\ tpc' = "thread_exit"
  /\ UNCHANGED <<pid_table, mproc, exit_code, t_proc, p, files, exited, failed, panicked>>

ThreadExit ==
  /\ tpc = "thread_exit"
  /\ IF t_proc # NULL THEN RemThread(proc[t_proc]) ELSE UNCHANGED <<proc, t_proc>>
  /\ tpc' = "gone"
  /\ p' = NULL
  /\ UNCHANGED <<pid_table, menuVars, files, exited, failed, panicked>>

\* sys_waitpid by the program: -1 when nobody has the identifier; a KASSERT when it
\* is the kernel's; a sleep that nobody ends when it is its own.
SysWaitpid(pid) ==
  /\ tpc = "user"
  /\ pid_table[pid] # NULL
  /\ IF pid_table[pid] = kproc
     THEN panicked' = "p != kproc" /\ UNCHANGED tpc
     ELSE tpc' = "selfwait" /\ UNCHANGED panicked
  /\ UNCHANGED <<procs, menuVars, t_proc, p, files, exited, failed>>

---------------------------------------------------------------------------
(* The program's thread: open, close, read and write.                      *)

FreeEntry == {e \in Entry : SYSTEMFileTable[e] = NULL}

\* The search starts after STDERR_FILENO.
FreeFd == {fd \in Fd : fd > 2 /\ proc[t_proc].fileTable[fd] = NULL}

\* sys_open of a file that vfs_open can open.  With no free entry the vnode is
\* closed again and nothing has changed.
SysOpen(v) ==
  /\ tpc = "user"
  /\ FreeEntry # {} /\ FreeFd # {}
  /\ SYSTEMFileTable' = [SYSTEMFileTable EXCEPT ![Min(FreeEntry)] = v]
  /\ opens' = [opens EXCEPT ![v] = @ + 1]
  /\ proc' = [proc EXCEPT ![t_proc].fileTable[Min(FreeFd)] = Min(FreeEntry)]
  /\ UNCHANGED <<pid_table, menuVars, progVars, stale, exited, failed, panicked>>

\* Mutant: the vnode is not closed when there is no free descriptor.
CloseAgainNot(v) == opens' = [opens EXCEPT ![v] = @ + 1]

\* vfs_close(v), after the vfs_open above.
CloseAgain(v) == UNCHANGED opens

\* EMFILE: the vnode is closed, and the entry keeps it.
SysOpenNoFd(v) ==
  /\ tpc = "user"
  /\ FreeEntry # {} /\ FreeFd = {}
  /\ SYSTEMFileTable' = [SYSTEMFileTable EXCEPT ![Min(FreeEntry)] = v]
  /\ CloseAgain(v)
  /\ stale' = stale \cup {Min(FreeEntry)}
  /\ UNCHANGED <<procs, menuVars, progVars, exited, failed, panicked>>

SysClose(fd) ==
  LET e == proc[t_proc].fileTable[fd]
  IN /\ tpc = "user"
     /\ e \in Entry
     /\ SYSTEMFileTable[e] # NULL
     /\ SYSTEMFileTable' = [SYSTEMFileTable EXCEPT ![e] = NULL]
     /\ opens' = [opens EXCEPT ![SYSTEMFileTable[e]] = @ - 1]
     /\ proc' = [proc EXCEPT ![t_proc].fileTable[fd] = NULL]
     /\ UNCHANGED <<pid_table, menuVars, progVars, stale, exited, failed, panicked>>

\* close, read or write on a slot that was never set, or on the one past the table:
\* the stray pointer is followed, into a trap ...
FollowStray(fd) ==
  /\ tpc = "user"
  /\ fd \in Fd => proc[t_proc].fileTable[fd] = Stray
  /\ panicked' = "fatal trap"
  /\ UNCHANGED <<procs, menuVars, progVars, files, exited, failed>>

\* ... or into memory that happens to be there, assumed to be none of the tables of
\* this module: close stores NULL through it, closes what it finds there and clears
\* the slot.  (Where it finds NULL, and for the slot past the table, which is past the
\* structure too, nothing here changes.)
CloseStray(fd) ==
  /\ tpc = "user"
  /\ proc[t_proc].fileTable[fd] = Stray
  /\ proc' = [proc EXCEPT ![t_proc].fileTable[fd] = NULL]
  /\ UNCHANGED <<pid_table, menuVars, progVars, files, exited, failed, panicked>>

---------------------------------------------------------------------------

Menu ==
  \/ \E q \in Proc, junk \in [Fd -> {NULL, Stray}] : ProcCreateRunprogram(q, junk)
  \/ ThreadFork \/ MenuWait \/ MenuReap \/ MenuDestroy

Program ==
  \/ LoadProgram \/ LoadFails
  \/ \E status \in Status : SysExit(status)
  \/ SysExitV \/ ThreadExit
  \/ \E pid \in Pid : SysWaitpid(pid)
  \/ \E v \in Vnode : SysOpen(v) \/ SysOpenNoFd(v)
  \/ \E fd \in Fd : SysClose(fd) \/ CloseStray(fd)
  \/ \E fd \in 0 .. OPEN_MAX : FollowStray(fd)

Next == panicked = "no" /\ (Menu \/ Program)

\* The menu's thread goes on once it has a process to run, and a program that has
\* called _exit gets to its end.
Fairness ==
  /\ WF_vars(panicked = "no" /\ (ThreadFork \/ MenuWait \/ MenuReap \/ MenuDestroy))
  /\ WF_vars(panicked = "no" /\ (SysExitV \/ ThreadExit))

Spec == Init /\ [][Next]_vars /\ Fairness

---------------------------------------------------------------------------
(* Properties.                                                             *)

\* Every variable has its type; a process has one thread and its semaphore is binary.
TypeOK ==
  /\ \A q \in Proc :
       /\ proc[q].p_numthreads \in 0 .. 1 /\ proc[q].s_exit \in 0 .. 1
       /\ proc[q].p_status \in 0 .. 255
       /\ proc[q].fileTable \in [Fd -> Entry \cup {NULL, Stray}]
  /\ pid_table \in [Pid -> Proc \cup {kproc, NULL}]
  /\ SYSTEMFileTable \in [Entry -> Vnode \cup {NULL}]
  /\ opens \in [Vnode -> 0 .. SYSTEM_OPEN_MAX]

\* The menu destroys the process while the program's thread is still on its way out:
\* the thread uses the structure only while it exists, proc_destroy finds no thread
\* in it, and the table leads from every identifier to its process, until the menu
\* takes it out.
ProcLivesWhileUsed ==
  /\ t_proc # NULL => proc[t_proc].live /\ proc[t_proc].p_numthreads = 1
  /\ tpc = "V" => proc[p].live /\ pid_table[proc[p].p_pid] = p
  /\ menu # "prompt" => proc[mproc].live
  /\ \A i \in Pid : pid_table[i] \in Proc =>
       proc[pid_table[i]].live /\ proc[pid_table[i]].p_pid = i
  /\ \A q \in Proc : proc[q].live /\ menu # "destroy" => pid_table[proc[q].p_pid] = q
  /\ panicked \notin {"p_numthreads == 0", "table full"}

\* When the menu comes back from a program that ran, it has the low byte of what that
\* program passed to _exit, never the status of an earlier one or the 1 it started with.
MenuGetsExitStatus ==
  menu \in {"destroy", "prompt"} /\ ~failed => exit_code = exited % 256

\* The V(s_exit) of a program that ran is not lost: if the thread of the program has
\* ended and the menu sleeps, the fork or the load had failed.
MenuSleepsAfterFailureOnly ==
  menu = "asleep" /\ tpc \in {"none", "gone"} => failed

\* Every open of a vnode belongs to one entry of SYSTEMFileTable, but for the entries
\* that sys_open left behind; a descriptor has an entry of its own with an open
\* vnode, whatever earlier programs left open or in memory.
OpenFilesAccounted ==
  /\ \A v \in Vnode :
       opens[v] = Cardinality({e \in Entry \ stale : SYSTEMFileTable[e] = v})
  /\ \A q \in Proc : \A fd \in Fd : proc[q].fileTable[fd] \in Entry =>
       /\ SYSTEMFileTable[proc[q].fileTable[fd]] # NULL
       /\ proc[q].fileTable[fd] \notin stale
       /\ \A g \in Fd : proc[q].fileTable[g] = proc[q].fileTable[fd] => g = fd

\* A program that calls _exit brings the menu back to its prompt.
ExitReturnsToPrompt == tpc = "V" ~> menu = "prompt"

\* The process of a program that could not be forked or loaded is destroyed, and its
\* address space with it, as runprogram says where it returns an error.
FailedProgramIsDestroyed == failed ~> mproc = NULL
=============================================================================
