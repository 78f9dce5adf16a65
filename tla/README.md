# Verification of the demand-paging kernel

TLA+ models of the OS/161 kernel in `src/kern` with the virtual memory system this
project adds to it (configuration `conf/VM`), the TLC configurations that check
them on small instances, and TLAPS proofs of the main results for every size.

## The system

| Part | Source | State | Operations | Module |
|---|---|---|---|---|
| Coremap | `vm/coremap.c` | status, owner's vaddr and size of every frame; `next_victim` | `coremap_init`, `coremap_victim_selection` | `Coremap`, `VictimScan` |
| Frame allocation | `arch/mips/vm/vm.c` | (the coremap) | `getuserppage`, `freeuserppage`, `getppages`, `alloc_kpages`, `free_kpages` | `Paging`, `Heap` |
| Fault handler | `arch/mips/vm/vm.c` | (all tables) | `vm_fault`, `tlb_invalidate_entry` | `Paging` |
| Page table | `vm/pt.c` | list of entries: page, frame, swapped flag, slot | `pt_search`, `pt_add`, `pt_destroy` | `Paging` |
| Swap file | `vm/swapfile.c` | one empty flag per slot, the file | `swap_out`, `swap_in`, `swap_unmark` | `Paging` |
| TLB | `vm/vm_tlb.c` | entries, round-robin index | lookup, write, invalidate, flush | `Paging` |
| Emulated disk | `dev/lamebus/emu.c` | `e_lock` | `emu_doread`, `emu_write` | `Paging` (the lock) |
| Kernel heap | `vm/kmalloc.c` | pages of blocks, page references | `kmalloc`, `kfree` | `Heap` |
| Threads | `thread/thread.c`, `thread/clock.c` | run queues, wait channels, CPUs | fork, switch, sleep, wake, migrate, exit | `Threads` |
| Synchronisation | `thread/synch.c` | locks, condition variables, semaphores | acquire/release, wait/signal/broadcast, P/V | `Synch`, `Disk` |
| LAMEbus disk | `dev/lamebus/lhd.c` | two semaphores, registers, buffer | `lhd_io`, `lhd_irq` | `Disk` |
| Processes, menu | `proc/proc.c`, `syscall/proc_syscalls.c`, `syscall/runprogram.c`, `main/menu.c` | pid table, `s_exit`, status | create, run, exit, wait, destroy | `Processes` |
| Files | `syscall/file_syscalls.c` | system and process file tables | open, close | `Processes` |
| SFS, vnodes | `fs/sfs/*.c`, `vfs/vnode.c`, `vfs/vfspath.c` | freemap, inodes, directory, vnodes | open, link, remove, rename, truncate, sync, close | `Sfs` |

How they meet: the TLB misses, the trap handler calls `vm_fault`, which takes a
frame from the coremap (evicting its owner to the swap file and out of the TLB if
none is free), adds or updates the page-table entry, and writes the TLB. `pt_add`
calls `kmalloc`, which may call `getppages`, which may evict again in the middle
of the fault. The swap file and the programs live on the same emulated disk,
whose lock is held while data is copied to or from user pages.

The menu runs one program at a time and waits for it; there is no `fork`. A
program's pages are therefore used by one thread at a time, and in `Paging` the hard
behaviours are re-entrance (`kmalloc` inside a fault), a lock held across a fault,
stale fields, limits and long sequences of legal operations. Below it the kernel is
concurrent: several CPUs with a run queue each, interrupts, threads that share the
heap, the disk and the file system, and the exiting program that races the menu.

## Modules

**Paging.** `Coremap` has frames, their status and the two searches in the coremap,
as relations between input and result. `VictimScan` is `coremap_victim_selection`
iteration by iteration, on an arbitrary coremap. `Paging` has the tables as
variables, and an action per stretch of the code between two points where the
tables can be seen half updated:

| Action | Code |
|---|---|
| `Touch`, `Access`, `TlbMiss` | an access of the program, or of the kernel on its behalf (with or without `e_lock`), and its translation |
| `FaultPresent`, `FaultAbsent` | `vm_fault` up to `getuserppage` |
| `GetFreeFrame`, `EvictForUser`, `EvictForUserStops` | `getuserppage` |
| `KmallocNeedsPage`, `PtAdd` | `pt_add` |
| `SwapIn`, `SwapInStops` | `swap_in` and the updates after it |
| `TlbWrite` | the end of `vm_fault` |
| `AllocKpages`, `GetppagesFree`, `GetppagesVictim`, `GetppagesNoVictim`, `EvictForKernel`, `EvictForKernelStops`, `GetppagesDone` | `alloc_kpages`, `getppages` |
| `FreeKpages` | `free_kpages` |
| `RunProgram`, `DestroyAddrspace`, `SegmentationFault` | start, exit and bad access of a program |

`...Stops` actions are the panics, failed assertions and endless sleeps of the
code before them. A page's contents are one abstract value; `FREE` stands for
`FREE` and `CLEAN`, which the code never tells apart; `coremap[].paddr` is left
out (it is always the frame's own address once allocated). A failed write to the swap
file marks its slot all the same and then stops the kernel (`SwapOutFails`). There is
one TLB: `tlb_invalidate_entry` and `as_destroy` act on the TLB of the CPU they run on
and `as_activate` flushes nothing, so the model assumes that the program and the
menu that destroys it stay on one CPU. `VirtualMemory` is what
the program is promised: a memory of pages that only its own stores change.

**Threads.** Per CPU: `curthread`, run queue and its lock, zombies, the idle flag, a
pending `IPI_UNIDLE`, and the place the CPU is at. `SwitchSleep`, `SwitchYield`,
`SwitchExit` are the first half of `thread_switch`, `SwitchTo` and `GoIdle` the
second; `WakeBegin`/`WakeNext`/`WakeEnd` are `wchan_wakeone` and `wchan_wakeall`;
`Hardclock` leads to `MigrateCount` ... `MigrateEnd`, `thread_consider_migration`
with the locks it takes and drops. Interrupts are taken where they are enabled. `Fork`
lets the new thread start on any CPU: its caller copies its own `t_cpu` first and may
be preempted and moved before it calls `thread_make_runnable`.

**Synch, Disk, Monitor.** `Synch` is one lock and one condition variable, one
spinlock section per step, with the stores to `owner` outside the spinlock as steps
of their own. `Monitor` is the abstract specification. `Disk` extends `Synch`: the
same threads also call `lhd_io`, whose semaphores `lh_clear` and `lh_done` are
signalled by each other and by the interrupt handler. Sectors are 32-bit words
(`WORD` values): `lhd_io` truncates the offset to one, and its end-of-disk check adds
modulo `WORD`, so that, as its comment says, a request may pass by overflow. The device
is an environment action that ends requests well or with a media error, and refuses a
sector it does not have (`LHD_INVSECT`); data is known by where it came from.

**Processes.** Two threads, the menu's (`common_prog` up to `proc_destroy`) and the
program's (load, system calls, `_exit`, `thread_exit`). A `proc` structure is memory
that is freed and used again, and its `fileTable`, which `proc_create` does not
initialise, starts with `NULL` or stray pointers. Following one is a fatal trap
(`FollowStray`) or, in `sys_close`, a store somewhere in memory after which the slot is
`NULL` (`CloseStray`); the store is assumed to miss the tables of the model.

**Heap.** `kmalloc`, `kfree` and the page references, by several threads;
`kmalloc_spinlock` is dropped around `alloc_kpages` and `free_kpages`, as in the
code. `GetppagesScan` and `GetppagesMark` are the two halves of `getppages`, which has
no lock, and any number of threads can be between them. `raced` records that a frame
was marked that was no longer free (`MarksTwice`), from where on nothing is certain:
the model goes no further, and the heap's invariants are about the states before.

**Sfs.** The state of the file system is one record, and each function of the code
an operator from a state to the set of its outcomes, as reads and writes may fail.
An operation holds `vfs_biglock` throughout and is one step; `Close` is two, since
`vnode_decref` decides to reclaim before `sfs_reclaim` has the lock.

**Proofs.** `PagingProofs`: `Paging`, and that it implements `VirtualMemory`.
`VictimScanProofs`: that the scan loop computes its relation. `SynchProofs`: `Synch`
and `Disk`, and that both implement `Monitor`. `ThreadsProofs`: `Threads`.
`ProcessesProofs`: `Processes`. `HeapInvariant`: the invariant of `Heap` and its lemmas;
`HeapProofs`: the steps that change pages of blocks, and the theorems. `Queues`: facts
about sequences without repetition, which all run queues, channels and lists of the
heap are.

The `MC...` modules hold constants and symmetry sets for TLC. Operators whose comment
begins with "Mutant" are deliberately wrong variants of the definition that follows
them. No specification uses them; putting one in the place of its original makes TLC
report the property `PROJECT.json` pairs it with.

## Runs

| Run | Result | What it shows |
|---|---|---|
| `victim_scan` | holds | the scan loop computes the relation of `Coremap`, ends, and for one victim returns an evictable frame whenever there is one |
| `paging` | holds | the tables agree with each other, kernel pages are pinned, assertions hold, an exit leaves nothing; `Paging` implements `VirtualMemory`; an access made without the disk's lock completes or the kernel panics |
| `threads` | holds | no thread is lost, queued twice or run by two CPUs, and no CPU idles with work and no interrupt pending, through sleeps, wakeups, clock ticks, exits and migration |
| `disk` | holds | lock and condition variable implement `Monitor`; no wakeup of a lock or a semaphore is lost; a caller of `lhd_io` gets the result and the data of its own sector, and an error for a sector that is not on the disk; the device is always given up |
| `processes` | holds | the exiting thread never touches a freed process; the menu gets the right status and its prompt back from every program that ran; open files are accounted for |
| `heap` | holds | no frame has two holders, no block or page is lost or listed twice, the heap's assertions hold, although its lock is dropped around the page allocator, until two calls of `getppages` mark one frame |
| `sfs` | holds | link counts, reference counts and the block map are right after any sequence of operations with failing I/O, and SFS's own consistency panics do not happen |
| `self_evict` | violated | `pt_add`'s `kmalloc` may choose the frame of the fault it serves |
| `multi_page` | violated | a multi-page kernel allocation marks only its first frame |
| `locked_io` | violated | a fault under `e_lock` that needs the swap file never ends |
| `failed_program` | violated | a program that cannot be forked or loaded is never destroyed: the menu waits for its exit first, and for ever |
| `heap_race` | violated | two threads in `getppages` get the same frame: search and marking are not under a lock |

### Bounds

- `paging`: two frames for three pages, and a kernel page that takes one of them, so
  that every page is evicted; two slots, so that the swap file fills up; a one-entry
  TLB, which every other access replaces; two values, so that a lost or mixed-up page
  shows. What this instance does not reach (wrapping of `tlbNext` over several
  entries, runs of frames) the proofs cover: all its properties but `AccessCompletes`
  are proved for every size. `MaxKPages` is 1: at run time the kernel allocates single
  pages (thread stacks, heap pages); `multi_page` shows what larger requests do.
  `KmallocPages` is 2, the heap page and the page-reference page one `kmalloc` can need.
- `victim_scan`: all 3^4 coremaps of four managed frames, every position of
  `next_victim` and up to three victims. For two or more victims the relation is not
  what one would want: `victimsfound` survives the wrap (`Carry`), and the interval
  returned may begin below `firstFreeFrame`. Only kernel allocations of several frames
  ask for it.
- `threads`: two CPUs and four threads are the least with which a CPU has two threads
  queued beside the running one while the other idles, so that migration sends
  something; with a tick during a wakeup of an idle CPU, `curthread` is among the
  threads taken. One channel, which is also `lbolt`.
- `disk`: three threads, so that a sleeper stays behind when one is woken and another
  barges in; words of two bits and a disk of three sectors; a read of two sectors that
  starts on the last one and passes the check because the sum wraps round to 0, and a
  write whose offset is truncated to sector 0. `DiskServesItsCaller` and
  `DeviceIsGivenUp` are checked while the same threads use lock and condition variable.
- `processes`: two structures, so that the memory of one is free while another is used;
  two identifiers, one of them `kproc`'s; descriptors 3 and 4 and two entries, so that
  entries left behind fill the table; the status 259, which the low byte does not tell
  from 3.
- `heap`: two pages of two page references, so that a third page of blocks needs the
  second; two block sizes with two blocks to a page; five frames, so that memory runs
  out. `MaxHeld` bounds what clients hold: a call starts while fewer than two pointers
  are out. The failure of `allocpageref` when all references are used is not reached:
  frames run out before. At most as many threads as references in a page (256) are assumed in the window between
  setting a bit and installing the page.
- `sfs`: four blocks (inodes, data, indirect and directory blocks compete for them),
  two names, three threads, two failing reads or writes (`MaxFaults`; an undo that fails
  needs two). A file has one direct block and an indirect block with one entry, a
  directory one block with two slots.

Symmetry is used where the elements are never ordered or singled out (threads of
`threads`, `heap` and `sfs`, names of `sfs`) and in no run with a liveness property.

### Fairness

- `Paging`: weak fairness of `Kernel`, the steps the kernel takes once entered.
  Nothing is asked of the program or the menu. `VictimScan`: its loop keeps running.
- `Disk`: a thread inside a call goes on when it can (round-robin scheduling), the
  device ends what it was given and its interrupt is served. No thread is made to call.
- `Processes`: the menu goes on once it has created a process, and a program that has
  called `_exit` runs on to its end. A program need never exit. `failed_program` is
  checked under the same fairness: the menu hangs although it is scheduled.

## Proofs

### Paging

All theorems assume single-page kernel allocations (`MaxKPages = 1`) and the named
assumptions on the constants: at least one frame below and one above
`firstFreeFrame`, at least one slot, TLB entry and value.

- `IInvInductive`, `Consistency`: `Spec => []IInv`. The table properties are not
  inductive alone. In the middle of a fault a frame is DIRTY and unmapped, in the
  middle of `getppages` one is FIXED and held by nobody. `ProgressConsistent` says
  for each point of the code how far the tables have been updated, and `FixedIsHeld`
  accounts for every FIXED frame. The argument then is: with no free frame the scan
  returns a DIRTY frame (`VictimIsDirty`); a DIRTY frame is owned by the page it
  names or is the fault's own; so the assertions hold except for the fault's own
  frame, and an eviction moves exactly one page (`SwapOutTables`).
- `TypeCorrect`, `FrameTableAlwaysConsistent`, `SwapTableAlwaysConsistent`,
  `TlbAlwaysCoherent`, `KernelPagesStayPinned`, `AssertionsNeverFail` and
  `ExitLeavesNothing` follow from it. The swap table has a used slot that no page owns
  in one case only: the kernel has stopped because the write to the slot failed.
- `PagingRefinesVirtualMemory`: `Spec => VM!Spec`. Evictions and swap-ins leave the
  contents of every page alone because slots and frames have one owner each;
  `pt_add` is the first touch; an access reaches the frame of its own page because
  the TLB is coherent.

### The victim scan

`ScanIsItsRelation`: for every coremap, start and number of victims the loop returns
what the relation used by `Paging` says, so the two models of the scan agree for
every size. The inductive invariant `ScanInv` says what the loop knows in the middle
of a pass: either every frame since the start of the pass was evictable, and
`victimsfound` is their number plus what was carried over the wrap, or the last FIXED
frame is `victimsfound` frames back; no run was complete before. `FirstPassFinds`,
`SecondPassFinds` and `SecondPassFails` turn this into the relation at the three ways
out. `ScanTypeCorrect` and `OneVictimRequestIsSafe` come with it.

### Locks and condition variables

For any set of threads, `LockIsExclusive` and `NoWakeupIsLost` are proved from an
invariant that adds what exclusion does not say: a wait channel holds each sleeper
once and exactly the threads that sleep there, and `cv_lock` is held from the start of
`cv_wait` to its sleep. With it, `SynchImplementsMonitor` shows that the release in
`cv_wait` is the step where the thread becomes a waiter, and that no signal comes
between it and the sleep.

### The disk driver and its semaphores

For any threads, a word of any size and a disk of any number of sectors that a word can
tell (`0 < d_blocks < WORD`); a request may begin anywhere, on or off the disk, and is
shorter than `WORD`. `DiskKeepsSynch` says that `DiskSpec` implies the specification of `Synch`, so the three results above hold for
threads that also do I/O (`LockIsExclusiveAcrossIo`, `NoWakeupIsLostAcrossIo`,
`DiskImplementsMonitor`). `DiskTypeCorrect`, `DeviceServesItsCaller` and
`NoSemWakeupIsLost` rest on the invariant `DiskInv`. Its heart is `DeviceInv`: at most
one thread is between the two semaphores, none if `lh_clear` is 1; the device works,
or `lh_done` is 1, only while a thread waits for it, and then the registers or the
result are those of that thread's sector. That a semaphore never counts beyond 1
follows from this and is not inductive alone; nor is `NoLostSemWakeup`, which needs
that the sleepers on a channel are exactly the threads that wait there (`SleepersInv`).

### Processes

For any number of structures, identifiers, descriptors, entries, files and statuses.
`ProcInv` says that the only live process is the one the menu has started (the others
are freed memory), where the program's thread can be for each place of the menu, and
that the status the menu will read is the one that was stored; a failed start, from
which the menu does not come back, is apart. `ProcessLivesWhileUsed`,
`MenuGetsTheStatus` and `MenuIsWoken` follow: `proc_remthread` comes before `V(s_exit)`
in `sys_exit`, and after the `V` the thread has no process. `FilesAreAccounted` needs
in addition only `FilesInv`, that an entry left behind is not free.

### Threads

For any number of processors, threads and channels. `ThreadsInv` has three parts: the
types, in which every queue is without repetition; `PlaceInv`, that places have no
thread in common, that every thread that exists has a place, and what is known of
a thread by its place; and for each processor `CpuInv`, what its code relies on between
two steps while other processors run: what it has counted on its run queue is still
there (`MigrationInv`), the run queue lock is held until the new state is stored
(`SwitchInv`), it has an interrupt pending if it idles with work (`IdleInv`).
`Becoming` is the state a thread has or is about to be given by `thread_switch`; with
the stored state alone the invariant fails between `wc_threads` and `t_state`. Each
step is shown to move threads to one place (`Transfer`, `MoveStep`) and to leave what
the other processors rely on (`OthersStep`). `ThreadsAreInOnePlace`,
`StacksAreNotShared`, `ThreadsKnowTheirCpu`, `IdleCpusAreInterrupted`,
`MigrationFindsItsVictims` and `ThreadsTypeCorrect` follow.

### The kernel heap

For any number of frames, block sizes, page references and clients' pointers, and any
overlap of calls, assuming that there are at most as many threads as references in a
page. `HeapInvAlways` is `Spec => [](TypeOK /\ (~raced => HeapInv))`: `HeapInv` is kept by
every step but one, a `GetppagesMark` of a frame that another call has marked meanwhile,
which is what run `heap_race` ends with. So the theorems say that this race is the only
way in which the heap goes wrong. Beside the types, `HeapInv` has:

- `HoldersInv` is `FrameHasOneHolder` said of one function, `Hold`, from everything that
  can hold a frame (a page of references, a page of blocks, a page given out whole, the
  two local variables of a call) to the frame it holds: no two values agree, and the
  frames among them are the FIXED ones. A step then takes a frame, gives one up or hands
  one over, and changes `Hold` in one or two places.
- `MarkInv`: what `getppages` has found is a frame. That it is still FREE when it is marked is not invariant, and is where a step that does not race
  differs from one that does.
- `CallInv`, `PendingInv`: what a call relies on while the spinlock is dropped. Its
  reference is on no list and is nobody else's, and a page of references never goes
  away once it has been installed.
- `BlocksInv`, `ListsInv`, `BitsInv`: the parts of `HeapAccounted`, and that a reference
  on no list is blank.
- `RootsInv`: pages of references are filled in order, so that below a reference in use
  all pages exist. `freepageref` asserts that the pages it passes over are unused, and
  this is where the number of threads matters: a bit is set before its page exists, and
  only as long as the calls in that window cannot fill the page does no call set one
  in the next.

`HeapTypeCorrect`, `FramesHaveOneHolder`, `HeapIsAccounted` and
`HeapAssertionsNeverFail` follow. That `numinuse` and `nfree` count what they should
rests on the cardinality theorems of the library.

### Only model-checked

- Liveness (`AccessCompletes`, `ScanTerminates`, `DeviceIsGivenUp`,
  `ExitReturnsToPrompt`), which is out of the prover's reach.
- `Sfs`: its operations are sets of outcomes combined by operators that take operators
  as parameters, which the provers cannot expand.

## Not modelled

- Address spaces: `as_define_region` and the region test of `vm_fault` decide which
  pages a program may touch, the constant `Pages`; addresses within a page do not
  occur. `as_copy` has no caller. A fresh page has arbitrary contents, as in the code:
  nothing clears a frame, although `loadelf.c:117` expects zeroed pages.
- Other CPUs' TLBs: a program that migrates leaves entries behind in the TLB of the CPU
  it came from. `Threads` has the migration, `Paging` the one TLB.
- Disk: `lhd_io`'s test that a request is aligned to sectors; requests are counted in them.
- Statistics: counters that nothing reads before shutdown.
- Boot and shutdown: one CPU, before or after everything else. The models begin with
  the state boot leaves; pages stolen before `coremap_init` are never freed in them.
- Threads: a `thread_fork` that fails for lack of memory (its effect on the menu is in
  `Processes`), the interrupts for panic, offline and TLB shootdown (`vm_tlbshootdown`
  panics), how a spinlock is taken, priorities (`schedule` is empty).
- Synchronisation: `sem_destroy`, `lock_destroy`, `cv_destroy`, which nobody may call
  while the object is in use.
- Processes: `p_cwd`; identifiers outside the table, with which `proc_search_pid`
  reads past it. Files: offsets and data. `proc_destroy` closes no files, so in the
  model too the entries a program leaves open stay taken.
- Heap: `SLOW`, `GUARDS`, `LABELS` and the other checks that are compiled out. User pages
  that a kernel allocation evicts are in `Paging`. `getppages` panics when no frame is
  left, so `alloc_kpages` does not return 0.
- SFS: mount and unmount, freemap and superblock on the disk, file data and sizes;
  truncation to other lengths than 0 (nobody asks for one). The root's vnode stays
  loaded. There is no crash: SFS has no recovery code to model. A data block whose
  number cannot be written to the indirect block stays marked, as in the code
  (`lost`).
- The ELF loader, path lookup, semfs, the console and the other drivers: parsing, tables
  of names and device registers, reached only through the operations above.
- User programs, the C library and the kernel's tests, which are most of the lines of
  the repository: they are the environment of the kernel, and the models let them do
  anything the interface allows.
