------------------------------- MODULE Paging -------------------------------
(***************************************************************************)
(* Demand paging for the one user process the menu runs at a time: the     *)
(* coremap, the page table, the swap file and the TLB, with the fault      *)
(* handler vm_fault, the kernel's page allocator and the teardown of an    *)
(* address space (kern/arch/mips/vm/vm.c, kern/vm/pt.c, kern/vm/swapfile.c,*)
(* kern/vm/vm_tlb.c).                                                      *)
(*                                                                         *)
(* The kernel runs one thread of the process at a time and nothing else    *)
(* touches these tables, so a step is what happens between two points      *)
(* where the tables can be seen half updated: the calls that search again  *)
(* (pt_add's kmalloc), each eviction of a multi-page request, the TLB      *)
(* write, and the access itself.                                           *)
(*                                                                         *)
(* There is one TLB: the program, its faults and the menu's as_destroy are *)
(* assumed to run on the same CPU, because tlb_invalidate_entry and        *)
(* as_destroy act on the TLB of the CPU they run on and as_activate, which *)
(* runs at every switch, flushes nothing.                                  *)
(***************************************************************************)
EXTENDS Coremap

CONSTANTS
  Pages,       \* the valid user pages: those of the regions and of the stack
  NoPage,      \* any other address: 0, a kernel address, TLBHI_INVALID
  Values,      \* what a page can contain
  Absent,      \* the contents of a page that was never touched
  SWAPSLOTS,   \* slots of the swap file
  NUM_TLB,     \* entries of the TLB
  MaxKPages    \* the largest contiguous kernel allocation

ASSUME PagingAssumption ==
  /\ NoPage \notin Pages
  /\ Values # {}
  /\ Absent \notin Values
  /\ SWAPSLOTS \in Nat \ {0}
  /\ NUM_TLB \in Nat \ {0}
  /\ MaxKPages \in Nat \ {0}

Slots == 0 .. (SWAPSLOTS - 1)
TlbSlots == 0 .. (NUM_TLB - 1)

\* kmalloc of a page-table entry asks for a page of entries when the partial
\* ones are full, and for a page of page references when those are.
KmallocPages == 2

LockState == {"free", "held"}

VARIABLES
  status, vaddr, size,   \* coremap[i].status, .vaddr and .size
  nextVictim,            \* coremap_victim_selection's static next_victim
  pt,                    \* the pages that have a page-table entry
  ppage,                 \* pte->ppage_index; stale while the page is swapped
  swapped,               \* the pages whose entry has swapped = 1
  swapIndex,             \* pte->swap_index; stale while the page is present
  emptySlots,            \* the slots with swaptable[i].empty = 1
  tlbPage, tlbFrame,     \* TLB entries; NoPage marks an invalid one
  tlbNext,               \* tlb_get_rr_victim's static next_victim
  ram, swapspace,        \* contents of the frames and of the swap file
  kheld,                 \* the kernel's page allocations, <<first frame, pages>>
  pc,                    \* where the running thread is
  fault,                 \* the page being accessed, NoPage if none
  frame,                 \* vm_fault's paddr as a frame; 0 when not set
  kmLeft,                \* pages pt_add's kmalloc may still ask for
  knpages, kvictim, ki,  \* getppages: npages, victim, loop counter
  kret,                  \* where getppages returns to
  eLock,                 \* the disk's e_lock: "held" by this thread, or "free"
  panic                  \* the panic or failed KASSERT that stopped the kernel

coremap == <<status, vaddr, size>>
pagetable == <<pt, ppage, swapped, swapIndex>>
swapfile == <<emptySlots, swapspace>>
tlb == <<tlbPage, tlbFrame, tlbNext>>
kalloc == <<knpages, kvictim, ki, kret>>
vars == <<coremap, nextVictim, pagetable, swapfile, tlb, ram, kheld, pc, fault,
          frame, kmLeft, kalloc, eLock, panic>>

present == pt \ swapped

---------------------------------------------------------------------------

Init ==
  /\ status = [f \in Frames |-> IF f \in Managed THEN "FREE" ELSE "FIXED"]
  /\ vaddr = [f \in Frames |-> NoPage]
  /\ size = [f \in Frames |-> IF f \in Managed THEN 0 ELSE firstFreeFrame]
  /\ nextVictim = 0
  /\ pt = {} /\ swapped = {}
  /\ ppage = [p \in Pages |-> 0]
  /\ swapIndex = [p \in Pages |-> 0]
  /\ emptySlots = Slots
  /\ tlbPage = [t \in TlbSlots |-> NoPage]
  /\ tlbFrame = [t \in TlbSlots |-> 0]
  /\ tlbNext = 0
  /\ ram \in [Frames -> Values]
  /\ swapspace \in [Slots -> Values]
  /\ kheld = {}
  /\ pc = "menu" /\ fault = NoPage /\ frame = 0 /\ kmLeft = 0
  /\ knpages = 0 /\ kvictim = 0 /\ ki = 0 /\ kret = "menu"
  /\ eLock = "free"
  /\ panic = "none"

Panic(why) ==
  /\ pc' = "panic"
  /\ panic' = why
  /\ UNCHANGED <<coremap, nextVictim, pagetable, swapfile, tlb, ram, kheld,
                 fault, frame, kmLeft, kalloc, eLock>>

\* lock_acquire(e_lock) by its holder: the thread sleeps and nobody wakes it.
SleepForever ==
  /\ pc' = "asleep"
  /\ UNCHANGED <<coremap, nextVictim, pagetable, swapfile, tlb, ram, kheld,
                 fault, frame, kmLeft, kalloc, eLock, panic>>

---------------------------------------------------------------------------
(* Eviction of the page in frame f: pt_search, the KASSERTs, swap_out,     *)
(* the page-table entry and the TLB.                                       *)

VictimIsMapped(f) == vaddr[f] \in pt /\ ppage[vaddr[f]] = f

\* Mutant: the search for a slot does not look whether it is empty.
FirstSlot(s) == s \in Slots /\ \A r \in Slots : s <= r

FirstEmptySlot(s) == s \in emptySlots /\ \A r \in emptySlots : s <= r

\* Mutant: swap_in and swap_unmark forget to mark the slot empty.
KeepSlots(ss) == UNCHANGED emptySlots

\* swaptable[index].empty = 1, in swap_in and swap_unmark.
ReleaseSlots(ss) == emptySlots' = emptySlots \cup ss

\* Mutant: the entry of an evicted page stays in the TLB.
TlbKeep(p) == UNCHANGED <<tlbPage, tlbFrame>>

\* tlb_probe finds one matching entry, if there is one.
TlbInvalidate(p) ==
  \/ /\ \A t \in TlbSlots : tlbPage[t] # p
     /\ UNCHANGED <<tlbPage, tlbFrame>>
  \/ \E t \in TlbSlots :
       /\ tlbPage[t] = p
       /\ tlbPage' = [tlbPage EXCEPT ![t] = NoPage]
       /\ tlbFrame' = [tlbFrame EXCEPT ![t] = 0]

SwapOut(f) ==
  /\ VictimIsMapped(f)
  /\ eLock = "free"
  /\ \E s \in Slots :
       /\ FirstEmptySlot(s)
       /\ swapspace' = [swapspace EXCEPT ![s] = ram[f]]
       /\ emptySlots' = emptySlots \ {s}
       /\ swapIndex' = [swapIndex EXCEPT ![vaddr[f]] = s]
  /\ swapped' = swapped \cup {vaddr[f]}
  /\ TlbInvalidate(vaddr[f])
  /\ UNCHANGED <<pt, ppage, tlbNext, ram>>

\* The write of the page fails: swap_out has marked the slot used by the time it
\* returns -1, and its caller's KASSERT(swap_index >= 0) stops the kernel.
SwapOutFails ==
  /\ \E s \in Slots : FirstEmptySlot(s) /\ emptySlots' = emptySlots \ {s}
  /\ pc' = "panic" /\ panic' = "swap_out"
  /\ UNCHANGED <<coremap, nextVictim, pagetable, swapspace, tlb, ram, kheld,
                 fault, frame, kmLeft, kalloc, eLock>>

\* What stops an eviction: the KASSERTs on the victim's entry, a full swap file,
\* a failed write, or the disk's lock held by this very thread.
SwapOutStops(f, why) ==
  \/ ~VictimIsMapped(f) /\ Panic(why)
  \/ VictimIsMapped(f) /\ emptySlots = {} /\ Panic("swap_full")
  \/ /\ VictimIsMapped(f) /\ emptySlots # {}
     /\ IF eLock = "held" THEN SleepForever ELSE SwapOutFails

---------------------------------------------------------------------------
(* The program touches its memory; load_elf, read() and write() do it from *)
(* the kernel, inside emu_doread or emu_write, with e_lock held.           *)

RunProgram ==
  /\ pc = "menu"
  /\ pc' = "user"
  /\ UNCHANGED <<coremap, nextVictim, pagetable, swapfile, tlb, ram, kheld,
                 fault, frame, kmLeft, kalloc, eLock, panic>>

Touch(p, io) ==
  /\ pc = "user"
  /\ pc' = "access"
  /\ fault' = p
  /\ eLock' = io
  /\ UNCHANGED <<coremap, nextVictim, pagetable, swapfile, tlb, ram, kheld,
                 frame, kmLeft, kalloc, panic>>

\* An access to an address outside the regions and the stack: EFAULT, and
\* kill_curthread panics.
SegmentationFault ==
  /\ pc = "user"
  /\ Panic("segfault")

\* The TLB translates the access, which reads the page or stores v in it.
Access(v) ==
  /\ pc = "access"
  /\ \E t \in TlbSlots :
       /\ tlbPage[t] = fault
       /\ \/ ram' = [ram EXCEPT ![tlbFrame[t]] = v]
          \/ ram' = ram
  /\ pc' = "user"
  /\ fault' = NoPage
  /\ eLock' = "free"
  /\ UNCHANGED <<coremap, nextVictim, pagetable, swapfile, tlb, kheld, frame,
                 kmLeft, kalloc, panic>>

TlbMiss == pc = "access" /\ \A t \in TlbSlots : tlbPage[t] # fault

---------------------------------------------------------------------------
(* vm_fault.                                                               *)

\* Case 1.3: the page is present, only the TLB has lost it.
FaultPresent ==
  /\ TlbMiss
  /\ fault \in present
  /\ frame' = ppage[fault]
  /\ pc' = "tlbwrite"
  /\ UNCHANGED <<coremap, nextVictim, pagetable, swapfile, tlb, ram, kheld,
                 fault, kmLeft, kalloc, eLock, panic>>

\* Cases 1.1 and 1.2: no entry, or swapped; getuserppage is called.
FaultAbsent ==
  /\ TlbMiss
  /\ fault \notin present
  /\ pc' = "getframe"
  /\ UNCHANGED <<coremap, nextVictim, pagetable, swapfile, tlb, ram, kheld,
                 fault, frame, kmLeft, kalloc, eLock, panic>>

\* The end of getuserppage and, for a new page, the assignment that follows it.
TakeFrame(f) ==
  /\ status' = [status EXCEPT ![f] = "DIRTY"]
  /\ size' = [size EXCEPT ![f] = 1]
  /\ frame' = f
  /\ IF fault \in pt
     THEN /\ pc' = "swapin"
          /\ UNCHANGED <<vaddr, kmLeft>>
     ELSE /\ pc' = "ptadd"
          /\ vaddr' = [vaddr EXCEPT ![f] = fault]
          /\ kmLeft' = KmallocPages
  /\ UNCHANGED <<kheld, fault, kalloc, eLock, panic>>

GetFreeFrame ==
  /\ pc = "getframe"
  /\ \E f \in Managed : FirstFreeRun(status, f, 1) /\ TakeFrame(f)
  /\ UNCHANGED <<nextVictim, pagetable, swapfile, tlb, ram>>

EvictForUser ==
  /\ pc = "getframe"
  /\ NoFreeRun(status, 1)
  /\ \E f \in Frames :
       /\ VictimEnd(status, nextVictim, 1, f)
       /\ SwapOut(f)
       /\ nextVictim' = f + 1
       /\ TakeFrame(f)

EvictForUserStops ==
  /\ pc = "getframe"
  /\ NoFreeRun(status, 1)
  /\ \/ NoVictim(status, nextVictim, 1) /\ Panic("no_victim")
     \/ \E f \in Frames :
          /\ VictimEnd(status, nextVictim, 1, f)
          /\ SwapOutStops(f, "getuserppage")

\* pt_add: kmalloc may need a page from getppages before the entry exists.
KmallocNeedsPage ==
  /\ pc = "ptadd"
  /\ kmLeft > 0
  /\ kmLeft' = kmLeft - 1
  /\ knpages' = 1
  /\ kret' = "ptadd"
  /\ pc' = "kalloc"
  /\ UNCHANGED <<coremap, nextVictim, pagetable, swapfile, tlb, ram, kheld,
                 fault, frame, kvictim, ki, eLock, panic>>

PtAdd ==
  /\ pc = "ptadd"
  /\ pt' = pt \cup {fault}
  /\ ppage' = [ppage EXCEPT ![fault] = frame]
  /\ swapped' = swapped \ {fault}
  /\ swapIndex' = [swapIndex EXCEPT ![fault] = 0]
  /\ vaddr' = [vaddr EXCEPT ![frame] = fault]
  /\ kmLeft' = 0
  /\ pc' = "tlbwrite"
  /\ UNCHANGED <<status, size, nextVictim, swapfile, tlb, ram, kheld, fault,
                 frame, kalloc, eLock, panic>>

SwapIn ==
  /\ pc = "swapin"
  /\ eLock = "free"
  /\ ram' = [ram EXCEPT ![frame] = swapspace[swapIndex[fault]]]
  /\ ReleaseSlots({swapIndex[fault]})
  /\ vaddr' = [vaddr EXCEPT ![frame] = fault]
  /\ ppage' = [ppage EXCEPT ![fault] = frame]
  /\ swapped' = swapped \ {fault}
  /\ pc' = "tlbwrite"
  /\ UNCHANGED <<status, size, nextVictim, pt, swapIndex, swapspace, tlb, kheld,
                 fault, frame, kmLeft, kalloc, eLock, panic>>

SwapInStops ==
  /\ pc = "swapin"
  /\ IF eLock = "held" THEN SleepForever ELSE Panic("swap_in")

\* Mutant: the index of the victim does not wrap.
TlbVictimUnbounded(t) == t = tlbNext /\ tlbNext' = tlbNext + 1

\* tlb_get_rr_victim.
TlbVictim(t) == t = tlbNext /\ tlbNext' = (tlbNext + 1) % NUM_TLB

\* Mutant: the victim is chosen but its entry is not written.
TlbLoadIfFree(t) ==
  /\ tlbPage' = [tlbPage EXCEPT ![t] = IF @ = NoPage THEN fault ELSE @]
  /\ tlbFrame' = [tlbFrame EXCEPT ![t] = IF tlbPage[t] = NoPage THEN frame ELSE @]

TlbLoad(t) ==
  /\ tlbPage' = [tlbPage EXCEPT ![t] = fault]
  /\ tlbFrame' = [tlbFrame EXCEPT ![t] = frame]

\* The first invalid TLB entry, or the round-robin victim; then the faulting
\* instruction is restarted.
TlbWrite ==
  /\ pc = "tlbwrite"
  /\ \E t \in TlbSlots :
       /\ \/ /\ tlbPage[t] = NoPage
             /\ \A u \in 0 .. (t - 1) : tlbPage[u] # NoPage
             /\ UNCHANGED tlbNext
          \/ /\ \A u \in TlbSlots : tlbPage[u] # NoPage
             /\ TlbVictim(t)
       /\ TlbLoad(t)
  /\ frame' = 0
  /\ pc' = "access"
  /\ UNCHANGED <<coremap, nextVictim, pagetable, swapfile, ram, kheld, fault,
                 kmLeft, kalloc, eLock, panic>>

---------------------------------------------------------------------------
(* The kernel's pages: alloc_kpages/getppages and free_kpages, called by   *)
(* kmalloc and kfree from system calls and from the menu (no process, so   *)
(* no address space), some of them with e_lock held.                       *)

AllocKpages(n, io) ==
  /\ pc \in {"menu", "user"}
  /\ knpages' = n
  /\ kret' = pc
  /\ eLock' = io
  /\ pc' = "kalloc"
  /\ UNCHANGED <<coremap, nextVictim, pagetable, swapfile, tlb, ram, kheld,
                 fault, frame, kmLeft, kvictim, ki, panic>>

\* The end of getppages: only the first entry of the run is written.
FixFirst(f) ==
  /\ size' = [size EXCEPT ![f] = knpages]
  /\ vaddr' = [vaddr EXCEPT ![f] = NoPage]
  /\ status' = [status EXCEPT ![f] = "FIXED"]
  /\ kheld' = kheld \cup {<<f, knpages>>}
  /\ pc' = kret
  /\ eLock' = IF kret = "ptadd" THEN eLock ELSE "free"
  /\ knpages' = 0 /\ kvictim' = 0 /\ ki' = 0 /\ kret' = "menu"
  /\ UNCHANGED <<nextVictim, pagetable, swapfile, tlb, ram, fault, frame, kmLeft,
                 panic>>

GetppagesFree ==
  /\ pc = "kalloc"
  /\ \E f \in Managed : FirstFreeRun(status, f, knpages) /\ FixFirst(f)

GetppagesVictim ==
  /\ pc = "kalloc"
  /\ NoFreeRun(status, knpages)
  /\ \E e \in Frames :
       /\ VictimEnd(status, nextVictim, knpages, e)
       /\ kvictim' = e - knpages + 1
       /\ nextVictim' = e + 1
  /\ ki' = 0
  /\ pc' = "kevict"
  /\ UNCHANGED <<coremap, pagetable, swapfile, tlb, ram, kheld, fault, frame,
                 kmLeft, knpages, kret, eLock, panic>>

GetppagesNoVictim ==
  /\ pc = "kalloc"
  /\ NoFreeRun(status, knpages)
  /\ NoVictim(status, nextVictim, knpages)
  /\ Panic("no_victim")

EvictForKernel ==
  /\ pc = "kevict"
  /\ ki < knpages
  /\ kret # "menu"
  /\ SwapOut(kvictim + ki)
  /\ status' = [status EXCEPT ![kvictim + ki] = "FIXED"]
  /\ ki' = ki + 1
  /\ UNCHANGED <<vaddr, size, nextVictim, kheld, pc, fault, frame, kmLeft,
                 knpages, kvictim, kret, eLock, panic>>

\* Called from the menu, as is NULL and as->pt cannot be read.
EvictForKernelStops ==
  /\ pc = "kevict"
  /\ ki < knpages
  /\ \/ kret = "menu" /\ Panic("no_addrspace")
     \/ kret # "menu" /\ SwapOutStops(kvictim + ki, "getppages")

GetppagesDone ==
  /\ pc = "kevict"
  /\ ki = knpages
  /\ FixFirst(kvictim)

\* Mutant: the loop of free_kpages runs once too often.
OnePageTooMany(first) == first .. (first + size[first])

\* The frames free_kpages frees: as many as the first entry says.
SizedRun(first) == first .. (first + size[first] - 1)

FreeKpages(a) ==
  /\ pc \in {"menu", "user"}
  /\ LET freed == SizedRun(a[1])
     IN /\ status' = [f \in Frames |-> IF f \in freed THEN "FREE" ELSE status[f]]
        /\ size' = [f \in Frames |-> IF f \in freed THEN 0 ELSE size[f]]
  /\ kheld' = kheld \ {a}
  /\ UNCHANGED <<vaddr, nextVictim, pagetable, swapfile, tlb, ram, pc, fault,
                 frame, kmLeft, kalloc, eLock, panic>>

---------------------------------------------------------------------------
(* as_destroy, when the menu destroys the process that has exited.         *)

SlotsOf(ps) == {swapIndex[p] : p \in ps}
FramesOf(ps) == {ppage[p] : p \in ps}

\* swap_unmark's KASSERT for every swapped page, one after the other.
SlotsReleasable ==
  /\ SlotsOf(swapped) \cap emptySlots = {}
  /\ \A p, q \in swapped : swapIndex[p] = swapIndex[q] => p = q

\* freeuserppage's KASSERT for every present page.
FramesReleasable == \A p \in present : status[ppage[p]] # "FIXED"

\* Mutant: the loop over the TLB stops one entry early.
TlbFlushButLast ==
  /\ tlbPage' = [t \in TlbSlots |-> IF t = NUM_TLB - 1 THEN tlbPage[t] ELSE NoPage]
  /\ tlbFrame' = [t \in TlbSlots |-> IF t = NUM_TLB - 1 THEN tlbFrame[t] ELSE 0]

TlbFlush ==
  /\ tlbPage' = [t \in TlbSlots |-> NoPage]
  /\ tlbFrame' = [t \in TlbSlots |-> 0]

\* pt_destroy and the TLB.  The kernel pages that its calls of kfree give back are
\* returned by FreeKpages steps.
ReleaseAll ==
  /\ ReleaseSlots(SlotsOf(swapped))
  /\ LET freed == FramesOf(present)
     IN /\ status' = [f \in Frames |-> IF f \in freed THEN "FREE" ELSE status[f]]
        /\ size' = [f \in Frames |-> IF f \in freed THEN 0 ELSE size[f]]
        /\ vaddr' = [f \in Frames |-> IF f \in freed THEN NoPage ELSE vaddr[f]]
  /\ pt' = {} /\ swapped' = {}
  /\ ppage' = [p \in Pages |-> 0]
  /\ swapIndex' = [p \in Pages |-> 0]
  /\ TlbFlush
  /\ pc' = "menu"
  /\ UNCHANGED <<nextVictim, swapspace, tlbNext, ram, kheld, fault, frame, kmLeft,
                 kalloc, eLock, panic>>

DestroyAddrspace ==
  /\ pc = "user"
  /\ \/ SlotsReleasable /\ FramesReleasable /\ ReleaseAll
     \/ ~SlotsReleasable /\ Panic("swap_unmark")
     \/ ~FramesReleasable /\ Panic("freeuserppage")

---------------------------------------------------------------------------

\* A stopped kernel stays stopped.
Halted == pc \in {"panic", "asleep"} /\ UNCHANGED vars

\* What the kernel does by itself once it has been entered.
Kernel ==
  \/ \E v \in Values : Access(v)
  \/ FaultPresent \/ FaultAbsent
  \/ GetFreeFrame \/ EvictForUser \/ EvictForUserStops
  \/ KmallocNeedsPage \/ PtAdd
  \/ SwapIn \/ SwapInStops
  \/ TlbWrite
  \/ GetppagesFree \/ GetppagesVictim \/ GetppagesNoVictim
  \/ EvictForKernel \/ EvictForKernelStops \/ GetppagesDone

\* What the program and the menu choose to do.
Environment ==
  \/ RunProgram
  \/ \E p \in Pages, io \in LockState : Touch(p, io)
  \/ SegmentationFault
  \/ \E n \in 1 .. MaxKPages, io \in LockState : AllocKpages(n, io)
  \/ \E a \in kheld : FreeKpages(a)
  \/ DestroyAddrspace

Next == Kernel \/ Environment \/ Halted

Spec == Init /\ [][Next]_vars

\* Between two choices of the program the kernel thread keeps running: nothing
\* else wants the processor.
FairSpec == Spec /\ WF_vars(Kernel)

---------------------------------------------------------------------------

Where == {"menu", "user", "access", "getframe", "ptadd", "swapin", "tlbwrite",
          "kalloc", "kevict", "panic", "asleep"}

Reasons == {"none", "segfault", "no_victim", "swap_full", "swap_out", "swap_in",
            "getuserppage", "getppages", "no_addrspace", "swap_unmark",
            "freeuserppage"}

\* Every table keeps its shape, and no step uses a frame, a slot or a TLB entry
\* outside its table.
TypeOK ==
  /\ status \in [Frames -> Status]
  /\ vaddr \in [Frames -> Pages \cup {NoPage}]
  /\ size \in [Frames -> Nat]
  /\ nextVictim \in 0 .. nRamFrames
  /\ pt \in SUBSET Pages
  /\ swapped \in SUBSET Pages
  /\ ppage \in [Pages -> Frames]
  /\ swapIndex \in [Pages -> Slots]
  /\ emptySlots \in SUBSET Slots
  /\ tlbPage \in [TlbSlots -> Pages \cup {NoPage}]
  /\ tlbFrame \in [TlbSlots -> Frames]
  /\ tlbNext \in TlbSlots
  /\ ram \in [Frames -> Values]
  /\ swapspace \in [Slots -> Values]
  /\ kheld \in SUBSET (Managed \X (1 .. MaxKPages))
  /\ pc \in Where
  /\ fault \in Pages \cup {NoPage}
  /\ frame \in Frames
  /\ kmLeft \in 0 .. KmallocPages
  /\ knpages \in 0 .. MaxKPages
  /\ kvictim \in Frames
  /\ ki \in 0 .. MaxKPages
  /\ kret \in {"menu", "user", "ptadd"}
  /\ eLock \in LockState
  /\ panic \in Reasons

\* The coremap and the page table describe each other: the frame of a present
\* page is DIRTY and names that page, and a DIRTY frame is the frame of the page
\* it names, except the one a fault has taken and not yet mapped.  Eviction
\* finds the owner of a frame through vaddr alone (getuserppage, getppages).
FrameTableConsistent ==
  /\ \A p \in present : /\ ppage[p] \in Managed
                        /\ status[ppage[p]] = "DIRTY"
                        /\ vaddr[ppage[p]] = p
  /\ \A f \in Frames :
       status[f] = "DIRTY" =>
         \/ f = frame
         \/ vaddr[f] \in present /\ ppage[vaddr[f]] = f

\* Every swapped page has a slot of its own, marked used, and every slot marked
\* used holds a swapped page, unless a failed write has just stopped the kernel:
\* swap_out, swap_in and swap_unmark neither share a slot nor lose one.
SwapTableConsistent ==
  /\ swapped \subseteq pt
  /\ SlotsOf(swapped) \subseteq Slots \ emptySlots
  /\ panic # "swap_out" => SlotsOf(swapped) = Slots \ emptySlots
  /\ \A p, q \in swapped : swapIndex[p] = swapIndex[q] => p = q

\* The TLB never translates a page that is swapped, unmapped, or elsewhere, and
\* never has two entries for one page ("never write more than one TLB entry with
\* the same virtual page field", vm_tlb.h).
TlbCoherent ==
  \A t \in TlbSlots :
    tlbPage[t] # NoPage =>
      /\ tlbPage[t] \in present
      /\ tlbFrame[t] = ppage[tlbPage[t]]
      /\ \A u \in TlbSlots : tlbPage[u] = tlbPage[t] => u = t

\* A page handed to the kernel stays FIXED until it is freed, its entry says it
\* is one page long, and no page table entry or TLB entry leads to it, so no fault
\* and no eviction reaches it (getppages, free_kpages).
KernelFramesPinned ==
  \A a \in kheld :
    /\ status[a[1]] = "FIXED"
    /\ size[a[1]] = a[2]
    /\ a[1] \notin FramesOf(present)
    /\ \A t \in TlbSlots : tlbPage[t] # NoPage => tlbFrame[t] # a[1]

\* The kernel's assertions on its tables hold: those on the victim's entry in
\* getuserppage, those of swap_unmark and freeuserppage at teardown, and there
\* is an address space whenever getppages evicts.  The ones on the victim's entry
\* in getppages can only fail on the frame that the fault itself has just taken.
AssertionsHold ==
  /\ panic \notin {"getuserppage", "swap_unmark", "freeuserppage", "no_addrspace"}
  /\ panic = "getppages" => kvictim = frame

\* With no process, nothing of the last one is left: no entry, no used slot, no
\* TLB entry, and every frame the kernel does not hold is free (as_destroy).
NothingLeftBehind ==
  pc = "menu" =>
    /\ pt = {}
    /\ emptySlots = Slots
    /\ \A t \in TlbSlots : tlbPage[t] = NoPage
    /\ \A f \in Managed : status[f] = "FREE" \/ <<f, 1>> \in kheld

\* An access to a valid page made without the disk's lock completes, unless the
\* kernel panics for want of frames or swap space: vm_fault does not loop and the
\* entry it writes is there when the instruction is restarted.
AccessCompletes ==
  (fault # NoPage /\ eLock = "free") ~> (fault = NoPage \/ pc = "panic")

---------------------------------------------------------------------------
(* The inductive invariant, for a kernel that allocates single pages.      *)

\* getppages is running on behalf of pt_add.
InKmalloc == pc \in {"kalloc", "kevict"} /\ kret = "ptadd"

\* Where the thread is determines how far the tables have been updated: the frame
\* a new page has been given is not yet in the page table, the one a swapped page
\* returns to is not yet its own, and the one about to enter the TLB is.
ProgressConsistent ==
  /\ panic # "none" => pc = "panic"
  /\ pc \in {"menu", "user"} => fault = NoPage
  /\ pc \in {"access", "getframe"} => fault \in Pages
  /\ pc \in {"menu", "user", "access", "getframe"} => frame = 0
  /\ pc = "getframe" => fault \notin present
  /\ pc = "menu" => pt = {}
  /\ pc = "ptadd" \/ InKmalloc =>
       /\ fault \in Pages \ pt
       /\ frame \in Managed /\ status[frame] = "DIRTY" /\ vaddr[frame] = fault
  /\ pc = "swapin" =>
       /\ fault \in swapped
       /\ frame \in Managed /\ status[frame] = "DIRTY"
       /\ \A p \in present : ppage[p] # frame
  /\ pc = "tlbwrite" =>
       /\ fault \in present /\ frame = ppage[fault]
       /\ \A t \in TlbSlots : tlbPage[t] # fault
  /\ pc \in {"kalloc", "kevict"} =>
       /\ knpages = 1
       /\ kret # "ptadd" => fault = NoPage /\ frame = 0
       /\ kret = "menu" => pt = {}
  /\ pc = "kevict" =>
       /\ ki \in {0, 1} /\ kvictim \in Managed
       /\ status[kvictim] = IF ki = 0 THEN "DIRTY" ELSE "FIXED"

\* Outside the kernel image, a FIXED frame is one the kernel holds or is being
\* given.
FixedIsHeld ==
  /\ \A f \in Frames \ Managed : status[f] = "FIXED"
  /\ \A f \in Managed : status[f] = "FIXED" =>
       <<f, 1>> \in kheld \/ (pc = "kevict" /\ ki = 1 /\ f = kvictim)

IInv ==
  /\ TypeOK
  /\ FrameTableConsistent
  /\ SwapTableConsistent
  /\ TlbCoherent
  /\ KernelFramesPinned
  /\ AssertionsHold
  /\ ProgressConsistent
  /\ FixedIsHeld

---------------------------------------------------------------------------
(* Paging is invisible: seen through the page table, this is a plain       *)
(* memory.                                                                 *)

\* What a load of page p would return: the slot of a swapped page, the frame of
\* a present one.
Contents(p) ==
  IF p \notin pt THEN Absent
  ELSE IF p \in swapped THEN swapspace[swapIndex[p]]
  ELSE ram[ppage[p]]

VM == INSTANCE VirtualMemory
        WITH memory <- [p \in Pages |-> Contents(p)], access <- fault

\* Whatever is evicted, swapped in, reloaded or reused, a page keeps what the
\* program last stored in it, and only the page being accessed ever changes
\* (vm_fault, getuserppage, getppages, swap_out, swap_in together).
PagingIsInvisible == VM!Spec

---------------------------------------------------------------------------
(* What can be expected of the code and does not hold.                     *)

\* KASSERT(ptvictim != NULL) in getppages: a frame chosen for eviction has an
\* entry in the page table.
KernelVictimIsMapped == panic # "getppages"

\* "it allocates a contiguous sequence of FIXED frames ... they should NEVER be
\* swapped out" (vm.c above getppages): no user page is ever placed in a frame the
\* kernel holds.
KernelFramesPrivate ==
  \A a \in kheld, p \in present : ppage[p] \notin a[1] .. (a[1] + a[2] - 1)

\* "get one physical page for the user process; if it's not available another
\* page it is swapped" (vm.c above getuserppage): every access completes.
EveryAccessCompletes == fault # NoPage ~> (fault = NoPage \/ pc = "panic")
=============================================================================
