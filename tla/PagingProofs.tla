---------------------------- MODULE PagingProofs ----------------------------
(***************************************************************************)
(* Theorems about Paging, for a kernel that allocates single pages         *)
(* (MaxKPages = 1) and any number of frames, pages, slots, TLB entries: the*)
(* inductive invariant is kept by every action, and Paging implements      *)
(* VirtualMemory.                                                          *)
(***************************************************************************)
EXTENDS Paging, TLAPS

\* The provers that a step is given to, one after the other, and their time in seconds.
USE SMTT(30), Z3T(30), ZenonT(20)

---------------------------------------------------------------------------
(* The initial states, and the steps of an access and of a fault that     *)
(* evicts nothing.                                                        *)

\* The ranges of the indices.
LEMMA Ranges ==
  /\ Managed \subseteq Frames /\ Frames \subseteq Nat
  /\ 0 \in Frames /\ 0 \notin Managed
  /\ 0 \in Slots /\ 0 \in TlbSlots
  /\ firstFreeFrame \in Nat
  /\ \A f \in Frames : f + 1 \in 0 .. nRamFrames
BY CoremapAssumption, PagingAssumption DEF Frames, Managed, Slots, TlbSlots

\* When no frame is free, coremap_victim_selection(1) can only return a frame that
\* holds a user page: its loop skips the FIXED ones.
LEMMA VictimIsDirty ==
  ASSUME NEW st \in [Frames -> Status], NEW next \in 0 .. nRamFrames,
         NEW f \in Frames,
         \A g \in Frames \ Managed : st[g] = "FIXED",
         NoFreeRun(st, 1), VictimEnd(st, next, 1, f)
  PROVE  f \in Managed /\ st[f] = "DIRTY"
<1>1. st[f] # "FIXED"
  BY CoremapAssumption
     DEF VictimEnd, FoundBeforeWrap, FoundAfterWrap, FirstRunEnd, RunEndsAt,
         ScanStart, Carry, Frames, Managed
<1>2. f \in Managed
  BY <1>1
<1>3. st[f] # "FREE"
  BY <1>2, CoremapAssumption DEF NoFreeRun, FreeRun, Managed
<1>4. QED
  BY <1>1, <1>2, <1>3 DEF Status

\* The first free frame is free and is one of the allocators' frames.
LEMMA FreeFrameIsFree ==
  ASSUME NEW st, NEW f, FirstFreeRun(st, f, 1)
  PROVE  f \in Managed /\ st[f] = "FREE"
BY CoremapAssumption DEF FirstFreeRun, FreeRun, Managed

\* The kernel starts consistent: nothing is mapped and only the kernel image is
\* FIXED.
LEMMA InitIInv ==
  ASSUME MaxKPages = 1, Init
  PROVE  IInv
<1> USE CoremapAssumption, PagingAssumption
<1>1. TypeOK
  <2>1. /\ status \in [Frames -> Status]
        /\ vaddr \in [Frames -> Pages \cup {NoPage}]
        /\ size \in [Frames -> Nat]
    BY Ranges DEF Init, Status
  <2>2. /\ ppage \in [Pages -> Frames]
        /\ swapIndex \in [Pages -> Slots]
        /\ tlbPage \in [TlbSlots -> Pages \cup {NoPage}]
        /\ tlbFrame \in [TlbSlots -> Frames]
        /\ tlbNext \in TlbSlots
        /\ ram \in [Frames -> Values]
        /\ swapspace \in [Slots -> Values]
    BY Ranges DEF Init
  <2>3. /\ nextVictim \in 0 .. nRamFrames
        /\ pt \in SUBSET Pages /\ swapped \in SUBSET Pages
        /\ emptySlots \in SUBSET Slots
        /\ kheld \in SUBSET (Managed \X (1 .. MaxKPages))
    BY DEF Init
  <2>4. /\ pc \in Where /\ fault \in Pages \cup {NoPage} /\ frame \in Frames
        /\ kmLeft \in 0 .. KmallocPages
        /\ knpages \in 0 .. MaxKPages
        /\ kvictim \in Frames
        /\ ki \in 0 .. MaxKPages
        /\ kret \in {"menu", "user", "ptadd"}
        /\ eLock \in LockState
        /\ panic \in Reasons
    BY Ranges DEF Init, Where, Reasons, KmallocPages, LockState
  <2>5. QED
    BY <2>1, <2>2, <2>3, <2>4 DEF TypeOK
<1>2. FrameTableConsistent
  BY DEF Init, FrameTableConsistent, present
<1>3. SwapTableConsistent
  BY DEF Init, SwapTableConsistent, SlotsOf
<1>4. TlbCoherent
  BY DEF Init, TlbCoherent
<1>5. KernelFramesPinned /\ AssertionsHold
  BY DEF Init, KernelFramesPinned, AssertionsHold
<1>6. ProgressConsistent
  BY DEF Init, ProgressConsistent, InKmalloc, present
<1>7. FixedIsHeld
  BY Ranges DEF Init, FixedIsHeld
<1>8. QED
  BY <1>1, <1>2, <1>3, <1>4, <1>5, <1>6, <1>7 DEF IInv

\* vm_fault, case 1.3: the frame about to enter the TLB is that of a present page.
LEMMA FaultPresentStep ==
  ASSUME MaxKPages = 1, IInv, FaultPresent
  PROVE  IInv'
<1> USE DEF IInv, FaultPresent, TlbMiss, coremap, pagetable, swapfile, tlb, kalloc
<1>0. /\ frame = 0 /\ status[0] = "FIXED" /\ fault \in Pages /\ panic = "none"
      /\ ppage[fault] \in Frames /\ present' = present
  BY Zenon, Ranges DEF ProgressConsistent, FixedIsHeld, TypeOK, present
<1>1. TypeOK'
  BY Zenon, <1>0 DEF TypeOK, Where
<1>2. FrameTableConsistent'
  BY Zenon, <1>0 DEF FrameTableConsistent
<1>3. SwapTableConsistent'
  BY DEF SwapTableConsistent, SlotsOf
<1>4. TlbCoherent'
  BY <1>0 DEF TlbCoherent
<1>5. KernelFramesPinned' /\ AssertionsHold'
  BY <1>0 DEF KernelFramesPinned, AssertionsHold, FramesOf
<1>6. ProgressConsistent'
  BY Zenon, <1>0 DEF ProgressConsistent, InKmalloc
<1>7. FixedIsHeld'
  BY DEF FixedIsHeld
<1>8. QED
  BY Zenon, <1>1, <1>2, <1>3, <1>4, <1>5, <1>6, <1>7

\* KernelFramesPinned is about the tables and the pages the kernel holds.
LEMMA PinnedKept ==
  ASSUME KernelFramesPinned, UNCHANGED <<coremap, pagetable, tlb, kheld>>
  PROVE  KernelFramesPinned'
<1>1. FramesOf(present)' = FramesOf(present)
  BY Zenon DEF pagetable, present, FramesOf
<1>2. QED
  BY Zenon, <1>1 DEF KernelFramesPinned, coremap, tlb

\* vm_fault, cases 1.1 and 1.2.
LEMMA FaultAbsentStep ==
  ASSUME MaxKPages = 1, IInv, FaultAbsent
  PROVE  IInv'
<1> USE DEF IInv, FaultAbsent, TlbMiss, coremap, pagetable, swapfile, tlb, kalloc
<1>1. TypeOK'
  BY PagingAssumption, Ranges DEF TypeOK, Where, Reasons, LockState, KmallocPages
<1>2. FrameTableConsistent'
  BY Zenon DEF FrameTableConsistent, present
<1>3. SwapTableConsistent'
  BY DEF SwapTableConsistent, SlotsOf
<1>4. TlbCoherent'
  BY DEF TlbCoherent, present
<1>5. KernelFramesPinned' /\ AssertionsHold'
  <2>1. KernelFramesPinned'
    BY Zenon, PinnedKept
  <2>2. AssertionsHold'
    BY Zenon DEF AssertionsHold
  <2>3. QED
    BY Zenon, <2>1, <2>2
<1>6. ProgressConsistent'
  BY PagingAssumption, Ranges DEF ProgressConsistent, InKmalloc, present
<1>7. FixedIsHeld'
  BY DEF FixedIsHeld
<1>8. QED
  BY Zenon, <1>1, <1>2, <1>3, <1>4, <1>5, <1>6, <1>7

\* pt_add's call of kmalloc.
LEMMA KmallocNeedsPageStep ==
  ASSUME MaxKPages = 1, IInv, KmallocNeedsPage
  PROVE  IInv'
<1> USE DEF IInv, KmallocNeedsPage, coremap, pagetable, swapfile, tlb, kalloc
<1>1. TypeOK'
  BY PagingAssumption, Ranges DEF TypeOK, Where, Reasons, LockState, KmallocPages
<1>2. FrameTableConsistent'
  BY Zenon DEF FrameTableConsistent, present
<1>3. SwapTableConsistent'
  BY Zenon DEF SwapTableConsistent, SlotsOf
<1>4. TlbCoherent'
  BY DEF TlbCoherent, present
<1>5. KernelFramesPinned' /\ AssertionsHold'
  <2>1. KernelFramesPinned'
    BY ZenonT(60) DEF KernelFramesPinned, present, FramesOf
  <2>2. AssertionsHold'
    BY Zenon DEF AssertionsHold
  <2>3. QED
    BY Zenon, <2>1, <2>2
<1>6. ProgressConsistent'
  BY PagingAssumption, Ranges DEF ProgressConsistent, InKmalloc, present
<1>7. FixedIsHeld'
  BY DEF FixedIsHeld
<1>8. QED
  BY Zenon, <1>1, <1>2, <1>3, <1>4, <1>5, <1>6, <1>7

\* pt_add: the new entry is the page's first, so no other entry changes.
LEMMA PtAddStep ==
  ASSUME MaxKPages = 1, IInv, PtAdd
  PROVE  IInv'
<1> USE DEF IInv, PtAdd, swapfile, tlb, kalloc
<1>0. /\ fault \in Pages \ pt
      /\ frame \in Managed /\ frame \in Frames
      /\ status[frame] = "DIRTY" /\ vaddr[frame] = fault
      /\ panic = "none" /\ fault \notin swapped
  BY Ranges, Zenon DEF ProgressConsistent, SwapTableConsistent
<1>a. /\ present' = present \cup {fault} /\ swapped' = swapped
      /\ fault \notin present /\ present \subseteq Pages
  BY <1>0 DEF present, TypeOK
<1>b. /\ \A p \in present : ppage'[p] = ppage[p]
      /\ ppage'[fault] = frame
  BY <1>0, <1>a DEF TypeOK
<1>c. /\ vaddr' = vaddr
      /\ \A p \in swapped : swapIndex'[p] = swapIndex[p]
  BY Zenon, <1>0 DEF TypeOK
<1>1. TypeOK'
  <2>1. ppage' \in [Pages -> Frames] /\ swapIndex' \in [Pages -> Slots]
    BY <1>0, Ranges DEF TypeOK
  <2>2. pt' \in SUBSET Pages /\ kmLeft' \in 0 .. KmallocPages /\ pc' \in Where
    BY <1>0 DEF TypeOK, KmallocPages, Where
  <2>3. QED
    BY <1>a, <1>c, <2>1, <2>2 DEF TypeOK
<1>2. FrameTableConsistent'
  BY <1>0, <1>a, <1>b, <1>c DEF FrameTableConsistent
<1>3. SwapTableConsistent'
  <2>1. SlotsOf(swapped)' = SlotsOf(swapped)
    BY Zenon, <1>a, <1>c DEF SlotsOf
  <2>2. QED
    BY Zenon, <1>a, <1>c, <2>1 DEF SwapTableConsistent
<1>4. TlbCoherent'
  BY Zenon, <1>a, <1>b DEF TlbCoherent
<1>5. KernelFramesPinned'
  BY <1>0, <1>a, <1>b DEF KernelFramesPinned, FramesOf
<1>6. AssertionsHold'
  BY Zenon, <1>0 DEF AssertionsHold
<1>7. ProgressConsistent'
  <2>1. \A t \in TlbSlots : tlbPage[t] # fault
    BY <1>0, <1>a, PagingAssumption DEF TlbCoherent
  <2>2. QED
    BY Zenon, <1>0, <1>a, <1>b, <2>1 DEF ProgressConsistent, InKmalloc
<1>8. FixedIsHeld'
  BY DEF FixedIsHeld
<1>9. QED
  BY <1>1, <1>2, <1>3, <1>4, <1>5, <1>6, <1>7, <1>8

\* swap_in and the updates that follow it: the slot and the frame change hands.
LEMMA SwapInStep ==
  ASSUME MaxKPages = 1, IInv, SwapIn
  PROVE  IInv'
<1> USE DEF IInv, SwapIn, ReleaseSlots, tlb, kalloc
<1>0. /\ fault \in swapped /\ fault \in pt /\ fault \in Pages
      /\ frame \in Managed /\ frame \in Frames /\ status[frame] = "DIRTY"
      /\ \A p \in present : ppage[p] # frame
      /\ panic = "none"
  BY Zenon, Ranges DEF ProgressConsistent, SwapTableConsistent, TypeOK
<1>a. /\ present' = present \cup {fault}
      /\ fault \notin present /\ present \subseteq Pages
  BY Zenon, <1>0 DEF present, TypeOK
<1>b. /\ \A p \in present : ppage'[p] = ppage[p] /\ ppage[p] \in Frames
      /\ ppage'[fault] = frame
      /\ \A f \in Frames : f # frame => vaddr'[f] = vaddr[f]
      /\ vaddr'[frame] = fault
  BY Zenon, <1>0, <1>a DEF TypeOK
<1>1. TypeOK'
  <2>1. /\ ppage' \in [Pages -> Frames]
        /\ vaddr' \in [Frames -> Pages \cup {NoPage}]
    BY Zenon, <1>0 DEF TypeOK
  <2>2. swapIndex[fault] \in Slots
    BY <1>0 DEF TypeOK
  <2>3. ram' \in [Frames -> Values] /\ emptySlots' \in SUBSET Slots
    BY Zenon, <1>0, <2>2 DEF TypeOK
  <2>4. QED
    BY Zenon, <2>1, <2>3 DEF TypeOK, Where
<1>2. FrameTableConsistent'
  BY <1>0, <1>a, <1>b DEF FrameTableConsistent
<1>3. SwapTableConsistent'
  <2>1. swapIndex[fault] \in Slots \ emptySlots
    BY <1>0 DEF SwapTableConsistent, SlotsOf
  <2>2. SlotsOf(swapped)' = SlotsOf(swapped) \ {swapIndex[fault]}
    BY Zenon, <1>0 DEF SwapTableConsistent, SlotsOf
  <2>3. emptySlots' = emptySlots \cup {swapIndex[fault]}
    BY Zenon
  <2>4. SlotsOf(swapped) = Slots \ emptySlots
    BY <1>0 DEF SwapTableConsistent
  <2>5. SlotsOf(swapped)' = Slots \ emptySlots'
    BY <2>1, <2>2, <2>3, <2>4, Zenon
  <2>6. QED
    BY <2>5, Zenon DEF SwapTableConsistent
<1>4. TlbCoherent'
  BY Zenon, <1>a, <1>b DEF TlbCoherent
<1>5. KernelFramesPinned'
  BY <1>0, <1>a, <1>b DEF KernelFramesPinned, FramesOf
<1>6. AssertionsHold'
  BY Zenon, <1>0 DEF AssertionsHold
<1>7. ProgressConsistent'
  <2>1. \A t \in TlbSlots : tlbPage[t] # fault
    BY ZenonT(60), <1>0, <1>a, PagingAssumption DEF TlbCoherent
  <2>2. QED
    BY Zenon, <1>0, <1>a, <1>b, <2>1 DEF ProgressConsistent, InKmalloc
<1>8. FixedIsHeld'
  BY DEF FixedIsHeld
<1>9. QED
  BY Zenon, <1>1, <1>2, <1>3, <1>4, <1>5, <1>6, <1>7, <1>8

\* The end of vm_fault: the entry written is the page's only one.
LEMMA TlbWriteStep ==
  ASSUME MaxKPages = 1, IInv, TlbWrite
  PROVE  IInv'
<1> USE DEF IInv, coremap, pagetable, swapfile, kalloc
<1>0. /\ fault \in present /\ fault \in Pages /\ frame = ppage[fault]
      /\ \A t \in TlbSlots : tlbPage[t] # fault
      /\ panic = "none"
      /\ present' = present
  BY Zenon DEF ProgressConsistent, TypeOK, present, TlbWrite
<1>a. frame \in Managed /\ status[frame] = "DIRTY" /\ vaddr[frame] = fault
  BY <1>0 DEF FrameTableConsistent
<1>b. PICK t \in TlbSlots :
        /\ tlbPage' = [tlbPage EXCEPT ![t] = fault]
        /\ tlbFrame' = [tlbFrame EXCEPT ![t] = frame]
  BY Zenon DEF TlbWrite, TlbLoad
<1>c. /\ tlbPage'[t] = fault /\ tlbFrame'[t] = frame
      /\ \A u \in TlbSlots \ {t} : tlbPage'[u] = tlbPage[u] /\ tlbFrame'[u] = tlbFrame[u]
  BY Zenon, <1>b DEF TypeOK
<1>1. TypeOK'
  <2>1. /\ tlbPage' \in [TlbSlots -> Pages \cup {NoPage}]
        /\ tlbFrame' \in [TlbSlots -> Frames]
    BY <1>0, <1>b DEF TypeOK
  <2>2. tlbNext' \in TlbSlots
    <3>1. tlbNext \in TlbSlots
      BY DEF TypeOK
    <3>2. tlbNext' = tlbNext \/ tlbNext' = (tlbNext + 1) % NUM_TLB
      BY DEF TlbWrite, TlbVictim
    <3>3. QED
      BY <3>1, <3>2, PagingAssumption DEF TlbSlots
  <2>3. QED
    BY Zenon, <2>1, <2>2, Ranges DEF TypeOK, TlbWrite, Where
<1>2. FrameTableConsistent'
  BY <1>0, <1>a, Zenon DEF FrameTableConsistent, TlbWrite
<1>3. SwapTableConsistent'
  BY Zenon DEF SwapTableConsistent, SlotsOf, TlbWrite
<1>4. TlbCoherent'
  <2>1. ppage' = ppage
    BY DEF TlbWrite
  <2>2. ASSUME NEW u \in TlbSlots, tlbPage'[u] # NoPage
        PROVE  tlbPage'[u] \in present /\ tlbFrame'[u] = ppage[tlbPage'[u]]
    <3>1. CASE u = t
      BY Zenon, <1>0, <1>c, <3>1
    <3>2. CASE u # t
      BY <1>c, <2>2, <3>2 DEF TlbCoherent
    <3>3. QED
      BY Zenon, <3>1, <3>2
  <2>3. ASSUME NEW u \in TlbSlots, NEW w \in TlbSlots,
               tlbPage'[u] # NoPage, tlbPage'[w] = tlbPage'[u]
        PROVE  w = u
    <3>1. CASE u = t \/ w = t
      BY Zenon, <1>0, <1>c, <2>3, <3>1
    <3>2. CASE u # t /\ w # t
      BY <1>c, <2>3, <3>2 DEF TlbCoherent
    <3>3. QED
      BY Zenon, <3>1, <3>2
  <2>4. QED
    BY Zenon, <1>0, <2>1, <2>2, <2>3 DEF TlbCoherent
<1>5. KernelFramesPinned'
  <2>1. UNCHANGED <<kheld, status, size, ppage>>
    BY DEF TlbWrite
  <2>2. ASSUME NEW a \in kheld
        PROVE  frame # a[1]
    BY Zenon, <1>0 DEF KernelFramesPinned, FramesOf
  <2>3. ASSUME NEW a \in kheld, NEW u \in TlbSlots, tlbPage'[u] # NoPage
        PROVE  tlbFrame'[u] # a[1]
    BY <1>c, <2>2, <2>3 DEF KernelFramesPinned
  <2>4. QED
    BY <1>0, <2>1, <2>3 DEF KernelFramesPinned, FramesOf
<1>6. AssertionsHold'
  BY Zenon, <1>0 DEF AssertionsHold, TlbWrite
<1>7. ProgressConsistent'
  BY Zenon, <1>0 DEF ProgressConsistent, InKmalloc, TlbWrite
<1>8. FixedIsHeld'
  BY DEF FixedIsHeld, TlbWrite
<1>9. QED
  BY Zenon, <1>1, <1>2, <1>3, <1>4, <1>5, <1>6, <1>7, <1>8

---------------------------------------------------------------------------
(* getuserppage, whether it finds a free frame, evicts a page or stops    *)
(* the kernel.                                                            *)

\* A panic or an endless sleep changes no table, but for the slot of a failed
\* write; it must not be one of the assertions the invariant excludes, nor leave a
\* frame FIXED that nobody holds.
LEMMA HaltStep ==
  ASSUME MaxKPages = 1, IInv, panic = "none", pc' \in {"panic", "asleep"},
         panic' = "none" \/ pc' = "panic",
         panic' \in Reasons \ {"getuserppage", "swap_unmark", "freeuserppage",
                               "no_addrspace"},
         panic' = "getppages" => kvictim = frame,
         pc = "kevict" => ki = 0,
         emptySlots' \subseteq emptySlots,
         panic' # "swap_out" => emptySlots' = emptySlots,
         UNCHANGED <<coremap, nextVictim, pagetable, swapspace, tlb, ram, kheld,
                     fault, frame, kmLeft, kalloc, eLock>>
  PROVE  IInv'
<1> USE DEF IInv, coremap, pagetable, tlb, kalloc
<1>1. TypeOK'
  BY DEF TypeOK, Where
<1>2. FrameTableConsistent'
  BY Zenon DEF FrameTableConsistent, present
<1>3. SwapTableConsistent'
  <2>1. SlotsOf(swapped)' = SlotsOf(swapped)
    BY Zenon DEF SlotsOf
  <2>2. QED
    BY <2>1 DEF SwapTableConsistent
<1>4. TlbCoherent'
  BY Zenon DEF TlbCoherent, present
<1>5. KernelFramesPinned' /\ AssertionsHold'
  <2>1. KernelFramesPinned'
    BY Zenon, PinnedKept
  <2>2. AssertionsHold'
    BY Zenon DEF AssertionsHold
  <2>3. QED
    BY Zenon, <2>1, <2>2
<1>6. ProgressConsistent'
  BY Zenon DEF ProgressConsistent, InKmalloc
<1>7. FixedIsHeld'
  BY DEF FixedIsHeld
<1>8. QED
  BY Zenon, <1>1, <1>2, <1>3, <1>4, <1>5, <1>6, <1>7

\* The end of getuserppage, with a frame that no present page uses any more.
LEMMA TakeFrameStep ==
  ASSUME MaxKPages = 1, IInv, pc = "getframe",
         NEW f \in Managed, status[f] # "FIXED", TakeFrame(f),
         pt' = pt, ppage' = ppage, swapped \subseteq swapped',
         \A p \in present' : p \in present /\ ppage[p] # f,
         \A p \in present : ppage[p] # f => p \in present',
         SwapTableConsistent', TlbCoherent',
         swapped' \in SUBSET Pages, nextVictim' \in 0 .. nRamFrames,
         swapIndex' \in [Pages -> Slots], emptySlots' \in SUBSET Slots,
         tlbPage' \in [TlbSlots -> Pages \cup {NoPage}],
         tlbFrame' \in [TlbSlots -> Frames], tlbNext' \in TlbSlots,
         ram' \in [Frames -> Values], swapspace' \in [Slots -> Values]
  PROVE  IInv'
<1> USE DEF IInv, kalloc
<1>0. /\ fault \in Pages /\ fault \notin present /\ frame = 0 /\ panic = "none"
      /\ f \in Frames /\ status[0] = "FIXED"
      /\ frame' = f /\ kheld' = kheld /\ fault' = fault /\ panic' = panic
      /\ pc' \in {"swapin", "ptadd"}
  BY Zenon, Ranges DEF ProgressConsistent, FixedIsHeld, TakeFrame
<1>a. /\ status'[f] = "DIRTY" /\ size'[f] = 1
      /\ \A g \in Frames \ {f} : /\ status'[g] = status[g] /\ size'[g] = size[g]
                                 /\ vaddr'[g] = vaddr[g]
      /\ fault \notin pt => vaddr'[f] = fault
  BY Zenon, <1>0 DEF TakeFrame, TypeOK
<1>1. TypeOK'
  <2>1. /\ status' \in [Frames -> Status] /\ size' \in [Frames -> Nat]
        /\ vaddr' \in [Frames -> Pages \cup {NoPage}]
    BY ZenonT(60), <1>0 DEF TakeFrame, TypeOK, Status
  <2>2. kmLeft' \in 0 .. KmallocPages
    BY DEF TakeFrame, TypeOK, KmallocPages
  <2>3. QED
    BY Zenon, <1>0, <2>1, <2>2 DEF TakeFrame, TypeOK, Where
<1>2. FrameTableConsistent'
  <2>1. \A p \in present : ppage[p] \in Frames
    BY Zenon DEF TypeOK, present
  <2>2. ASSUME NEW g \in Frames, status'[g] = "DIRTY", g # f
        PROVE  vaddr'[g] \in present' /\ ppage'[vaddr'[g]] = g
    BY <1>0, <1>a, <2>2 DEF FrameTableConsistent
  <2>3. QED
    BY <1>0, <1>a, <2>1, <2>2 DEF FrameTableConsistent
<1>3. KernelFramesPinned'
  <2>1. ASSUME NEW a \in kheld
        PROVE  a[1] \in Frames \ {f}
    BY Ranges, Zenon DEF KernelFramesPinned, TypeOK
  <2>2. QED
    BY <1>0, <1>a, <2>1 DEF KernelFramesPinned, TlbCoherent, FramesOf
<1>4. AssertionsHold'
  BY <1>0 DEF AssertionsHold
<1>5. ProgressConsistent'
  <2>1. fault \in pt => fault \in swapped' /\ pc' = "swapin"
    BY Zenon, <1>0 DEF present, TakeFrame
  <2>2. fault \notin pt => pc' = "ptadd"
    BY Zenon DEF TakeFrame
  <2>3. QED
    BY Zenon, <1>0, <1>a, <2>1, <2>2 DEF ProgressConsistent, InKmalloc
<1>6. FixedIsHeld'
  BY <1>0, <1>a, Ranges DEF FixedIsHeld
<1>7. QED
  BY Zenon, <1>1, <1>2, <1>3, <1>4, <1>5, <1>6

\* getuserppage with a free frame.  The frame belongs to no present page, because
\* those are DIRTY.
LEMMA GetFreeFrameStep ==
  ASSUME MaxKPages = 1, IInv, GetFreeFrame
  PROVE  IInv'
<1> USE DEF IInv, pagetable, swapfile, tlb, kalloc
<1>1. PICK f \in Managed : FirstFreeRun(status, f, 1) /\ TakeFrame(f)
  BY DEF GetFreeFrame
<1>2. status[f] = "FREE" /\ f \in Frames
  BY Zenon, <1>1, FreeFrameIsFree, Ranges
<1>3. /\ present' = present /\ pc = "getframe" /\ swapped' = swapped
      /\ pt' = pt /\ ppage' = ppage /\ status[f] # "FIXED"
      /\ \A p \in present : ppage[p] # f
  BY Zenon, <1>2 DEF GetFreeFrame, present, FrameTableConsistent
<1>4. SwapTableConsistent' /\ TlbCoherent'
  BY <1>1, <1>3 DEF GetFreeFrame, TakeFrame, SwapTableConsistent, SlotsOf, TlbCoherent
<1>5. QED
  BY Zenon, <1>1, <1>3, <1>4, TakeFrameStep DEF GetFreeFrame, TypeOK

\* What an eviction does to the tables: the victim's page, which was present,
\* moves to a slot of its own and leaves the TLB.
LEMMA SwapOutTables ==
  ASSUME MaxKPages = 1, IInv, NEW f \in Managed, status[f] = "DIRTY",
         f = frame => vaddr[f] \notin pt, SwapOut(f), pc # "panic"
  PROVE  /\ pt' = pt /\ ppage' = ppage
         /\ vaddr[f] \in present /\ ppage[vaddr[f]] = f
         /\ swapped' = swapped \cup {vaddr[f]}
         /\ present' = present \ {vaddr[f]}
         /\ \A p \in present' : ppage[p] # f
         /\ SwapTableConsistent' /\ TlbCoherent'
         /\ swapped' \in SUBSET Pages /\ swapIndex' \in [Pages -> Slots]
         /\ emptySlots' \in SUBSET Slots
         /\ tlbPage' \in [TlbSlots -> Pages \cup {NoPage}]
         /\ tlbFrame' \in [TlbSlots -> Frames] /\ tlbNext' \in TlbSlots
         /\ ram' \in [Frames -> Values] /\ swapspace' \in [Slots -> Values]
<1> USE DEF IInv
<1> DEFINE v == vaddr[f]
<1>1. f \in Frames /\ v \in pt /\ ppage[v] = f
  BY Zenon, Ranges DEF SwapOut, VictimIsMapped
<1>2. v \in present /\ v \in Pages /\ v \notin swapped /\ v # NoPage
  BY Zenon, <1>1, PagingAssumption DEF FrameTableConsistent, present, TypeOK
<1>3. /\ pt' = pt /\ ppage' = ppage /\ swapped' = swapped \cup {v}
      /\ ram' = ram /\ tlbNext' = tlbNext
  BY DEF SwapOut
<1>4. present' = present \ {v}
  BY Zenon, <1>3 DEF present
<1>5. \A p \in present' : ppage[p] # f
  BY <1>4 DEF FrameTableConsistent
<1>6. PICK s \in Slots :
        /\ FirstEmptySlot(s)
        /\ swapspace' = [swapspace EXCEPT ![s] = ram[f]]
        /\ emptySlots' = emptySlots \ {s}
        /\ swapIndex' = [swapIndex EXCEPT ![v] = s]
  BY Zenon DEF SwapOut
<1>7. SwapTableConsistent'
  <2>1. s \in emptySlots
    BY Zenon, <1>6 DEF FirstEmptySlot
  <2>2. swapIndex'[v] = s /\ \A p \in swapped : swapIndex'[p] = swapIndex[p]
    BY Zenon, <1>2, <1>6 DEF TypeOK
  <2>3. SlotsOf(swapped)' = SlotsOf(swapped) \cup {s}
    BY ZenonT(60), <1>3, <2>2 DEF SlotsOf
  <2>4. SlotsOf(swapped)' = Slots \ emptySlots'
    BY <1>6, <2>1, <2>3 DEF ProgressConsistent, SwapTableConsistent
  <2>5. \A p \in swapped : swapIndex[p] # s
    BY Zenon, <2>1 DEF SwapTableConsistent, SlotsOf
  <2>6. \A p, q \in swapped' : swapIndex'[p] = swapIndex'[q] => p = q
    BY <1>3, <2>2, <2>5 DEF SwapTableConsistent
  <2>7. swapped' \subseteq pt'
    BY Zenon, <1>1, <1>3 DEF SwapTableConsistent
  <2>8. QED
    BY <2>4, <2>6, <2>7 DEF SwapTableConsistent
<1>8. /\ tlbPage' \in [TlbSlots -> Pages \cup {NoPage}]
      /\ tlbFrame' \in [TlbSlots -> Frames]
      /\ \A t \in TlbSlots : tlbPage'[t] # v
      /\ \A t \in TlbSlots : tlbPage'[t] # NoPage =>
                             tlbPage'[t] = tlbPage[t] /\ tlbFrame'[t] = tlbFrame[t]
  <2>1. CASE \A t \in TlbSlots : tlbPage[t] # v
    <3>1. tlbPage' = tlbPage /\ tlbFrame' = tlbFrame
      BY Zenon, <2>1 DEF SwapOut, TlbInvalidate
    <3>2. QED
      BY <2>1, <3>1 DEF TypeOK
  <2>2. CASE \E t \in TlbSlots : tlbPage[t] = v
    <3>1. PICK t \in TlbSlots :
            /\ tlbPage[t] = v
            /\ tlbPage' = [tlbPage EXCEPT ![t] = NoPage]
            /\ tlbFrame' = [tlbFrame EXCEPT ![t] = 0]
      BY Zenon, <2>2 DEF SwapOut, TlbInvalidate
    <3>2. \A u \in TlbSlots : tlbPage[u] = v => u = t
      BY <1>2, <3>1 DEF TlbCoherent
    <3>3. QED
      BY <1>2, <3>1, <3>2, Ranges DEF TypeOK
  <2>3. QED
    BY Zenon, <2>1, <2>2
<1>9. TlbCoherent'
  <2>1. ASSUME NEW t \in TlbSlots, tlbPage'[t] # NoPage
        PROVE  tlbPage'[t] \in present' /\ tlbFrame'[t] = ppage'[tlbPage'[t]]
    <3>1. tlbPage'[t] = tlbPage[t] /\ tlbFrame'[t] = tlbFrame[t] /\ tlbPage'[t] # v
      BY Zenon, <1>8, <2>1
    <3>2. tlbPage[t] \in present /\ tlbFrame[t] = ppage[tlbPage[t]]
      BY <2>1, <3>1 DEF TlbCoherent
    <3>3. QED
      BY Zenon, <1>3, <1>4, <3>1, <3>2
  <2>2. ASSUME NEW t \in TlbSlots, NEW u \in TlbSlots,
               tlbPage'[t] # NoPage, tlbPage'[u] = tlbPage'[t]
        PROVE  u = t
    <3>1. tlbPage[t] = tlbPage'[t] /\ tlbPage[u] = tlbPage'[t]
      BY Zenon, <1>8, <2>2
    <3>2. QED
      BY Zenon, <2>2, <3>1 DEF TlbCoherent
  <2>3. QED
    BY Zenon, <2>1, <2>2 DEF TlbCoherent
<1>10. /\ swapped' \in SUBSET Pages /\ swapIndex' \in [Pages -> Slots]
       /\ emptySlots' \in SUBSET Slots /\ tlbNext' \in TlbSlots
       /\ ram' \in [Frames -> Values] /\ swapspace' \in [Slots -> Values]
  BY <1>1, <1>2, <1>3, <1>6 DEF TypeOK
<1>11. QED
  BY Zenon, <1>1, <1>2, <1>3, <1>4, <1>5, <1>7, <1>8, <1>9, <1>10

\* getuserppage with an eviction.
LEMMA EvictForUserStep ==
  ASSUME MaxKPages = 1, IInv, EvictForUser
  PROVE  IInv'
<1>1. PICK f \in Frames : /\ VictimEnd(status, nextVictim, 1, f)
                          /\ SwapOut(f)
                          /\ nextVictim' = f + 1
                          /\ TakeFrame(f)
  BY Zenon DEF EvictForUser
<1>2. f \in Managed /\ status[f] = "DIRTY"
  BY Zenon, <1>1, VictimIsDirty DEF EvictForUser, IInv, TypeOK, FixedIsHeld
<1>3. pc = "getframe" /\ f # frame /\ nextVictim' \in 0 .. nRamFrames
  <2>1. pc = "getframe" /\ frame = 0
    BY Zenon DEF EvictForUser, IInv, ProgressConsistent
  <2>2. QED
    BY <1>1, <1>2, <2>1, Ranges
<1>4. /\ pt' = pt /\ ppage' = ppage /\ ppage[vaddr[f]] = f
      /\ swapped' = swapped \cup {vaddr[f]} /\ present' = present \ {vaddr[f]}
      /\ \A p \in present' : ppage[p] # f
      /\ SwapTableConsistent' /\ TlbCoherent'
      /\ swapped' \in SUBSET Pages /\ swapIndex' \in [Pages -> Slots]
      /\ emptySlots' \in SUBSET Slots
      /\ tlbPage' \in [TlbSlots -> Pages \cup {NoPage}]
      /\ tlbFrame' \in [TlbSlots -> Frames] /\ tlbNext' \in TlbSlots
      /\ ram' \in [Frames -> Values] /\ swapspace' \in [Slots -> Values]
  BY Zenon, <1>1, <1>2, <1>3, SwapOutTables
<1>5. /\ swapped \subseteq swapped'
      /\ \A p \in present' : p \in present /\ ppage[p] # f
      /\ \A p \in present : ppage[p] # f => p \in present'
  BY Zenon, <1>4
<1>6. QED
  BY Zenon, <1>1, <1>2, <1>3, <1>4, <1>5, TakeFrameStep

\* The assertions on the victim's entry in getuserppage hold: the victim is DIRTY,
\* and the fault has not taken a frame yet, so a present page owns it.
LEMMA EvictForUserStopsStep ==
  ASSUME MaxKPages = 1, IInv, EvictForUserStops
  PROVE  IInv'
<1>1. \A f \in Frames : VictimEnd(status, nextVictim, 1, f) => VictimIsMapped(f)
  <2>1. ASSUME NEW f \in Frames, VictimEnd(status, nextVictim, 1, f)
        PROVE  f \in Managed /\ status[f] = "DIRTY"
    BY <2>1, VictimIsDirty DEF EvictForUserStops, IInv, TypeOK, FixedIsHeld
  <2>2. QED
    BY <2>1, Ranges
       DEF EvictForUserStops, VictimIsMapped, IInv, ProgressConsistent,
           FrameTableConsistent, present
<1>2. /\ pc = "getframe" /\ panic = "none"
      /\ \/ Panic("no_victim") \/ Panic("swap_full") \/ SwapOutFails
         \/ SleepForever
  BY Zenon, <1>1 DEF EvictForUserStops, SwapOutStops, IInv, ProgressConsistent
<1>3. CASE SwapOutFails
  BY ZenonT(60), <1>2, <1>3, HaltStep DEF SwapOutFails, Reasons
<1>4. CASE ~SwapOutFails
  BY ZenonT(60), <1>2, <1>4, HaltStep DEF Panic, SleepForever, swapfile, Reasons
<1>5. QED
  BY Zenon, <1>3, <1>4

\* A failed or endless swap_in changes no table.
LEMMA SwapInStopsStep ==
  ASSUME MaxKPages = 1, IInv, SwapInStops
  PROVE  IInv'
<1>1. pc = "swapin" /\ panic = "none" /\ (Panic("swap_in") \/ SleepForever)
  BY Zenon DEF SwapInStops, IInv, ProgressConsistent
<1>2. QED
  BY Zenon, <1>1, HaltStep DEF Panic, SleepForever, swapfile, Reasons

\* getppages finds no victim and panics.
LEMMA GetppagesNoVictimStep ==
  ASSUME MaxKPages = 1, IInv, GetppagesNoVictim
  PROVE  IInv'
<1>1. pc = "kalloc" /\ panic = "none" /\ Panic("no_victim")
  BY Zenon DEF GetppagesNoVictim, IInv, ProgressConsistent
<1>2. QED
  BY <1>1, HaltStep DEF Panic, swapfile, Reasons

\* A bad access makes kill_curthread panic.
LEMMA SegmentationFaultStep ==
  ASSUME MaxKPages = 1, IInv, SegmentationFault
  PROVE  IInv'
<1>1. pc = "user" /\ panic = "none" /\ Panic("segfault")
  BY Zenon DEF SegmentationFault, IInv, ProgressConsistent
<1>2. QED
  BY <1>1, HaltStep DEF Panic, swapfile, Reasons


---------------------------------------------------------------------------
(* getppages and free_kpages.                                             *)

\* getppages chooses a victim: a DIRTY frame.
LEMMA GetppagesVictimStep ==
  ASSUME MaxKPages = 1, IInv, GetppagesVictim
  PROVE  IInv'
<1> USE DEF IInv, GetppagesVictim, coremap, pagetable, swapfile, tlb
<1>0. knpages = 1 /\ panic = "none" /\ pc = "kalloc"
  BY DEF ProgressConsistent
<1>a. PICK e \in Frames : /\ VictimEnd(status, nextVictim, 1, e)
                          /\ kvictim' = e - 1 + 1
                          /\ nextVictim' = e + 1
  BY Zenon, <1>0
<1>b. e \in Managed /\ status[e] = "DIRTY"
  BY Zenon, <1>0, <1>a, VictimIsDirty DEF TypeOK, FixedIsHeld
<1>c. kvictim' = e /\ kvictim' \in Frames /\ nextVictim' \in 0 .. nRamFrames
  BY <1>a, Ranges
<1>1. TypeOK'
  BY <1>c, PagingAssumption DEF TypeOK, Where
<1>2. FrameTableConsistent'
  BY Zenon DEF FrameTableConsistent, present
<1>3. SwapTableConsistent'
  BY Zenon DEF SwapTableConsistent, SlotsOf
<1>4. TlbCoherent'
  BY Zenon DEF TlbCoherent, present
<1>5. KernelFramesPinned' /\ AssertionsHold'
  <2>1. KernelFramesPinned'
    BY ZenonT(60) DEF KernelFramesPinned, present, FramesOf
  <2>2. AssertionsHold'
    BY Zenon, <1>0 DEF AssertionsHold
  <2>3. QED
    BY <2>1, <2>2
<1>6. ProgressConsistent'
  BY Zenon, <1>0, <1>b, <1>c DEF ProgressConsistent, InKmalloc
<1>7. FixedIsHeld'
  BY Zenon DEF FixedIsHeld
<1>8. QED
  BY Zenon, <1>1, <1>2, <1>3, <1>4, <1>5, <1>6, <1>7

\* getppages evicts it.
LEMMA EvictForKernelStep ==
  ASSUME MaxKPages = 1, IInv, EvictForKernel
  PROVE  IInv'
<1> USE DEF IInv
<1>0. /\ pc = "kevict" /\ knpages = 1 /\ ki = 0 /\ panic = "none"
      /\ kvictim \in Managed /\ kvictim \in Frames /\ kvictim + ki = kvictim
      /\ status[kvictim] = "DIRTY" /\ kret # "menu"
  <2>1. /\ pc = "kevict" /\ knpages = 1 /\ ki < knpages /\ ki \in {0, 1}
        /\ kvictim \in Managed /\ kret # "menu"
        /\ status[kvictim] = IF ki = 0 THEN "DIRTY" ELSE "FIXED"
    BY DEF EvictForKernel, ProgressConsistent
  <2>2. ki = 0
    BY <2>1
  <2>3. panic = "none"
    BY Zenon, <2>1 DEF ProgressConsistent
  <2>4. QED
    BY <2>1, <2>2, <2>3, Ranges
<1>a. SwapOut(kvictim)
  BY <1>0 DEF EvictForKernel
<1>b. kvictim = frame => vaddr[kvictim] \notin pt
  BY Zenon, <1>0, Ranges DEF ProgressConsistent, InKmalloc
<1>c. /\ pt' = pt /\ ppage' = ppage /\ ppage[vaddr[kvictim]] = kvictim
      /\ vaddr[kvictim] \in present
      /\ swapped' = swapped \cup {vaddr[kvictim]}
      /\ present' = present \ {vaddr[kvictim]}
      /\ \A p \in present' : ppage[p] # kvictim
      /\ SwapTableConsistent' /\ TlbCoherent'
      /\ swapped' \in SUBSET Pages /\ swapIndex' \in [Pages -> Slots]
      /\ emptySlots' \in SUBSET Slots
      /\ tlbPage' \in [TlbSlots -> Pages \cup {NoPage}]
      /\ tlbFrame' \in [TlbSlots -> Frames] /\ tlbNext' \in TlbSlots
      /\ ram' \in [Frames -> Values] /\ swapspace' \in [Slots -> Values]
  BY Zenon, <1>0, <1>a, <1>b, SwapOutTables
<1>d. /\ status'[kvictim] = "FIXED"
      /\ \A g \in Frames \ {kvictim} : status'[g] = status[g]
      /\ ki' = 1 /\ pc' = pc /\ kvictim' = kvictim
      /\ UNCHANGED <<vaddr, size, nextVictim, kheld, fault, frame, kmLeft, knpages,
                     kret, eLock, panic>>
  BY <1>0 DEF EvictForKernel, TypeOK
<1>1. TypeOK'
  <2>1. status' \in [Frames -> Status]
    BY <1>0 DEF EvictForKernel, TypeOK, Status
  <2>2. QED
    BY <1>c, <1>d, <2>1 DEF TypeOK
<1>2. FrameTableConsistent'
  <2>1. \A p \in present : ppage[p] \in Frames
    BY DEF TypeOK, present
  <2>2. ASSUME NEW g \in Frames, status'[g] = "DIRTY", g # frame
        PROVE  vaddr[g] \in present' /\ ppage[vaddr[g]] = g
    BY ZenonT(60), <1>c, <1>d, <2>2 DEF FrameTableConsistent
  <2>3. QED
    BY Zenon, <1>c, <1>d, <2>1, <2>2 DEF FrameTableConsistent
<1>3. KernelFramesPinned'
  <2>1. ASSUME NEW a \in kheld
        PROVE  a[1] \in Frames \ {kvictim}
    BY <1>0, Ranges, Zenon DEF KernelFramesPinned, TypeOK
  <2>2. ASSUME NEW a \in kheld
        PROVE  status'[a[1]] = "FIXED" /\ size[a[1]] = a[2]
    BY Zenon, <1>d, <2>1 DEF KernelFramesPinned
  <2>3. ASSUME NEW a \in kheld, NEW p \in present'
        PROVE  ppage'[p] # a[1]
    BY Zenon, <1>c DEF KernelFramesPinned, FramesOf
  <2>4. ASSUME NEW a \in kheld, NEW t \in TlbSlots, tlbPage'[t] # NoPage
        PROVE  tlbFrame'[t] # a[1]
    BY <1>c, <2>3, <2>4 DEF TlbCoherent
  <2>5. kheld' = kheld /\ size' = size
    BY <1>d
  <2>6. QED
    BY Zenon, <2>2, <2>3, <2>4, <2>5 DEF KernelFramesPinned, FramesOf
<1>4. AssertionsHold'
  BY ZenonT(60), <1>0, <1>d DEF AssertionsHold
<1>5. ProgressConsistent'
  <2>1. frame # kvictim
    BY Zenon, <1>b, <1>c DEF present
  <2>2. QED
    BY <1>0, <1>c, <1>d, <2>1, Ranges
    DEF ProgressConsistent, InKmalloc, TypeOK
<1>6. FixedIsHeld'
  BY Zenon, <1>0, <1>d, Ranges DEF FixedIsHeld
<1>7. QED
  BY <1>1, <1>2, <1>3, <1>4, <1>5, <1>6, <1>c

\* The assertions on the victim's entry in getppages can fail only on the frame that
\* the fault being served has taken; and the menu never evicts, because without
\* a process no frame is DIRTY.
LEMMA EvictForKernelStopsStep ==
  ASSUME MaxKPages = 1, IInv, EvictForKernelStops
  PROVE  IInv'
<1> USE DEF IInv
<1>1. /\ pc = "kevict" /\ ki = 0 /\ panic = "none" /\ kvictim + ki = kvictim
      /\ kvictim \in Frames /\ status[kvictim] = "DIRTY" /\ kvictim # 0
  <2>1. /\ pc = "kevict" /\ knpages = 1 /\ ki < knpages /\ ki \in {0, 1}
        /\ kvictim \in Managed
        /\ status[kvictim] = IF ki = 0 THEN "DIRTY" ELSE "FIXED"
    BY Zenon DEF EvictForKernelStops, ProgressConsistent
  <2>2. ki = 0
    BY <2>1
  <2>3. panic = "none"
    BY Zenon, <2>1 DEF ProgressConsistent
  <2>4. QED
    BY <2>1, <2>2, <2>3, Ranges
<1>2. kvictim # frame => VictimIsMapped(kvictim)
  BY Zenon, <1>1 DEF FrameTableConsistent, VictimIsMapped, present
<1>3. kret # "menu"
  BY Zenon, <1>1 DEF ProgressConsistent, FrameTableConsistent, present
<1>4. \/ Panic("getppages") /\ kvictim = frame
      \/ Panic("swap_full") \/ SwapOutFails \/ SleepForever
  BY Zenon, <1>1, <1>2, <1>3 DEF EvictForKernelStops, SwapOutStops
<1>5. CASE SwapOutFails
  BY ZenonT(60), <1>1, <1>5, HaltStep DEF SwapOutFails, Reasons
<1>6. CASE ~SwapOutFails
  BY ZenonT(60), <1>1, <1>4, <1>6, HaltStep DEF Panic, SleepForever, swapfile, Reasons
<1>7. QED
  BY Zenon, <1>5, <1>6

\* The end of getppages, on a frame that no present page uses.
LEMMA FixFirstStep ==
  ASSUME MaxKPages = 1, IInv, pc \in {"kalloc", "kevict"},
         NEW f \in Managed, FixFirst(f), f # frame, status[f] # "DIRTY",
         \A a \in kheld : a[2] = 1,
         pc = "kevict" /\ ki = 1 => f = kvictim
  PROVE  IInv'
<1> USE DEF IInv, FixFirst, pagetable, swapfile, tlb
<1>0. /\ f \in Frames /\ knpages = 1 /\ panic = "none"
      /\ \A p \in present : ppage[p] # f
      /\ present' = present
  BY ZenonT(60), Ranges DEF ProgressConsistent, FrameTableConsistent, present
<1>a. /\ status'[f] = "FIXED" /\ size'[f] = 1 /\ kheld' = kheld \cup {<<f, 1>>}
      /\ \A g \in Frames \ {f} : /\ status'[g] = status[g] /\ size'[g] = size[g]
                                 /\ vaddr'[g] = vaddr[g]
  BY Zenon, <1>0 DEF TypeOK
<1>1. TypeOK'
  <2>1. /\ status' \in [Frames -> Status] /\ size' \in [Frames -> Nat]
        /\ vaddr' \in [Frames -> Pages \cup {NoPage}]
    BY Zenon, <1>0 DEF TypeOK, Status
  <2>2. kheld' \in SUBSET (Managed \X (1 .. MaxKPages))
    BY <1>a DEF TypeOK
  <2>3. pc' \in Where /\ eLock' \in LockState
    BY Zenon DEF TypeOK, Where, LockState
  <2>4. QED
    BY <2>1, <2>2, <2>3, Ranges DEF TypeOK
<1>2. FrameTableConsistent'
  <2>1. \A p \in present : ppage[p] \in Frames \ {f}
    <3>1. \A p \in present : ppage[p] \in Frames
      BY Zenon DEF TypeOK, present
    <3>2. QED
      BY Zenon, <1>0, <3>1
  <2>2. \A p \in present : /\ ppage[p] \in Managed
                           /\ status'[ppage[p]] = "DIRTY" /\ vaddr'[ppage[p]] = p
    BY ZenonT(60), <1>a, <2>1 DEF FrameTableConsistent
  <2>3. ASSUME NEW g \in Frames, status'[g] = "DIRTY", g # frame
        PROVE  vaddr'[g] \in present /\ ppage[vaddr'[g]] = g
    <3>1. g # f
      BY Zenon, <1>a, <2>3
    <3>2. status[g] = "DIRTY" /\ vaddr'[g] = vaddr[g]
      BY Zenon, <1>a, <2>3, <3>1
    <3>3. QED
      BY Zenon, <2>3, <3>2 DEF FrameTableConsistent
  <2>4. present' = present /\ ppage' = ppage /\ frame' = frame
    BY Zenon, <1>0
  <2>5. QED
    BY ZenonT(60), <2>2, <2>3, <2>4 DEF FrameTableConsistent
<1>3. SwapTableConsistent'
  BY Zenon DEF SwapTableConsistent, SlotsOf
<1>4. TlbCoherent'
  BY <1>0 DEF TlbCoherent
<1>5. KernelFramesPinned'
  <2>1. ASSUME NEW a \in kheld'
        PROVE  /\ status'[a[1]] = "FIXED" /\ size'[a[1]] = a[2]
               /\ a[1] \notin FramesOf(present)
    <3>1. CASE a = <<f, 1>>
      BY Zenon, <1>0, <1>a, <3>1 DEF FramesOf
    <3>2. CASE a \in kheld
      <4>1. a[1] \in Frames
        BY <3>2, Ranges, Zenon DEF TypeOK
      <4>2. QED
        BY ZenonT(60), <1>0, <1>a, <3>2, <4>1 DEF KernelFramesPinned, FramesOf
    <3>3. QED
      BY Zenon, <1>a, <3>1, <3>2
  <2>2. FramesOf(present)' = FramesOf(present)
    BY Zenon, <1>0 DEF FramesOf
  <2>3. \A t \in TlbSlots : tlbPage[t] # NoPage => tlbFrame[t] \in FramesOf(present)
    BY Zenon DEF TlbCoherent, FramesOf
  <2>4. QED
    BY Zenon, <2>1, <2>2, <2>3 DEF KernelFramesPinned
<1>6. AssertionsHold'
  BY <1>0 DEF AssertionsHold
<1>7. ProgressConsistent'
  <2>1. kret = "ptadd" => /\ fault \in Pages \ pt
                          /\ frame \in Managed /\ frame \in Frames
                          /\ status[frame] = "DIRTY" /\ vaddr[frame] = fault
    BY Zenon, Ranges DEF ProgressConsistent, InKmalloc
  <2>2. /\ kret \in {"menu", "user", "ptadd"}
        /\ kret # "ptadd" => fault = NoPage /\ frame = 0
        /\ kret = "menu" => pt = {}
    BY Zenon DEF ProgressConsistent, TypeOK
  <2>3. QED
    BY Zenon, <1>0, <1>a, <2>1, <2>2 DEF ProgressConsistent, InKmalloc
<1>8. FixedIsHeld'
  BY ZenonT(60), <1>0, <1>a, Ranges DEF FixedIsHeld
<1>9. QED
  BY Zenon, <1>1, <1>2, <1>3, <1>4, <1>5, <1>6, <1>7, <1>8

\* getppages with a free frame: nobody holds it, not even the fault being served.
LEMMA GetppagesFreeStep ==
  ASSUME MaxKPages = 1, IInv, GetppagesFree
  PROVE  IInv'
<1> USE DEF IInv
<1>1. PICK f \in Managed : FirstFreeRun(status, f, knpages) /\ FixFirst(f)
  BY Zenon DEF GetppagesFree
<1>2. pc = "kalloc" /\ knpages = 1
  BY DEF GetppagesFree, ProgressConsistent
<1>3. status[f] = "FREE"
  BY Zenon, <1>1, <1>2, FreeFrameIsFree
<1>4. frame # f
  BY Zenon, <1>2, <1>3, Ranges DEF ProgressConsistent, InKmalloc
<1>5. \A a \in kheld : a[2] = 1
  BY DEF TypeOK
<1>6. QED
  BY <1>1, <1>2, <1>3, <1>4, <1>5, FixFirstStep

\* getppages after the eviction: the victim has left the page table.
LEMMA GetppagesDoneStep ==
  ASSUME MaxKPages = 1, IInv, GetppagesDone
  PROVE  IInv'
<1> USE DEF IInv
<1>1. /\ pc = "kevict" /\ ki = 1 /\ kvictim \in Managed
      /\ status[kvictim] = "FIXED" /\ FixFirst(kvictim)
  BY DEF GetppagesDone, ProgressConsistent
<1>2. frame # kvictim
  BY Zenon, <1>1, Ranges DEF ProgressConsistent, InKmalloc
<1>3. \A a \in kheld : a[2] = 1
  BY DEF TypeOK
<1>4. QED
  BY Zenon, <1>1, <1>2, <1>3, FixFirstStep

\* free_kpages frees exactly the page that was allocated.
LEMMA FreeKpagesStep ==
  ASSUME MaxKPages = 1, IInv, NEW a \in kheld, FreeKpages(a)
  PROVE  IInv'
<1> USE DEF IInv, pagetable, swapfile, tlb, kalloc
<1>0. /\ a[1] \in Managed /\ a[1] \in Frames /\ a[2] = 1 /\ size[a[1]] = 1
      /\ status[a[1]] = "FIXED" /\ frame = 0 /\ panic = "none"
      /\ pc \in {"menu", "user"}
  <2>1. a \in Managed \X (1 .. MaxKPages)
    BY DEF TypeOK
  <2>2. a[1] \in Managed /\ a[2] \in 1 .. 1
    BY <2>1
  <2>3. a[2] = 1
    BY <2>2
  <2>4. pc \in {"menu", "user"} /\ frame = 0 /\ panic = "none"
    BY Zenon DEF ProgressConsistent, FreeKpages
  <2>5. QED
    BY <2>2, <2>3, <2>4, Ranges, Zenon DEF KernelFramesPinned
<1>a. a[1] .. (a[1] + size[a[1]] - 1) = {a[1]}
  <2>1. \A x \in Nat : x .. (x + 1 - 1) = {x}
    OBVIOUS
  <2>2. a[1] \in Nat
    BY <1>0, Ranges, Zenon
  <2>3. QED
    BY <1>0, <2>1, <2>2
<1>b. /\ status' = [f \in Frames |-> IF f = a[1] THEN "FREE" ELSE status[f]]
      /\ size' = [f \in Frames |-> IF f = a[1] THEN 0 ELSE size[f]]
      /\ kheld' = kheld \ {a}
      /\ UNCHANGED <<vaddr, nextVictim, pagetable, swapfile, tlb, ram, pc, fault,
                     frame, kmLeft, kalloc, eLock, panic>>
  BY Zenon, <1>a DEF FreeKpages, SizedRun
<1>c. present' = present
  BY Zenon, <1>b DEF present
<1>1. TypeOK'
  <2>1. status' \in [Frames -> Status] /\ size' \in [Frames -> Nat]
    BY <1>b DEF TypeOK, Status
  <2>2. QED
    BY Zenon, <1>b, <2>1 DEF TypeOK
<1>2. FrameTableConsistent'
  <2>1. \A p \in present : ppage[p] \in Frames
    BY Zenon DEF TypeOK, present
  <2>2. QED
    BY <1>0, <1>b, <1>c, <2>1, Zenon DEF FrameTableConsistent
<1>3. SwapTableConsistent'
  BY Zenon, <1>b DEF SwapTableConsistent, SlotsOf
<1>4. TlbCoherent'
  BY Zenon, <1>b, <1>c DEF TlbCoherent
<1>5. KernelFramesPinned'
  <2>1. ASSUME NEW b \in kheld'
        PROVE  b \in kheld /\ b[1] \in Frames /\ b[1] # a[1]
    <3>1. b \in kheld /\ b # a
      BY Zenon, <1>b
    <3>2. a \in Managed \X (1 .. MaxKPages) /\ b \in Managed \X (1 .. MaxKPages)
      BY Zenon, <3>1 DEF TypeOK
    <3>3. a = <<a[1], a[2]>> /\ b = <<b[1], b[2]>> /\ b[2] \in 1 .. 1
      BY <3>2
    <3>4. b[2] = a[2]
      BY <1>0, <3>3
    <3>5. QED
      BY <3>1, <3>2, <3>3, <3>4, Ranges, Zenon
  <2>2. FramesOf(present)' = FramesOf(present)
    BY Zenon, <1>b, <1>c DEF FramesOf
  <2>3. QED
    BY Zenon, <1>b, <2>1, <2>2 DEF KernelFramesPinned
<1>6. AssertionsHold'
  BY Zenon, <1>0, <1>b DEF AssertionsHold
<1>7. ProgressConsistent'
  BY Zenon, <1>0, <1>b, <1>c DEF ProgressConsistent, InKmalloc
<1>8. FixedIsHeld'
  BY <1>0, <1>b, Ranges DEF FixedIsHeld
<1>9. QED
  BY <1>1, <1>2, <1>3, <1>4, <1>5, <1>6, <1>7, <1>8

---------------------------------------------------------------------------
(* The other actions, and the theorems.                                   *)

\* Starting a program changes no table.
LEMMA RunProgramStep ==
  ASSUME MaxKPages = 1, IInv, RunProgram
  PROVE  IInv'
<1> USE DEF IInv, RunProgram, coremap, pagetable, swapfile, tlb, kalloc
<1>1. TypeOK'
  BY Zenon, PagingAssumption, Ranges DEF TypeOK, Where, Reasons, LockState, KmallocPages
<1>2. FrameTableConsistent'
  BY Zenon DEF FrameTableConsistent, present
<1>3. SwapTableConsistent'
  BY Zenon DEF SwapTableConsistent, SlotsOf
<1>4. TlbCoherent'
  BY Zenon DEF TlbCoherent, present
<1>5. KernelFramesPinned' /\ AssertionsHold'
  <2>1. KernelFramesPinned'
    BY ZenonT(60) DEF KernelFramesPinned, present, FramesOf
  <2>2. AssertionsHold'
    BY Zenon DEF AssertionsHold
  <2>3. QED
    BY Zenon, <2>1, <2>2
<1>6. ProgressConsistent'
  BY Zenon, PagingAssumption, Ranges DEF ProgressConsistent, InKmalloc, present
<1>7. FixedIsHeld'
  BY Zenon DEF FixedIsHeld
<1>8. QED
  BY Zenon, <1>1, <1>2, <1>3, <1>4, <1>5, <1>6, <1>7

\* Nor does the start of an access.
LEMMA TouchStep ==
  ASSUME MaxKPages = 1, IInv, NEW p \in Pages, NEW io \in LockState, Touch(p, io)
  PROVE  IInv'
<1> USE DEF IInv, Touch, coremap, pagetable, swapfile, tlb, kalloc
<1>1. TypeOK'
  BY Zenon, PagingAssumption, Ranges DEF TypeOK, Where, Reasons, LockState, KmallocPages
<1>2. FrameTableConsistent'
  BY Zenon DEF FrameTableConsistent, present
<1>3. SwapTableConsistent'
  BY Zenon DEF SwapTableConsistent, SlotsOf
<1>4. TlbCoherent'
  BY Zenon DEF TlbCoherent, present
<1>5. KernelFramesPinned' /\ AssertionsHold'
  <2>1. KernelFramesPinned'
    BY ZenonT(60) DEF KernelFramesPinned, present, FramesOf
  <2>2. AssertionsHold'
    BY Zenon DEF AssertionsHold
  <2>3. QED
    BY Zenon, <2>1, <2>2
<1>6. ProgressConsistent'
  BY Zenon, PagingAssumption, Ranges DEF ProgressConsistent, InKmalloc, present
<1>7. FixedIsHeld'
  BY DEF FixedIsHeld
<1>8. QED
  BY <1>1, <1>2, <1>3, <1>4, <1>5, <1>6, <1>7

\* An access writes only to a frame, which no table describes.
LEMMA AccessStep ==
  ASSUME MaxKPages = 1, IInv, NEW v \in Values, Access(v)
  PROVE  IInv'
<1> USE DEF IInv, Access, coremap, pagetable, swapfile, tlb, kalloc
<1>1. TypeOK'
  BY PagingAssumption, Ranges DEF TypeOK, Where, Reasons, LockState, KmallocPages
<1>2. FrameTableConsistent'
  BY Zenon DEF FrameTableConsistent, present
<1>3. SwapTableConsistent'
  BY Zenon DEF SwapTableConsistent, SlotsOf
<1>4. TlbCoherent'
  BY Zenon DEF TlbCoherent, present
<1>5. KernelFramesPinned' /\ AssertionsHold'
  <2>1. KernelFramesPinned'
    BY Zenon, PinnedKept
  <2>2. AssertionsHold'
    BY Zenon DEF AssertionsHold
  <2>3. QED
    BY Zenon, <2>1, <2>2
<1>6. ProgressConsistent'
  BY Zenon, PagingAssumption, Ranges DEF ProgressConsistent, InKmalloc, present
<1>7. FixedIsHeld'
  BY Zenon DEF FixedIsHeld
<1>8. QED
  BY Zenon, <1>1, <1>2, <1>3, <1>4, <1>5, <1>6, <1>7

\* Every other call of alloc_kpages.
LEMMA AllocKpagesStep ==
  ASSUME MaxKPages = 1, IInv, NEW n \in 1 .. MaxKPages, NEW io \in LockState, AllocKpages(n, io)
  PROVE  IInv'
<1> USE DEF IInv, AllocKpages, coremap, pagetable, swapfile, tlb, kalloc
<1>1. TypeOK'
  <2>1. /\ knpages' \in 0 .. MaxKPages /\ kret' \in {"menu", "user", "ptadd"}
        /\ eLock' \in LockState /\ pc' \in Where
    BY PagingAssumption DEF TypeOK, Where
  <2>2. QED
    BY Zenon, <2>1 DEF TypeOK
<1>2. FrameTableConsistent'
  BY Zenon DEF FrameTableConsistent, present
<1>3. SwapTableConsistent'
  BY Zenon DEF SwapTableConsistent, SlotsOf
<1>4. TlbCoherent'
  BY Zenon DEF TlbCoherent, present
<1>5. KernelFramesPinned' /\ AssertionsHold'
  <2>1. KernelFramesPinned'
    BY Zenon, PinnedKept
  <2>2. AssertionsHold'
    BY Zenon DEF AssertionsHold
  <2>3. QED
    BY Zenon, <2>1, <2>2
<1>6. ProgressConsistent'
  BY PagingAssumption, Ranges DEF ProgressConsistent, InKmalloc, present
<1>7. FixedIsHeld'
  BY DEF FixedIsHeld
<1>8. QED
  BY Zenon, <1>1, <1>2, <1>3, <1>4, <1>5, <1>6, <1>7

\* as_destroy: its assertions hold, and it releases every slot and every frame.
LEMMA DestroyAddrspaceStep ==
  ASSUME MaxKPages = 1, IInv, DestroyAddrspace
  PROVE  IInv'
<1> USE DEF IInv, kalloc
<1>0. pc = "user" /\ frame = 0 /\ fault = NoPage /\ panic = "none" /\ status[0] = "FIXED"
  BY Zenon, Ranges DEF DestroyAddrspace, ProgressConsistent, FixedIsHeld
<1>a. SlotsReleasable /\ FramesReleasable
  BY DEF SlotsReleasable, FramesReleasable, SwapTableConsistent, FrameTableConsistent
<1>b. ReleaseAll
  BY Zenon, <1>a DEF DestroyAddrspace
<1>c. \A f \in Frames : status[f] = "DIRTY" <=> f \in FramesOf(present)
  BY <1>0 DEF FrameTableConsistent, FramesOf
<1>d. /\ status' = [f \in Frames |-> IF status[f] = "DIRTY" THEN "FREE" ELSE status[f]]
      /\ present' = {} /\ pt' = {} /\ swapped' = {} /\ emptySlots' = Slots
      /\ \A f \in Frames : status[f] = "FIXED" => size'[f] = size[f]
  <2>1. emptySlots' = Slots
    BY <1>0, <1>b DEF ReleaseAll, ReleaseSlots, SwapTableConsistent, TypeOK
  <2>2. QED
    BY <1>b, <1>c, <2>1, Zenon DEF ReleaseAll, present
<1>1. TypeOK'
  <2>1. /\ status' \in [Frames -> Status] /\ size' \in [Frames -> Nat]
        /\ vaddr' \in [Frames -> Pages \cup {NoPage}]
    BY Zenon, <1>b DEF ReleaseAll, TypeOK, Status
  <2>2. /\ ppage' \in [Pages -> Frames] /\ swapIndex' \in [Pages -> Slots]
        /\ tlbPage' \in [TlbSlots -> Pages \cup {NoPage}]
        /\ tlbFrame' \in [TlbSlots -> Frames]
    BY <1>b, Ranges DEF ReleaseAll, TlbFlush
  <2>3. QED
    BY Zenon, <1>b, <1>d, <2>1, <2>2 DEF ReleaseAll, TlbFlush, TypeOK, Where
<1>2. FrameTableConsistent'
  BY Zenon, <1>d DEF FrameTableConsistent
<1>3. SwapTableConsistent'
  BY Zenon, <1>d DEF SwapTableConsistent, SlotsOf
<1>4. TlbCoherent'
  BY Zenon, <1>b DEF TlbCoherent, ReleaseAll, TlbFlush
<1>5. KernelFramesPinned'
  <2>1. \A a \in kheld : a[1] \in Frames
    BY Ranges, Zenon DEF TypeOK
  <2>2. kheld' = kheld /\ \A t \in TlbSlots : tlbPage'[t] = NoPage
    BY Zenon, <1>b DEF ReleaseAll, TlbFlush
  <2>3. QED
    BY Zenon, <1>d, <2>1, <2>2 DEF KernelFramesPinned, FramesOf
<1>6. AssertionsHold'
  BY Zenon, <1>0, <1>b DEF AssertionsHold, ReleaseAll
<1>7. ProgressConsistent'
  BY Zenon, <1>0, <1>b, <1>d DEF ProgressConsistent, InKmalloc, ReleaseAll
<1>8. FixedIsHeld'
  BY Zenon, <1>0, <1>b, <1>d, Ranges DEF FixedIsHeld, ReleaseAll
<1>9. QED
  BY Zenon, <1>1, <1>2, <1>3, <1>4, <1>5, <1>6, <1>7, <1>8

\* A stuttering step, a stopped kernel included, changes nothing.
LEMMA StutterStep ==
  ASSUME IInv, UNCHANGED vars
  PROVE  IInv'
<1> USE DEF IInv, vars, coremap, pagetable, swapfile, tlb, kalloc
<1>1. TypeOK'
  BY DEF TypeOK
<1>2. FrameTableConsistent'
  BY Zenon DEF FrameTableConsistent, present
<1>3. SwapTableConsistent'
  BY Zenon DEF SwapTableConsistent, SlotsOf
<1>4. TlbCoherent'
  BY Zenon DEF TlbCoherent, present
<1>5. KernelFramesPinned' /\ AssertionsHold'
  <2>1. KernelFramesPinned'
    BY ZenonT(60) DEF KernelFramesPinned, present, FramesOf
  <2>2. AssertionsHold'
    BY Zenon DEF AssertionsHold
  <2>3. QED
    BY Zenon, <2>1, <2>2
<1>6. ProgressConsistent'
  BY Zenon DEF ProgressConsistent, InKmalloc, present
<1>7. FixedIsHeld'
  BY DEF FixedIsHeld
<1>8. QED
  BY Zenon, <1>1, <1>2, <1>3, <1>4, <1>5, <1>6, <1>7

\* Every step of the kernel, the program and the menu keeps the tables consistent.
THEOREM IInvInductive ==
  ASSUME MaxKPages = 1
  PROVE  IInv /\ [Next]_vars => IInv'
<1> SUFFICES ASSUME IInv, [Next]_vars
             PROVE  IInv'
  OBVIOUS
<1>1. CASE Kernel
  BY <1>1, AccessStep, FaultPresentStep, FaultAbsentStep, GetFreeFrameStep,
     EvictForUserStep, EvictForUserStopsStep, KmallocNeedsPageStep, PtAddStep,
     SwapInStep, SwapInStopsStep, TlbWriteStep, GetppagesFreeStep,
     GetppagesVictimStep, GetppagesNoVictimStep, EvictForKernelStep,
     EvictForKernelStopsStep, GetppagesDoneStep
     DEF Kernel
<1>2. CASE Environment
  BY Zenon, <1>2, RunProgramStep, TouchStep, SegmentationFaultStep, AllocKpagesStep,
     FreeKpagesStep, DestroyAddrspaceStep
     DEF Environment
<1>3. CASE Halted \/ UNCHANGED vars
  BY <1>3, StutterStep DEF Halted
<1>4. QED
  BY <1>1, <1>2, <1>3 DEF Next

\* The tables of the demand-paged kernel are consistent in every reachable state.
THEOREM Consistency ==
  ASSUME MaxKPages = 1
  PROVE  Spec => []IInv
<1>1. Init => IInv
  BY InitIInv
<1>2. IInv /\ [Next]_vars => IInv'
  BY Zenon, IInvInductive
<1>3. QED
  BY <1>1, <1>2, PTL DEF Spec

\* Without a process nothing is left behind: the consistency of the tables leaves
\* no DIRTY frame, no used slot and no TLB entry when the page table is empty.
LEMMA ConsistentLeavesNothing ==
  ASSUME IInv
  PROVE  NothingLeftBehind
<1> USE DEF IInv
<1> SUFFICES ASSUME pc = "menu"
             PROVE  /\ pt = {}
                    /\ emptySlots = Slots
                    /\ \A t \in TlbSlots : tlbPage[t] = NoPage
                    /\ \A f \in Managed : status[f] = "FREE" \/ <<f, 1>> \in kheld
  BY Zenon DEF NothingLeftBehind
<1>1. pt = {} /\ swapped = {} /\ present = {} /\ frame = 0
  BY DEF ProgressConsistent, SwapTableConsistent, present
<1>2. emptySlots = Slots
  <2>1. SlotsOf(swapped) = {}
    BY Zenon, <1>1 DEF SlotsOf
  <2>2. Slots \ emptySlots = {} /\ emptySlots \subseteq Slots
    BY <2>1 DEF ProgressConsistent, SwapTableConsistent, TypeOK
  <2>3. QED
    BY <2>2
<1>3. \A t \in TlbSlots : tlbPage[t] = NoPage
  BY <1>1 DEF TlbCoherent
<1>4. ASSUME NEW f \in Managed
      PROVE  status[f] = "FREE" \/ <<f, 1>> \in kheld
  <2>1. status[f] # "DIRTY" /\ status[f] \in Status
    BY <1>1, Ranges DEF FrameTableConsistent, TypeOK
  <2>2. QED
    BY Zenon, <2>1 DEF Status, FixedIsHeld
<1>5. QED
  BY <1>1, <1>2, <1>3, <1>4

\* Every table keeps its shape, and no step of vm_fault, getppages or as_destroy uses
\* an index outside its table.
THEOREM TypeCorrect ==
  ASSUME MaxKPages = 1
  PROVE  Spec => []TypeOK
BY Consistency, PTL DEF IInv

\* The coremap and the page table describe each other: vm_fault, getppages and
\* as_destroy never leave a frame with two pages or a present page without its frame.
THEOREM FrameTableAlwaysConsistent ==
  ASSUME MaxKPages = 1
  PROVE  Spec => []FrameTableConsistent
BY Consistency, PTL DEF IInv

\* The page table's swapped pages and the used slots match one to one: swap_out,
\* swap_in and swap_unmark neither share a slot nor lose one.
THEOREM SwapTableAlwaysConsistent ==
  ASSUME MaxKPages = 1
  PROVE  Spec => []SwapTableConsistent
BY Consistency, PTL DEF IInv

\* The TLB holds each page at most once and only where the page table says it is
\* (vm_fault, tlb_invalidate_entry, as_destroy).
THEOREM TlbAlwaysCoherent ==
  ASSUME MaxKPages = 1
  PROVE  Spec => []TlbCoherent
BY Consistency, PTL DEF IInv

\* A page that getppages gave to the kernel stays FIXED, and out of the page table's
\* and the TLB's reach, until free_kpages.
THEOREM KernelPagesStayPinned ==
  ASSUME MaxKPages = 1
  PROVE  Spec => []KernelFramesPinned
BY Consistency, PTL DEF IInv

\* The assertions of getuserppage, swap_unmark and freeuserppage never fail; those of
\* getppages can fail only on the frame of the fault being served.
THEOREM AssertionsNeverFail ==
  ASSUME MaxKPages = 1
  PROVE  Spec => []AssertionsHold
BY Consistency, PTL DEF IInv

\* as_destroy leaves no entry, slot, TLB entry or user frame behind.
THEOREM ExitLeavesNothing ==
  ASSUME MaxKPages = 1
  PROVE  Spec => []NothingLeftBehind
BY Consistency, ConsistentLeavesNothing, PTL

---------------------------------------------------------------------------
(* Paging implements VirtualMemory: whatever the kernel evicts, swaps in, *)
(* reloads or reuses, the program sees a plain memory.                    *)

\* What a load of each page would return: the refinement mapping of VM.
Memory == [p \in Pages |-> Contents(p)]

\* A step that leaves the page table, the frames' contents and the swap file alone
\* is invisible.
LEMMA QuietStep ==
  ASSUME UNCHANGED <<pt, ppage, swapped, swapIndex, ram, swapspace>>
  PROVE  Memory' = Memory
BY Zenon DEF Memory, Contents

\* An eviction copies the page to a slot no other page uses and makes its entry
\* lead there.
LEMMA SwapOutInvisible ==
  ASSUME MaxKPages = 1, IInv, NEW f \in Managed, status[f] = "DIRTY",
         f = frame => vaddr[f] \notin pt, SwapOut(f), pc # "panic"
  PROVE  Memory' = Memory
<1> USE DEF IInv
<1>1. /\ pt' = pt /\ ppage' = ppage /\ ram' = ram
      /\ vaddr[f] \in present /\ ppage[vaddr[f]] = f
      /\ swapped' = swapped \cup {vaddr[f]}
  BY SwapOutTables, Zenon DEF SwapOut
<1>2. PICK v \in Pages : v = vaddr[f] /\ v \in pt /\ v \notin swapped
  BY <1>1 DEF TypeOK, present
<1>3. PICK s \in Slots :
        /\ FirstEmptySlot(s)
        /\ swapspace' = [swapspace EXCEPT ![s] = ram[f]]
        /\ swapIndex' = [swapIndex EXCEPT ![v] = s]
  BY <1>2, Zenon DEF SwapOut
<1>4. Contents(v)' = Contents(v)
  <2>1. swapIndex'[v] = s /\ swapspace'[s] = ram[f]
    BY <1>3 DEF TypeOK
  <2>2. QED
    BY Zenon, <1>1, <1>2, <2>1 DEF Contents
<1>5. ASSUME NEW p \in Pages, p # v
      PROVE  Contents(p)' = Contents(p)
  <2>1. p \in swapped => swapIndex[p] # s
    BY Zenon, <1>3 DEF FirstEmptySlot, SwapTableConsistent, SlotsOf
  <2>2. swapIndex'[p] = swapIndex[p] /\ swapIndex[p] \in Slots
    BY Zenon, <1>3, <1>5 DEF TypeOK
  <2>3. p \in swapped => swapspace'[swapIndex[p]] = swapspace[swapIndex[p]]
    BY Zenon, <1>3, <2>1, <2>2 DEF TypeOK
  <2>4. QED
    BY Zenon, <1>1, <1>2, <1>5, <2>2, <2>3 DEF Contents
<1>6. \A p \in Pages : Contents(p)' = Contents(p)
  BY Zenon, <1>4, <1>5
<1>7. QED
  BY <1>6 DEF Memory

\* A swap-in copies the slot to a frame no other page uses.
LEMMA SwapInInvisible ==
  ASSUME MaxKPages = 1, IInv, SwapIn
  PROVE  Memory' = Memory
<1> USE DEF IInv, SwapIn
<1>1. /\ fault \in swapped /\ fault \in pt /\ fault \in Pages /\ fault' = fault
      /\ frame \in Frames /\ \A p \in present : ppage[p] # frame
  BY Zenon, Ranges DEF ProgressConsistent, SwapTableConsistent, TypeOK
<1>2. PICK p \in Pages : p = fault
  BY Zenon, <1>1
<1>3. Contents(p)' = Contents(p)
  <2>1. ppage'[p] = frame /\ ram'[frame] = swapspace[swapIndex[p]]
    BY Zenon, <1>1, <1>2 DEF TypeOK
  <2>2. QED
    BY Zenon, <1>1, <1>2, <2>1 DEF Contents
<1>4. ASSUME NEW q \in Pages, q # p
      PROVE  Contents(q)' = Contents(q)
  <2>1. ppage'[q] = ppage[q] /\ ppage[q] \in Frames
    BY Zenon, <1>1, <1>2, <1>4 DEF TypeOK
  <2>2. q \in present => ram'[ppage[q]] = ram[ppage[q]]
    BY Zenon, <1>1, <2>1 DEF TypeOK
  <2>3. QED
    BY Zenon, <1>2, <1>4, <2>1, <2>2 DEF Contents, present
<1>5. \A q \in Pages : Contents(q)' = Contents(q)
  BY Zenon, <1>3, <1>4
<1>6. QED
  BY Zenon, <1>5 DEF Memory

\* pt_add gives a page that had none the contents of the frame it has been given.
LEMMA PtAddMaterializes ==
  ASSUME MaxKPages = 1, IInv, PtAdd
  PROVE  \E v \in Values : VM!Materialize(v)
<1> USE DEF IInv, PtAdd, swapfile
<1>1. fault \in Pages \ pt /\ fault' = fault /\ frame \in Frames /\ ram[frame] \in Values
  BY Zenon, Ranges DEF ProgressConsistent, TypeOK
<1>2. fault \notin swapped
  BY Zenon, <1>1 DEF SwapTableConsistent
<1>3. ASSUME NEW p \in Pages
      PROVE  Contents(p)' = IF p = fault THEN ram[frame] ELSE Contents(p)
  <2>1. p # fault => ppage'[p] = ppage[p] /\ swapIndex'[p] = swapIndex[p]
    BY Zenon, <1>1 DEF TypeOK
  <2>2. p = fault => ppage'[p] = frame
    <3>1. ppage \in [Pages -> Frames]
      BY Zenon DEF TypeOK
    <3>2. QED
      BY Zenon, <1>1, <3>1
  <2>3. pt' = pt \cup {fault} /\ swapped' = swapped /\ ram' = ram /\ swapspace' = swapspace
    BY ZenonT(60), <1>2
  <2>4. CASE p = fault
    BY <1>2, <2>2, <2>3, <2>4 DEF Contents
  <2>5. CASE p # fault
    BY <2>1, <2>3, <2>5 DEF Contents
  <2>6. QED
    BY Zenon, <2>4, <2>5
<1>4. Memory' = [Memory EXCEPT ![fault] = ram[frame]]
  BY <1>1, <1>3, Zenon DEF Memory
<1>5. Memory[fault] = Absent
  BY Zenon, <1>1 DEF Memory, Contents
<1>6. QED
  BY <1>1, <1>4, <1>5, Zenon DEF VM!Materialize, Memory

\* The TLB leads an access to the frame of the very page it names.
LEMMA AccessLoadsOrStores ==
  ASSUME MaxKPages = 1, IInv, NEW v \in Values, Access(v)
  PROVE  VM!Load \/ VM!Store(v)
<1> USE DEF IInv, Access, pagetable, swapfile
<1>1. PICK t \in TlbSlots :
        /\ tlbPage[t] = fault
        /\ ram' = [ram EXCEPT ![tlbFrame[t]] = v] \/ ram' = ram
  BY Zenon
<1>2. fault \in Pages /\ fault \in present /\ tlbFrame[t] = ppage[fault]
  BY Zenon, <1>1, PagingAssumption DEF ProgressConsistent, TlbCoherent
<1>3. ppage[fault] \in Frames /\ ram[ppage[fault]] \in Values
  BY Zenon, <1>2 DEF TypeOK
<1>4. Memory[fault] # Absent
  BY Zenon, <1>2, <1>3, PagingAssumption DEF Memory, Contents, present
<1>5. CASE ram' = ram
  <2>1. Memory' = Memory
    BY Zenon, <1>5, QuietStep
  <2>2. QED
    BY Zenon, <1>2, <1>4, <2>1 DEF VM!Load, Memory
<1>6. CASE ram' = [ram EXCEPT ![tlbFrame[t]] = v]
  <2>1. ASSUME NEW p \in Pages
        PROVE  Contents(p)' = IF p = fault THEN v ELSE Contents(p)
    <3>1. CASE p = fault
      BY Zenon, <1>2, <1>3, <1>6, <3>1 DEF Contents, present, TypeOK
    <3>2. CASE p # fault
      <4>1. p \in present => ppage[p] # ppage[fault] /\ ppage[p] \in Frames
        BY <1>2, <3>2 DEF FrameTableConsistent, TypeOK
      <4>2. p \in present => ram'[ppage[p]] = ram[ppage[p]]
        BY Zenon, <1>2, <1>6, <4>1 DEF TypeOK
      <4>3. QED
        BY ZenonT(60), <3>2, <4>2 DEF Contents, present
    <3>3. QED
      BY Zenon, <3>1, <3>2
  <2>2. Memory' = [Memory EXCEPT ![fault] = v]
    BY <1>2, <2>1, Zenon DEF Memory
  <2>3. QED
    BY Zenon, <1>2, <1>4, <2>2 DEF VM!Store, Memory
<1>7. QED
  BY Zenon, <1>1, <1>5, <1>6

\* The evictions of getuserppage and getppages.
LEMMA EvictionsInvisible ==
  ASSUME MaxKPages = 1, IInv, EvictForUser \/ EvictForKernel
  PROVE  Memory' = Memory /\ fault' = fault
<1> USE DEF IInv
<1>1. CASE EvictForUser
  <2>1. PICK f \in Frames : /\ VictimEnd(status, nextVictim, 1, f)
                            /\ SwapOut(f) /\ TakeFrame(f)
    BY Zenon, <1>1 DEF EvictForUser
  <2>2. f \in Managed /\ status[f] = "DIRTY"
    BY Zenon, <1>1, <2>1, VictimIsDirty DEF EvictForUser, TypeOK, FixedIsHeld
  <2>3. f # frame /\ pc # "panic"
    BY Zenon, <1>1, <2>2, Ranges DEF EvictForUser, ProgressConsistent
  <2>4. QED
    BY Zenon, <2>1, <2>2, <2>3, SwapOutInvisible DEF TakeFrame
<1>2. CASE EvictForKernel
  <2>1. /\ pc = "kevict" /\ knpages = 1 /\ ki < knpages /\ ki \in {0, 1}
        /\ kvictim \in Managed
        /\ status[kvictim] = IF ki = 0 THEN "DIRTY" ELSE "FIXED"
    BY Zenon, <1>2 DEF EvictForKernel, ProgressConsistent
  <2>2. ki = 0
    BY <2>1
  <2>3. kvictim + ki = kvictim
    BY <2>1, <2>2, Ranges
  <2>4. SwapOut(kvictim) /\ fault' = fault
    BY Zenon, <1>2, <2>3 DEF EvictForKernel
  <2>5. kvictim = frame => vaddr[kvictim] \notin pt
    BY Zenon, <1>2, <2>1, Ranges DEF ProgressConsistent, InKmalloc
  <2>6. QED
    BY Zenon, <2>1, <2>2, <2>4, <2>5, SwapOutInvisible
<1>3. QED
  BY Zenon, <1>1, <1>2

\* A panic or an endless sleep.
LEMMA HaltInvisible ==
  ASSUME NEW why, Panic(why) \/ SleepForever \/ SwapOutFails
  PROVE  Memory' = Memory /\ fault' = fault
BY Zenon, QuietStep DEF Panic, SleepForever, SwapOutFails, pagetable, swapfile

\* Each step of the kernel, the program or the menu is one of the abstract memory,
\* or invisible.
LEMMA StepRefines ==
  ASSUME MaxKPages = 1, IInv, [Next]_vars
  PROVE  [VM!Next]_(VM!vars)
<1> USE DEF IInv
<1> SUFFICES VM!Next \/ (Memory' = Memory /\ fault' = fault)
  BY Zenon DEF VM!vars, Memory
<1>1. CASE \E v \in Values : Access(v)
  BY Zenon, <1>1, AccessLoadsOrStores DEF VM!Next
<1>2. CASE PtAdd
  BY <1>2, PtAddMaterializes DEF VM!Next
<1>3. CASE SwapIn
  BY Zenon, <1>3, SwapInInvisible DEF SwapIn
<1>4. CASE EvictForUser \/ EvictForKernel
  BY Zenon, <1>4, EvictionsInvisible
<1>5. CASE EvictForUserStops \/ SwapInStops \/ GetppagesNoVictim
           \/ EvictForKernelStops \/ SegmentationFault
  BY <1>5, HaltInvisible
     DEF EvictForUserStops, SwapInStops, GetppagesNoVictim, EvictForKernelStops,
         SegmentationFault, SwapOutStops
<1>6. CASE FaultPresent \/ FaultAbsent \/ GetFreeFrame \/ KmallocNeedsPage
           \/ TlbWrite \/ GetppagesFree \/ GetppagesVictim \/ GetppagesDone
           \/ RunProgram \/ (\E n \in 1 .. MaxKPages, io \in LockState : AllocKpages(n, io))
           \/ (\E a \in kheld : FreeKpages(a)) \/ Halted \/ UNCHANGED vars
  BY <1>6, QuietStep, Zenon
     DEF FaultPresent, FaultAbsent, GetFreeFrame, TakeFrame, KmallocNeedsPage,
         TlbWrite, GetppagesFree, GetppagesVictim, GetppagesDone, FixFirst,
         RunProgram, AllocKpages, FreeKpages, Halted, vars, pagetable, swapfile
<1>7. CASE \E p \in Pages, io \in LockState : Touch(p, io)
  <2>1. PICK p \in Pages, io \in LockState : Touch(p, io)
    BY Zenon, <1>7
  <2>2. Memory' = Memory
    BY Zenon, <2>1, QuietStep DEF Touch, pagetable, swapfile
  <2>3. VM!Begin(p)
    BY Zenon, <2>1, <2>2 DEF Touch, ProgressConsistent, VM!Begin, Memory
  <2>4. QED
    BY <2>3 DEF VM!Next
<1>8. CASE DestroyAddrspace
  <2>1. SlotsReleasable /\ FramesReleasable
    BY Zenon DEF SlotsReleasable, FramesReleasable, SwapTableConsistent, FrameTableConsistent
  <2>2. ReleaseAll /\ fault = NoPage
    BY Zenon, <1>8, <2>1 DEF DestroyAddrspace, ProgressConsistent
  <2>3. Memory' = [p \in Pages |-> Absent] /\ fault' = fault
    BY Zenon, <2>2 DEF ReleaseAll, Memory, Contents
  <2>4. VM!Discard
    BY <2>2, <2>3 DEF VM!Discard, Memory
  <2>5. QED
    BY <2>4 DEF VM!Next
<1>9. QED
  BY Zenon, <1>1, <1>2, <1>3, <1>4, <1>5, <1>6, <1>7, <1>8
     DEF Next, Kernel, Environment

\* A program run on the demand-paged kernel sees VirtualMemory.
THEOREM PagingRefinesVirtualMemory ==
  ASSUME MaxKPages = 1
  PROVE  Spec => PagingIsInvisible
<1>1. Init => VM!Init
  BY DEF Init, VM!Init, Contents
<1>2. IInv /\ [Next]_vars => [VM!Next]_(VM!vars)
  BY StepRefines
<1>3. Spec => []IInv
  BY Consistency
<1>4. QED
  BY <1>1, <1>2, <1>3, PTL DEF Spec, PagingIsInvisible, VM!Spec
=============================================================================
