-------------------------------- MODULE Heap --------------------------------
(***************************************************************************)
(* The kernel heap (kern/vm/kmalloc.c): pages cut into blocks of one size, *)
(* each described by a pageref, on the page allocator below it             *)
(* (getppages, alloc_kpages and free_kpages of kern/arch/mips/vm/vm.c, for *)
(* one page and with no user page to evict).                               *)
(*                                                                         *)
(* kmalloc_spinlock is released around every call of alloc_kpages and      *)
(* free_kpages, and getppages takes no lock at all.  What runs under the   *)
(* spinlock is one step; the rest interleaves.  When two calls of          *)
(* getppages have found the same frame and the second marks it too, two    *)
(* users write to one page: the model ends there (raced).                  *)
(***************************************************************************)
EXTENDS Integers, Sequences, FiniteSets, FiniteSetsExt, Functions

CONSTANTS
  Thread,
  Frame,               \* frames from firstFreeFrame on
  NoFrame,
  Size,                \* what is asked of kmalloc, in units of the smallest block
  PAGE_SIZE,           \* in the same unit
  sizes,               \* block sizes, a sequence in ascending order
  NPAGEREFS_PER_PAGE,
  NUM_PAGEREFPAGES,
  MaxHeld              \* clients call kmalloc while they hold fewer pointers

\* Fewer threads than pagerefs in a page (256 in the code): see freepageref.
ASSUME HeapAssumption ==
  /\ Frame \subseteq Nat /\ IsFiniteSet(Frame) /\ NoFrame \notin Frame
  /\ PAGE_SIZE \in Nat \ {0} /\ Size \subseteq 1 .. PAGE_SIZE
  /\ sizes \in Seq(1 .. PAGE_SIZE) /\ sizes # <<>>
  /\ NPAGEREFS_PER_PAGE \in Nat \ {0} /\ NUM_PAGEREFPAGES \in Nat \ {0}
  /\ IsFiniteSet(Thread) /\ Cardinality(Thread) <= NPAGEREFS_PER_PAGE

VARIABLES
  status,     \* of the frames, in the coremap
  kheaproots, \* page and numinuse of each page of pagerefs
  inuse,      \* the pagerefs whose bit is set in pagerefs_inuse
  pr,         \* the pagerefs: page, blktype, free list (offsets) and nfree
  sizebases,  \* for each block type, the list of its pagerefs
  allbase,    \* the list of all pagerefs
  pc, loc,    \* where each thread is, and its local variables
  held,       \* pointers (page and offset) that kmalloc returned, not freed since
  panicked,   \* the assertion or panic that was hit
  raced       \* history: getppages marked a frame that was not free any more

heap == <<kheaproots, inuse, pr, sizebases, allbase>>
vars == <<status, heap, pc, loc, held, panicked, raced>>

BlockType == DOMAIN sizes
Root == 0 .. NUM_PAGEREFPAGES - 1
Ref == 0 .. NPAGEREFS_PER_PAGE - 1
Pageref == Root \X Ref      \* refs[i] of the page of kheaproots[k] is <<k, i>>
RootOf(r) == r[1]
NBlocks(b) == PAGE_SIZE \div sizes[b]
Pointer == [page : Frame, off : 0 .. PAGE_SIZE - 1]

NoPageref == [page |-> NoFrame, blktype |-> 1, freelist |-> <<>>, nfree |-> 0]
Locals(b, prpage, r, back) ==
  [blktype |-> b, prpage |-> prpage, pr |-> r, va |-> NoFrame, back |-> back]
NoLocals == Locals(1, NoFrame, <<0, 0>>, "idle")

\* Pageref p with another free list.
WithFreelist(p, list, n) ==
  [page |-> p.page, blktype |-> p.blktype, freelist |-> list, nfree |-> n]

Init ==
  /\ status = [f \in Frame |-> "FREE"]
  /\ kheaproots = [k \in Root |-> [page |-> NoFrame, numinuse |-> 0]]
  /\ inuse = {}
  /\ pr = [r \in Pageref |-> NoPageref]
  /\ sizebases = [b \in BlockType |-> <<>>]
  /\ allbase = <<>>
  /\ pc = [t \in Thread |-> "idle"] /\ loc = [t \in Thread |-> NoLocals]
  /\ held = {}
  /\ panicked = "no" /\ raced = FALSE

Goto(t, l) == pc' = [pc EXCEPT ![t] = l]

Return(t) == Goto(t, "idle") /\ loc' = [loc EXCEPT ![t] = NoLocals]

KASSERT(A, name) == panicked' = IF A THEN "no" ELSE name

---------------------------------------------------------------------------
(* alloc_kpages(1) and free_kpages.                                        *)

\* alloc_kpages is called by a thread with locals l, to go on at l.back with the page
\* in va.
AllocKpages(t, l) ==
  /\ loc' = [loc EXCEPT ![t] = l]
  /\ Goto(t, "getppages")

FreeFrames == {f \in Frame : status[f] = "FREE"}

\* getppages finds the first free frame ...
GetppagesScan(t) ==
  /\ pc[t] = "getppages"
  /\ \/ /\ FreeFrames # {}
        /\ loc' = [loc EXCEPT ![t].va = Min(FreeFrames)]
        /\ Goto(t, "mark")
        /\ UNCHANGED panicked
     \/ /\ FreeFrames = {}
        /\ panicked' = "no more victims in the coremap"
        /\ UNCHANGED <<pc, loc>>
  /\ UNCHANGED <<status, heap, held>>

\* ... and marks it.
GetppagesMark(t) ==
  /\ pc[t] = "mark"
  /\ status' = [status EXCEPT ![loc[t].va] = "FIXED"]
  /\ Goto(t, loc[t].back)
  /\ UNCHANGED <<heap, loc, held, panicked>>

\* free_kpages(loc.va), the last step of kfree or of a kmalloc that fails.
FreeKpages(t) ==
  /\ pc[t] = "free_kpages"
  /\ status' = [status EXCEPT ![loc[t].va] = "FREE"]
  /\ Return(t)
  /\ UNCHANGED <<heap, held, panicked>>

---------------------------------------------------------------------------
(* kmalloc.                                                                *)

LARGEST_SUBPAGE_SIZE == sizes[Len(sizes)]

blocktype(sz) == Min({b \in BlockType : sz <= sizes[b]})

\* doalloc: the first free block of pageref r, whose fields are p.
DoAlloc(t, r, p) ==
  /\ pr' = [pr EXCEPT ![r] = WithFreelist(p, Tail(p.freelist), p.nfree - 1)]
  /\ held' = held \cup {[page |-> p.page, off |-> Head(p.freelist)]}
  /\ KASSERT((p.nfree = 1) = (Len(p.freelist) = 1), "doalloc: nfree")
  /\ Return(t)

\* The places in the list of its type of the pages with a free block.
Usable(b) == {i \in DOMAIN sizebases[b] : pr[sizebases[b][i]].nfree > 0}

\* A small request takes a block of the first page of its type that has one free.
Kmalloc(t, sz) ==
  /\ pc[t] = "idle"
  /\ sz < LARGEST_SUBPAGE_SIZE
  /\ LET b == blocktype(sz)
         r == sizebases[b][Min(Usable(b))]
     IN IF Usable(b) # {}
        THEN DoAlloc(t, r, pr[r]) /\ UNCHANGED <<kheaproots, inuse, sizebases, allbase>>
        ELSE /\ AllocKpages(t, Locals(b, NoFrame, <<0, 0>>, "newpage"))
             /\ UNCHANGED <<heap, held, panicked>>
  /\ UNCHANGED status

\* A large one takes a page.
KmallocPage(t, sz) ==
  /\ pc[t] = "idle"
  /\ sz >= LARGEST_SUBPAGE_SIZE
  /\ AllocKpages(t, Locals(1, NoFrame, <<0, 0>>, "bigpage"))
  /\ UNCHANGED <<status, heap, held, panicked>>

KmallocPageReturn(t) ==
  /\ pc[t] = "bigpage"
  /\ held' = held \cup {[page |-> loc[t].va, off |-> 0]}
  /\ Return(t)
  /\ UNCHANGED <<status, heap, panicked>>

\* Mutant: one block too many.
FreelistTooLong(b) == [i \in 1 .. NBlocks(b) + 1 |-> (NBlocks(b) + 1 - i) * sizes[b]]

\* The free list of a new page, from its last block to its first.
Freelist(b) == [i \in 1 .. NBlocks(b) |-> (NBlocks(b) - i) * sizes[b]]

\* The rest of subpage_kmalloc, with a page and a pageref for it.
UsePage(t, page, r) ==
  LET b == loc[t].blktype
      new == [page |-> page, blktype |-> b, freelist |-> Freelist(b), nfree |-> NBlocks(b)]
  IN /\ DoAlloc(t, r, new)
     /\ sizebases' = [sizebases EXCEPT ![b] = <<r>> \o @]
     /\ allbase' = <<r>> \o allbase

\* Mutant: the bit is not set.
SetBitNot(r) == UNCHANGED inuse

SetBit(r) == inuse' = inuse \cup {r}

\* Back from alloc_kpages: allocpageref.  A page of pagerefs that does not exist yet
\* is allocated without the lock, after the bit has been set.
NewPage(t) ==
  LET roots == {k \in Root : kheaproots[k].numinuse < NPAGEREFS_PER_PAGE}
      k == Min(roots)
      r == <<k, Min({i \in Ref : <<k, i>> \notin inuse})>>
  IN /\ pc[t] = "newpage"
     /\ IF roots = {}
        THEN Goto(t, "free_kpages") /\ UNCHANGED <<heap, loc, held, panicked>>
        ELSE /\ SetBit(r)
             /\ kheaproots' = [kheaproots EXCEPT ![k].numinuse = @ + 1]
             /\ IF kheaproots[k].page = NoFrame
                THEN /\ AllocKpages(t, Locals(loc[t].blktype, loc[t].va, r, "refpage"))
                     /\ UNCHANGED <<pr, sizebases, allbase, held, panicked>>
                ELSE UsePage(t, loc[t].va, r)
     /\ UNCHANGED status

\* Mutant: the test whether somebody else has allocated the page is left out.
SomebodyElseNot(k) == FALSE

SomebodyElse(k) == kheaproots[k].page # NoFrame

\* allocpagerefpage, back from alloc_kpages.
RefPage(t) ==
  LET k == RootOf(loc[t].pr)
  IN /\ pc[t] = "refpage"
     /\ IF SomebodyElse(k)
        THEN Goto(t, "spare") /\ UNCHANGED <<heap, loc, held, panicked>>
        ELSE /\ kheaproots' = [kheaproots EXCEPT ![k].page = loc[t].va]
             /\ UsePage(t, loc[t].prpage, loc[t].pr)
             /\ UNCHANGED inuse
     /\ UNCHANGED status

\* "Oops, somebody else allocated it": the page goes back, without the lock ...
FreeSpare(t) ==
  /\ pc[t] = "spare"
  /\ status' = [status EXCEPT ![loc[t].va] = "FREE"]
  /\ Goto(t, "spared")
  /\ UNCHANGED <<heap, loc, held, panicked>>

\* ... and kmalloc goes on with it.
RefPageThere(t) ==
  /\ pc[t] = "spared"
  /\ UsePage(t, loc[t].prpage, loc[t].pr)
  /\ UNCHANGED <<status, kheaproots, inuse>>

---------------------------------------------------------------------------
(* kfree.                                                                  *)

\* List s without r, if r is on it.
Unlink(s, r) ==
  LET i == CHOOSE j \in DOMAIN s : s[j] = r
  IN IF r \in Range(s) THEN SubSeq(s, 1, i - 1) \o SubSeq(s, i + 1, Len(s)) ELSE s

\* Mutant: a pageref whose page is gone stays on the list of its size.
RemoveFromAllOnly(r, b) ==
  /\ allbase' = Unlink(allbase, r)
  /\ UNCHANGED sizebases

remove_lists(r, b) ==
  /\ sizebases' = [sizebases EXCEPT ![b] = Unlink(@, r)]
  /\ allbase' = Unlink(allbase, r)

freepageref(r) ==
  /\ inuse' = inuse \ {r}
  /\ kheaproots' = [kheaproots EXCEPT ![RootOf(r)].numinuse = @ - 1]

\* What freepageref asserts, of the roots it passes and of the one it stops at.
FreepagerefAsserts(r) ==
  /\ \A k \in 0 .. RootOf(r) : kheaproots[k].page = NoFrame => kheaproots[k].numinuse = 0
  /\ kheaproots[RootOf(r)].page # NoFrame
  /\ r \in inuse
  /\ kheaproots[RootOf(r)].numinuse > 0

\* subpage_kfree of x, a block of the page of r.  What a pageref that is freed holds
\* is overwritten before it is looked at again, and is left out.
FreeBlock(t, x, r) ==
  LET b == pr[r].blktype
      whole == pr[r].nfree + 1 = NBlocks(b)
  IN /\ pr' = [pr EXCEPT ![r] = IF whole THEN NoPageref
                ELSE WithFreelist(pr[r], <<x.off>> \o pr[r].freelist, pr[r].nfree + 1)]
     /\ KASSERT(/\ x.off % sizes[b] = 0
                /\ pr[r].freelist # <<>> => x.off # Head(pr[r].freelist)
                /\ pr[r].nfree < NBlocks(b)
                /\ whole => FreepagerefAsserts(r), "subpage_kfree")
     /\ IF whole
        THEN /\ remove_lists(r, b)
             /\ freepageref(r)
             /\ Goto(t, "free_kpages")
             /\ loc' = [loc EXCEPT ![t].va = pr[r].page]
        ELSE /\ Return(t)
             /\ UNCHANGED <<kheaproots, inuse, sizebases, allbase>>

\* The places in the list of all of the pages that x points into.
On(x) == {i \in DOMAIN allbase : pr[allbase[i]].page = x.page}

\* kfree: a pointer into no page of the list is that of a page.
Kfree(t, x) ==
  /\ pc[t] = "idle"
  /\ held' = held \ {x}
  /\ IF On(x) # {}
     THEN FreeBlock(t, x, allbase[Min(On(x))])
     ELSE /\ KASSERT(x.off = 0, "kfree: alignment")
          /\ loc' = [loc EXCEPT ![t].va = x.page]
          /\ Goto(t, "free_kpages")
          /\ UNCHANGED heap
  /\ UNCHANGED status

---------------------------------------------------------------------------

Step(t) ==
  \/ \E sz \in Size : Cardinality(held) < MaxHeld /\ (Kmalloc(t, sz) \/ KmallocPage(t, sz))
  \/ KmallocPageReturn(t)
  \/ GetppagesScan(t) \/ GetppagesMark(t) \/ FreeKpages(t)
  \/ NewPage(t) \/ RefPage(t) \/ FreeSpare(t) \/ RefPageThere(t)
  \/ \E x \in held : Kfree(t, x)

\* The frame that t has found, and is about to mark, has been marked since.
MarksTwice(t) == pc[t] = "mark" /\ status[loc[t].va] # "FREE"

Next ==
  /\ panicked = "no" /\ ~raced
  /\ \E t \in Thread : Step(t) /\ raced' = MarksTwice(t)

Spec == Init /\ [][Next]_vars

---------------------------------------------------------------------------
(* Properties.                                                             *)

\* Every variable has its type; a free list holds offsets within its page.
TypeOK ==
  /\ status \in [Frame -> {"FREE", "FIXED"}]
  /\ \A k \in Root : /\ kheaproots[k].page \in Frame \cup {NoFrame}
                     /\ kheaproots[k].numinuse \in 0 .. NPAGEREFS_PER_PAGE
  /\ inuse \subseteq Pageref
  /\ \A r \in Pageref : /\ pr[r].page \in Frame \cup {NoFrame}
                        /\ pr[r].freelist \in Seq(0 .. PAGE_SIZE - 1)
                        /\ pr[r].nfree \in 0 .. NBlocks(pr[r].blktype)
  /\ held \subseteq Pointer

Listed == Range(allbase)
WholePages == {x \in held : On(x) = {}}

\* The threads that have a page from alloc_kpages in va, in prpage.
HasVa(t) == pc[t] \in {"newpage", "bigpage", "refpage", "spare", "free_kpages"}
HasPrpage(t) == \/ pc[t] \in {"refpage", "spare", "spared"}
                \/ pc[t] \in {"getppages", "mark"} /\ loc[t].back = "refpage"

\* Those that hold frame f: a page of pagerefs, a page of blocks, a page kmalloc
\* returned whole, or a call of kmalloc or kfree on its way.
Users(f) ==
  {<<"root", k>> : k \in {k \in Root : kheaproots[k].page = f}} \cup
  {<<"blocks", r>> : r \in {r \in Listed : pr[r].page = f}} \cup
  {<<"page", x>> : x \in {x \in WholePages : x.page = f}} \cup
  {<<"va", t>> : t \in {t \in Thread : HasVa(t) /\ loc[t].va = f}} \cup
  {<<"prpage", t>> : t \in {t \in Thread : HasPrpage(t) /\ loc[t].prpage = f}}

\* A frame that is FIXED has one holder and one that is FREE has none.
FrameHasOneHolder ==
  \A f \in Frame : Cardinality(Users(f)) = (IF status[f] = "FIXED" THEN 1 ELSE 0)

\* getppages finding a frame for two calls is the only way to two holders: up to there,
\* whatever kmalloc and kfree do while the others run without the spinlock, no page is
\* given out twice, used after it was freed, or lost.
HeldOnceUnlessRaced == ~raced => FrameHasOneHolder

\* Every block of a page of blocks is on its free list, once, or with a client, and
\* nfree counts the list.
BlocksOf(r) ==
  LET client == {x.off : x \in {y \in held : y.page = pr[r].page}}
      blocks == {i * sizes[pr[r].blktype] : i \in 0 .. NBlocks(pr[r].blktype) - 1}
  IN /\ IsInjective(pr[r].freelist)
     /\ pr[r].nfree = Len(pr[r].freelist)
     /\ client \cup Range(pr[r].freelist) = blocks
     /\ client \cap Range(pr[r].freelist) = {}

\* As long as no frame was marked twice, kmalloc and kfree keep account of the heap:
\* no block is lost or given out twice; each pageref in a list is on that of all and
\* on that of its size, in a page that exists; the bits that are set are those of the
\* lists and of the calls that allocate a page of pagerefs without the lock, and
\* numinuse counts them.
HeapAccounted ==
  ~raced =>
    /\ \A r \in Listed : BlocksOf(r) /\ kheaproots[RootOf(r)].page # NoFrame
    /\ IsInjective(allbase)
    /\ \A b \in BlockType : /\ IsInjective(sizebases[b])
                            /\ Range(sizebases[b]) = {r \in Listed : pr[r].blktype = b}
    /\ inuse = Listed \cup {loc[t].pr : t \in {t \in Thread : HasPrpage(t)}}
    /\ \A k \in Root :
         kheaproots[k].numinuse = Cardinality({r \in inuse : RootOf(r) = k})

\* As long as no frame was marked twice, the assertions of kmalloc and kfree hold: a
\* panic is only for lack of memory.
AssertionsHold == ~raced => panicked \in {"no", "no more victims in the coremap"}
=============================================================================
