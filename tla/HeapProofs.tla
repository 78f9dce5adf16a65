----------------------------- MODULE HeapProofs -----------------------------
(***************************************************************************)
(* Theorems about Heap: its invariants hold as long as two calls of        *)
(* getppages do not overlap.  What kmalloc does with a new page, and kfree *)
(* with any, keeps the inductive invariant too.                            *)
(***************************************************************************)
EXTENDS HeapInvariant

\* The provers that a step is given to, one after the other, and their time in seconds.
USE SMTT(30), Z3T(30), ZenonT(20)

---------------------------------------------------------------------------
(* kfree.                                                                  *)

\* A page that was given out whole.
LEMMA KfreePage ==
  ASSUME HeapInv, NEW t \in Thread, NEW x \in held, pc[t] = "idle", On(x) = {},
         held' = held \ {x}, KASSERT(x.off = 0, "kfree: alignment"),
         loc' = [loc EXCEPT ![t].va = x.page], Goto(t, "free_kpages"),
         UNCHANGED heap, UNCHANGED status
  PROVE  HeapInv'
<1>1. /\ kheaproots' = kheaproots /\ inuse' = inuse /\ pr' = pr /\ sizebases' = sizebases
      /\ allbase' = allbase /\ status' = status
  BY Zenon DEF heap
<1>2. x \in WholePages /\ x \in Pointer
  BY Zenon DEF WholePages, HeapInv, HeapType
<1>3. x.page \in Frame /\ x.off = 0
  BY Zenon, <1>2, Pointers DEF HeapInv, BlocksInv
<1>4. PanicsInv'
  BY Zenon, <1>3 DEF KASSERT, PanicsInv
<1>5. /\ pc'[t] = "free_kpages" /\ loc'[t].va = x.page /\ ThreadsKept(t)
      /\ pc' \in [Thread -> Where] /\ loc' \in [Thread -> LocRecord]
      /\ HasVa(t)' /\ ~HasPrpage(t)'
  BY Zenon, <1>3, MovesToFree DEF HeapInv
<1>6. ~HasVa(t) /\ ~HasPrpage(t)
  BY Zenon, IdleHasNone
<1>7. HeapType'
  <2>1. held' \subseteq Pointer
    BY Zenon DEF HeapInv, HeapType
  <2> QED BY Zenon, <1>1, <1>5, <2>1 DEF HeapInv, HeapType
<1>8. Listed' = Listed /\ Listed \subseteq Pageref
  BY Zenon, <1>1, Lists DEF Listed, HeapInv
<1>9. \A y : y \in WholePages' <=> y \in WholePages /\ y # x
  <2>1. \A y : y \in WholePages' <=> y \in held' /\ \A s \in Listed' : pr'[s].page # y.page
    BY Zenon, <1>7, ListsAfter
  <2>2. \A y : y \in WholePages <=> y \in held /\ \A s \in Listed : pr[s].page # y.page
    BY Zenon, Lists DEF HeapInv
  <2> QED BY Zenon, <1>1, <1>8, <2>1, <2>2
<1>10. MarkInv' /\ CallInv' /\ PendingInv'
  <2>1. loc'[t].va \in Frame /\ Listed' \subseteq Listed
    BY Zenon, <1>3, <1>5, <1>8
  <2>2. \A k \in Root : kheaproots'[k].page = kheaproots[k].page
    BY Zenon, <1>1
  <2> QED BY Zenon, <1>5, <2>1, <2>2, FreeKept
<1>11. HoldersInv'
  <2>1. RootsKept({}) /\ BlocksKept({}) /\ PagesKept({x})
    BY Zenon, <1>1, <1>8, <1>9 DEF RootsKept, BlocksKept, PagesKept
  <2>2. x \notin WholePages'
    BY Zenon, <1>9
  <2>3. /\ <<"page", x>> \in Holder /\ Hold[<<"page", x>>] = x.page
        /\ Hold'[<<"page", x>>] = NoFrame
    BY Zenon, <1>2, <2>2, HoldOf
  <2>4. /\ <<"va", t>> \in Holder /\ Hold[<<"va", t>>] = NoFrame
        /\ Hold'[<<"va", t>>] = Hold[<<"page", x>>]
        /\ Hold'[<<"prpage", t>>] = Hold[<<"prpage", t>>]
    BY Zenon, <1>5, <1>6, <2>3, HoldOf
  <2>5. ASSUME NEW y \in Holder PROVE y = <<"page", x>> \/ y = <<"va", t>> \/ Hold'[y] = Hold[y]
    <3>1. Hold'[y] = Hold[y] \/ Concerned({}, {}, {x}, t, y)
      BY Zenon, <1>5, <2>1, Kept
    <3> QED BY Zenon, <2>4, <3>1 DEF Concerned
  <2> QED BY Zenon, <1>1, <2>3, <2>4, <2>5, HandoverStep DEF HeapInv
<1>12. BlocksInv'
  <2>1. ASSUME NEW s \in Listed' PROVE Account(held', pr'[s]) /\ pr'[s].page \in Frame
    <3>1. s \in Listed /\ pr[s].page \in Frame /\ Account(held, pr[s])
      BY Zenon, <1>8, BlocksBefore DEF HeapInv
    <3>2. x.page # pr[s].page
      BY Zenon, <3>1, Lists DEF HeapInv
    <3>3. Account(held \ {x}, pr[s])
      BY Zenon, <3>1, <3>2, AccountOther
    <3> QED BY Zenon, <1>1, <3>1, <3>3
  <2>2. \A s \in Pageref : s \notin Listed' => pr'[s] = NoPageref
    BY Zenon, <1>1, <1>8 DEF HeapInv, BlocksInv
  <2>3. \A y \in WholePages' : y.off = 0
    BY Zenon, <1>9 DEF HeapInv, BlocksInv
  <2> QED BY Zenon, <1>7, <2>1, <2>2, <2>3, BlocksAfter
<1>13. ListsInv' /\ RootsInv'
  BY Zenon, <1>1, <1>8 DEF HeapInv, ListsInv, RootsInv
<1>14. BitsInv'
  <2>1. Pending' = Pending
    BY Zenon, <1>5, <1>6, PendingSame
  <2> QED BY Zenon, <1>1, <1>8, <2>1 DEF HeapInv, BitsInv
<1> QED BY Zenon, <1>4, <1>7, <1>10, <1>11, <1>12, <1>13, <1>14 DEF HeapInv

\* The last block of a page: the page goes, and its pageref with it.
LEMMA KfreeLast ==
  ASSUME HeapInv, NEW t \in Thread, NEW x \in held, pc[t] = "idle", NEW r \in Listed,
         pr[r].page = x.page, \A y \in held : y.page = pr[r].page => y = x,
         held' = held \ {x}, pr' = [pr EXCEPT ![r] = NoPageref], PanicsInv',
         remove_lists(r, pr[r].blktype), freepageref(r),
         loc' = [loc EXCEPT ![t].va = pr[r].page], Goto(t, "free_kpages"), UNCHANGED status
  PROVE  HeapInv'
<1> DEFINE f == pr[r].page
           b == pr[r].blktype
<1>1. r \in Pageref /\ f \in Frame /\ b \in BlockType
  BY Zenon, BlocksBefore, PrFields DEF HeapInv
<1>2. /\ pr \in [Pageref -> PrRecord] /\ sizebases \in [BlockType -> Queue(Pageref)]
      /\ allbase \in Queue(Pageref) /\ Listed \subseteq Pageref
  BY Zenon, Lists DEF HeapInv, HeapType
<1>3. r \in inuse
  BY Zenon DEF HeapInv, BitsInv
<1>4. /\ inuse' = inuse \ {r} /\ inuse' \subseteq Pageref
      /\ kheaproots' \in [Root -> RootRecord]
      /\ \A j \in Root : kheaproots'[j].page = kheaproots[j].page
      /\ Counted(kheaproots', inuse')
  BY Zenon, <1>3, BitCleared
<1>5. NoPageref \in PrRecord
  <2>1. <<>> \in Queue(0 .. PAGE_SIZE - 1)
    BY Zenon, EmptyQueue
  <2>2. 1 \in BlockType
    BY Zenon, Firsts
  <2> QED BY <2>1, <2>2 DEF NoPageref, PrRecord
<1>6. /\ pr'[r] = NoPageref /\ \A s \in Pageref : s # r => pr'[s] = pr[s]
      /\ pr' \in [Pageref -> PrRecord]
  BY Zenon, <1>1, <1>2, <1>5
<1>7. allbase' \in Queue(Pageref) /\ Listed' = Listed \ {r}
  <2>1. r \in Range(allbase) /\ allbase' = Unlink(allbase, r)
    BY Zenon DEF Listed, remove_lists
  <2>2. /\ Unlink(allbase, r) \in Queue(Pageref)
        /\ Range(Unlink(allbase, r)) = Range(allbase) \ {r}
    BY Zenon, <1>2, <2>1, QueueUnlink
  <2> QED BY Zenon, <2>1, <2>2 DEF Listed
<1> DEFINE l == Unlink(sizebases[b], r)
<1>8. /\ sizebases[b] \in Queue(Pageref)
      /\ Range(sizebases[b]) = {s \in Listed : pr[s].blktype = b}
  BY Zenon, <1>1, <1>2 DEF HeapInv, ListsInv
<1>9. l \in Queue(Pageref) /\ Range(l) = Range(sizebases[b]) \ {r}
  <2>1. r \in Range(sizebases[b])
    BY Zenon, <1>8
  <2> QED BY Zenon, <1>8, <2>1, QueueUnlink
<1>10. sizebases' = [sizebases EXCEPT ![b] = l]
  BY Zenon DEF remove_lists
<1>11. /\ pc'[t] = "free_kpages" /\ loc'[t].va = f /\ ThreadsKept(t)
       /\ pc' \in [Thread -> Where] /\ loc' \in [Thread -> LocRecord]
       /\ HasVa(t)' /\ ~HasPrpage(t)'
  BY Zenon, <1>1, MovesToFree DEF HeapInv
<1> HIDE DEF l, b, f
<1>12. /\ sizebases' \in [BlockType -> Queue(Pageref)] /\ sizebases'[b] = l
       /\ \A c \in BlockType : c # b => sizebases'[c] = sizebases[c]
  BY Zenon, <1>1, <1>2, <1>9, <1>10
<1>13. ~HasVa(t) /\ ~HasPrpage(t)
  BY Zenon, IdleHasNone
<1>14. HeapType'
  <2>1. held' \subseteq Pointer /\ status' \in [Frame -> {"FREE", "FIXED"}]
    BY Zenon DEF HeapInv, HeapType
  <2> QED BY Zenon, <1>4, <1>6, <1>7, <1>11, <1>12, <2>1 DEF HeapType
<1>15. \A s \in Listed : s # r => pr'[s] = pr[s] /\ pr[s].page # f
  BY Zenon, <1>2, <1>6, OnePageref DEF f
<1>16. \A y : y \in WholePages' <=> y \in WholePages
  <2>1. \A y : y \in WholePages' <=> y \in held' /\ \A s \in Listed' : pr'[s].page # y.page
    BY Zenon, <1>14, ListsAfter
  <2>2. \A y : y \in WholePages <=> y \in held /\ \A s \in Listed : pr[s].page # y.page
    BY Zenon, Lists DEF HeapInv
  <2>3. ASSUME NEW y \in WholePages' PROVE y \in WholePages
    <3>1. y \in held /\ y # x /\ \A s \in Listed' : pr'[s].page # y.page
      BY Zenon, <2>1
    <3>2. pr[r].page # y.page
      BY Zenon, <3>1
    <3>3. \A s \in Listed : pr[s].page # y.page
      BY Zenon, <1>7, <1>15, <3>1, <3>2
    <3> QED BY Zenon, <2>2, <3>1, <3>3
  <2>4. ASSUME NEW y \in WholePages PROVE y \in WholePages'
    <3>1. y \in held /\ \A s \in Listed : pr[s].page # y.page
      BY Zenon, <2>2
    <3>2. y # x
      BY Zenon, <3>1
    <3>3. \A s \in Listed' : pr'[s].page # y.page
      BY Zenon, <1>7, <1>15, <3>1
    <3> QED BY Zenon, <2>1, <3>1, <3>2, <3>3
  <2> QED BY Zenon, <2>3, <2>4
<1>17. MarkInv' /\ CallInv' /\ PendingInv'
  <2>1. loc'[t].va \in Frame /\ Listed' \subseteq Listed
    BY Zenon, <1>1, <1>7, <1>11
  <2> QED BY Zenon, <1>4, <1>11, <2>1, FreeKept
<1>18. HoldersInv'
  <2>1. RootsKept({}) /\ BlocksKept({r}) /\ PagesKept({})
    BY Zenon, <1>4, <1>7, <1>15, <1>16 DEF RootsKept, BlocksKept, PagesKept
  <2>2. r \notin Listed'
    BY Zenon, <1>7
  <2>3. /\ <<"blocks", r>> \in Holder /\ Hold[<<"blocks", r>>] = f
        /\ Hold'[<<"blocks", r>>] = NoFrame
    BY Zenon, <1>1, <2>2, HoldOf DEF f
  <2>4. /\ <<"va", t>> \in Holder /\ Hold[<<"va", t>>] = NoFrame
        /\ Hold'[<<"va", t>>] = Hold[<<"blocks", r>>]
        /\ Hold'[<<"prpage", t>>] = Hold[<<"prpage", t>>]
    <3>1. HasVa(t)' /\ ~HasPrpage(t)' /\ loc'[t].va = Hold[<<"blocks", r>>]
      BY Zenon, <1>11, <2>3
    <3>2. <<"va", t>> \in Holder /\ Hold[<<"va", t>>] = NoFrame
      BY Zenon, <1>13, HoldOf
    <3>3. Hold'[<<"va", t>>] = loc'[t].va
      BY Zenon, <3>1, HoldOf
    <3>4. Hold'[<<"prpage", t>>] = NoFrame
      BY Zenon, <3>1, HoldOf
    <3>5. Hold[<<"prpage", t>>] = NoFrame
      BY Zenon, <1>13, HoldOf
    <3> QED BY Zenon, <3>1, <3>2, <3>3, <3>4, <3>5
  <2>5. ASSUME NEW y \in Holder PROVE y = <<"blocks", r>> \/ y = <<"va", t>> \/ Hold'[y] = Hold[y]
    <3>1. Hold'[y] = Hold[y] \/ Concerned({}, {r}, {}, t, y)
      BY Zenon, <1>11, <2>1, Kept
    <3> QED BY Zenon, <2>4, <3>1 DEF Concerned
  <2> QED BY Zenon, <2>3, <2>4, <2>5, HandoverStep DEF HeapInv
<1>19. BlocksInv'
  <2>1. ASSUME NEW s \in Listed' PROVE Account(held', pr'[s]) /\ pr'[s].page \in Frame
    <3>1. s \in Listed /\ s # r /\ pr[s].page \in Frame /\ Account(held, pr[s])
      BY Zenon, <1>7, BlocksBefore DEF HeapInv
    <3>2. x.page # pr[s].page
      BY Zenon, <1>15, <3>1 DEF f
    <3>3. Account(held \ {x}, pr[s])
      BY Zenon, <3>1, <3>2, AccountOther
    <3> QED BY Zenon, <1>15, <3>1, <3>3
  <2>2. \A s \in Pageref : s \notin Listed' => pr'[s] = NoPageref
    BY Zenon, <1>6, <1>7 DEF HeapInv, BlocksInv
  <2>3. \A y \in WholePages' : y.off = 0
    BY Zenon, <1>16 DEF HeapInv, BlocksInv
  <2> QED BY Zenon, <1>14, <2>1, <2>2, <2>3, BlocksAfter
<1>20. ListsInv'
  <2>1. ASSUME NEW c \in BlockType
        PROVE  Range(sizebases'[c]) = {s \in Listed' : pr'[s].blktype = c}
    <3>1. Range(sizebases[c]) = {s \in Listed : pr[s].blktype = c}
      BY Zenon DEF HeapInv, ListsInv
    <3>2. CASE c = b
      <4>1. Range(sizebases'[c]) = {s \in Listed : pr[s].blktype = c} \ {r}
        BY Zenon, <1>9, <1>12, <3>1, <3>2
      <4> QED BY Zenon, <1>7, <1>15, <4>1
    <3>3. CASE c # b
      <4>1. Range(sizebases'[c]) = {s \in Listed : pr[s].blktype = c}
        BY Zenon, <1>12, <3>1, <3>3
      <4>2. pr[r].blktype # c
        BY Zenon, <3>3 DEF b
      <4> QED BY Zenon, <1>7, <1>15, <4>1, <4>2
    <3> QED BY Zenon, <3>2, <3>3
  <2> QED BY Zenon, <2>1 DEF ListsInv
<1>21. RootsInv'
  <2>1. ASSUME NEW s \in Listed' PROVE kheaproots'[RootOf(s)].page # NoFrame
    <3>1. s \in Listed /\ s \in Pageref /\ kheaproots[RootOf(s)].page # NoFrame
      BY Zenon, <1>2, <1>7 DEF HeapInv, RootsInv
    <3>2. RootOf(s) \in Root
      BY <3>1 DEF Pageref, RootOf
    <3> QED BY Zenon, <1>4, <3>1, <3>2
  <2>2. \A s \in inuse' : \A j \in Root : j < RootOf(s) => kheaproots'[j].page # NoFrame
    BY Zenon, <1>4 DEF HeapInv, RootsInv
  <2> QED BY Zenon, <2>1, <2>2 DEF RootsInv
<1>22. BitsInv'
  <2>1. Pending' = Pending
    BY Zenon, <1>11, <1>13, PendingSame
  <2>2. r \notin Pending
    BY Zenon DEF Pending, HeapInv, CallInv
  <2>3. inuse' = Listed' \cup Pending'
    BY Zenon, <1>4, <1>7, <2>1, <2>2 DEF HeapInv, BitsInv
  <2> QED BY Zenon, <1>4, <2>3 DEF BitsInv, Counted
<1> QED BY Zenon, <1>14, <1>17, <1>18, <1>19, <1>20, <1>21, <1>22 DEF HeapInv

\* kfree of a block, of the last block of a page and of a whole page.
LEMMA KfreeStep ==
  ASSUME HeapInv, NEW t \in Thread, NEW x \in held, Kfree(t, x)
  PROVE  HeapInv'
<1>1. pc[t] = "idle" /\ held' = held \ {x} /\ UNCHANGED status
  BY Zenon DEF Kfree
<1>2. CASE On(x) = {}
  <2>1. /\ KASSERT(x.off = 0, "kfree: alignment") /\ loc' = [loc EXCEPT ![t].va = x.page]
        /\ Goto(t, "free_kpages") /\ UNCHANGED heap
    BY Zenon, <1>2 DEF Kfree
  <2> QED BY Zenon, <1>1, <1>2, <2>1, KfreePage
<1>3. CASE On(x) # {}
  <2> DEFINE r == allbase[Min(On(x))]
             b == pr[r].blktype
             whole == pr[r].nfree + 1 = NBlocks(b)
             q == WithFreelist(pr[r], <<x.off>> \o pr[r].freelist, pr[r].nfree + 1)
  <2>1. FreeBlock(t, x, r)
    BY Zenon, <1>3 DEF Kfree
  <2>2. r \in Listed /\ pr[r].page = x.page
    BY Zenon, <1>3, Lists DEF HeapInv
  <2> HIDE DEF r
  <2>3. /\ r \in Pageref /\ pr[r] \in PrRecord /\ pr[r].page \in Frame /\ Account(held, pr[r])
        /\ held \in SUBSET Pointer
    BY Zenon, <2>2, BlocksBefore DEF HeapInv, HeapType
  <2>4. /\ x.off % sizes[b] = 0
        /\ pr[r].freelist # <<>> => x.off # Head(pr[r].freelist)
        /\ pr[r].nfree < NBlocks(b)
        /\ whole => \A y \in held : y.page = pr[r].page => y = x
        /\ q \in PrRecord /\ q.page = pr[r].page /\ q.blktype = b
        /\ Account(held \ {x}, q)
    <3>1. x.page = pr[r].page
      BY Zenon, <2>2
    <3> QED BY Zenon, <2>3, <3>1, AccountGive
  <2>5. /\ pr' = [pr EXCEPT ![r] = IF whole THEN NoPageref ELSE q]
        /\ KASSERT(/\ x.off % sizes[b] = 0
                   /\ pr[r].freelist # <<>> => x.off # Head(pr[r].freelist)
                   /\ pr[r].nfree < NBlocks(b)
                   /\ whole => FreepagerefAsserts(r), "subpage_kfree")
        /\ IF whole
           THEN /\ remove_lists(r, b) /\ freepageref(r) /\ Goto(t, "free_kpages")
                /\ loc' = [loc EXCEPT ![t].va = pr[r].page]
           ELSE Return(t) /\ UNCHANGED <<kheaproots, inuse, sizebases, allbase>>
    BY Zenon, <2>1 DEF FreeBlock
  <2>6. CASE ~whole
    <3>1. PanicsInv'
      BY Zenon, <2>4, <2>5, <2>6 DEF KASSERT, PanicsInv
    <3>2. /\ pr' = [pr EXCEPT ![r] = q] /\ Return(t)
          /\ UNCHANGED <<kheaproots, inuse, sizebases, allbase, status>>
      BY Zenon, <1>1, <2>5, <2>6
    <3>3. x \in Pointer /\ x.page = pr[r].page /\ Account(held', q)
      BY Zenon, <1>1, <2>2, <2>3, <2>4
    <3> HIDE DEF q
    <3> QED BY Zenon, <1>1, <2>2, <2>4, <3>1, <3>2, <3>3, BlockStep
  <2>7. CASE whole
    <3>1. remove_lists(r, b) /\ freepageref(r) /\ Goto(t, "free_kpages")
          /\ loc' = [loc EXCEPT ![t].va = pr[r].page] /\ pr' = [pr EXCEPT ![r] = NoPageref]
      BY Zenon, <2>5, <2>7
    <3>2. r \in inuse
      BY Zenon, <2>2 DEF HeapInv, BitsInv
    <3>3. RootOf(r) \in Root /\ kheaproots[RootOf(r)].numinuse > 0
      BY Zenon, <3>1, <3>2, BitCleared
    <3>4. kheaproots[RootOf(r)].page # NoFrame
      BY Zenon, <2>2 DEF HeapInv, RootsInv
    <3>5. \A k \in 0 .. RootOf(r) : kheaproots[k].page # NoFrame
      <4>1. \A k \in Root : k < RootOf(r) => kheaproots[k].page # NoFrame
        BY Zenon, <3>2 DEF HeapInv, RootsInv
      <4>2. \A k \in 0 .. RootOf(r) : k = RootOf(r) \/ (k \in Root /\ k < RootOf(r))
        BY <3>3, HeapAssumption DEF Root
      <4> QED BY Zenon, <3>4, <4>1, <4>2
    <3>6. FreepagerefAsserts(r)
      BY Zenon, <3>2, <3>3, <3>4, <3>5 DEF FreepagerefAsserts
    <3>7. PanicsInv'
      BY Zenon, <2>4, <2>5, <3>6 DEF KASSERT, PanicsInv
    <3>8. \A y \in held : y.page = pr[r].page => y = x
      BY Zenon, <2>4, <2>7
    <3> QED BY Zenon, <1>1, <2>2, <3>1, <3>7, <3>8, KfreeLast
  <2> QED BY Zenon, <2>6, <2>7
<1> QED BY Zenon, <1>2, <1>3

---------------------------------------------------------------------------
(* A page from alloc_kpages is put to use.                                 *)

\* kmalloc returns a whole page, which the client then holds.
LEMMA KmallocPageReturnStep ==
  ASSUME HeapInv, NEW t \in Thread, KmallocPageReturn(t)
  PROVE  HeapInv'
<1> DEFINE f == loc[t].va
           x == [page |-> f, off |-> 0]
<1>1. /\ pc[t] = "bigpage" /\ held' = held \cup {x} /\ Return(t)
      /\ kheaproots' = kheaproots /\ inuse' = inuse /\ pr' = pr /\ sizebases' = sizebases
      /\ allbase' = allbase /\ status' = status /\ panicked' = panicked
  BY Zenon DEF KmallocPageReturn, heap
<1>2. HasVa(t) /\ ~HasPrpage(t)
  BY <1>1 DEF HasVa, HasPrpage
<1>3. f \in Frame
  BY Zenon, <1>2 DEF HeapInv, CallInv
<1> HIDE DEF f
<1>4. x \in Pointer /\ x.page = f /\ x.off = 0
  <2>1. 0 \in Offset
    BY HeapAssumption DEF Offset
  <2> QED BY Zenon, <1>3, <2>1, Pointers
<1> HIDE DEF x
<1>5. /\ pc'[t] = "idle" /\ ThreadsKept(t) /\ ~HasVa(t)' /\ ~HasPrpage(t)'
      /\ pc' \in [Thread -> Where] /\ loc' \in [Thread -> LocRecord]
  BY Zenon, <1>1, MovesHome DEF HeapInv
<1>6. HeapType'
  <2>1. held' \subseteq Pointer
    BY Zenon, <1>1, <1>4 DEF HeapInv, HeapType
  <2> QED BY Zenon, <1>1, <1>5, <2>1 DEF HeapInv, HeapType
<1>7. <<"va", t>> \in Holder /\ Hold[<<"va", t>>] = f /\ Hold'[<<"va", t>>] = NoFrame
      /\ Hold'[<<"prpage", t>>] = Hold[<<"prpage", t>>]
  BY Zenon, <1>2, <1>5, HoldOf DEF f
<1>8. (\A r \in Listed : pr[r].page # f) /\ (\A y \in held : y.page # f)
  BY Zenon, <1>3, <1>7, NobodyElse
<1>9. Listed' = Listed /\ Listed \subseteq Pageref
  BY Zenon, <1>1, Lists DEF Listed, HeapInv
<1>10. \A y : y \in WholePages' <=> y \in WholePages \/ y = x
  <2>1. \A y : y \in WholePages' <=> y \in held' /\ \A r \in Listed' : pr'[r].page # y.page
    BY Zenon, <1>6, ListsAfter
  <2>2. \A y : y \in WholePages <=> y \in held /\ \A r \in Listed : pr[r].page # y.page
    BY Zenon, Lists DEF HeapInv
  <2> QED BY ZenonT(60), <1>1, <1>4, <1>8, <1>9, <2>1, <2>2
<1>11. MarkInv' /\ CallInv' /\ PendingInv'
  <2>1. \A u \in Thread : HasPrpage(u) => loc[u].pr \notin Listed'
    BY Zenon, <1>9 DEF HeapInv, CallInv
  <2> QED BY Zenon, <1>1, <2>1, ReturnKept
<1>12. HoldersInv'
  <2>1. RootsKept({}) /\ BlocksKept({}) /\ PagesKept({x})
    BY Zenon, <1>1, <1>9, <1>10 DEF RootsKept, BlocksKept, PagesKept
  <2>2. x \notin WholePages /\ x \in WholePages'
    BY Zenon, <1>4, <1>8, <1>10 DEF WholePages
  <2>3. /\ <<"page", x>> \in Holder /\ Hold[<<"page", x>>] = NoFrame
        /\ Hold'[<<"page", x>>] = Hold[<<"va", t>>]
    BY Zenon, <1>4, <1>7, <2>2, HoldOf
  <2>4. ASSUME NEW y \in Holder PROVE y = <<"va", t>> \/ y = <<"page", x>> \/ Hold'[y] = Hold[y]
    <3>1. Hold'[y] = Hold[y] \/ Concerned({}, {}, {x}, t, y)
      BY Zenon, <1>5, <2>1, Kept
    <3> QED BY Zenon, <1>7, <3>1 DEF Concerned
  <2> QED BY Zenon, <1>1, <1>7, <2>3, <2>4, HandoverStep DEF HeapInv
<1>13. BlocksInv'
  <2>1. ASSUME NEW s \in Listed' PROVE Account(held', pr'[s]) /\ pr'[s].page \in Frame
    <3>1. s \in Listed /\ pr[s].page \in Frame /\ Account(held, pr[s])
      BY Zenon, <1>9, BlocksBefore DEF HeapInv
    <3>2. x.page # pr[s].page
      BY Zenon, <1>4, <1>8, <3>1
    <3>3. Account(held \cup {x}, pr[s])
      BY Zenon, <3>1, <3>2, AccountOther
    <3> QED BY Zenon, <1>1, <3>1, <3>3
  <2>2. \A s \in Pageref : s \notin Listed' => pr'[s] = NoPageref
    BY Zenon, <1>1, <1>9 DEF HeapInv, BlocksInv
  <2>3. \A y \in WholePages' : y.off = 0
    BY Zenon, <1>4, <1>10 DEF HeapInv, BlocksInv
  <2> QED BY Zenon, <1>6, <2>1, <2>2, <2>3, BlocksAfter
<1>14. ListsInv' /\ RootsInv' /\ PanicsInv'
  BY Zenon, <1>1, <1>9 DEF HeapInv, ListsInv, RootsInv, PanicsInv
<1>15. BitsInv'
  <2>1. Pending' = Pending
    BY Zenon, <1>2, <1>5, PendingSame
  <2> QED BY Zenon, <1>1, <1>9, <2>1 DEF HeapInv, BitsInv
<1> QED BY Zenon, <1>6, <1>11, <1>12, <1>13, <1>14, <1>15 DEF HeapInv

HasFor(t, p) == Hold[<<"va", t>>] = p \/ Hold[<<"prpage", t>>] = p

Put(t, p, r) ==
  /\ HeapType' /\ BlocksInv' /\ ListsInv' /\ PanicsInv'
  /\ Listed' = Listed \cup {r} /\ pr'[r].page = p
  /\ BlocksKept({r}) /\ PagesKept({}) /\ ThreadsKept(t) /\ Return(t)
  /\ ~HasVa(t)' /\ ~HasPrpage(t)'

\* subpage_kmalloc with a page and a pageref for it: what it does to the lists and to
\* the account of blocks.
LEMMA UsePageStep ==
  ASSUME HeapInv, NEW t \in Thread, NEW p \in Frame, NEW r \in Pageref, r \notin Listed,
         HasFor(t, p), UsePage(t, p, r),
         UNCHANGED status, kheaproots' \in [Root -> RootRecord], inuse' \subseteq Pageref
  PROVE  Put(t, p, r)
<1> DEFINE b == loc[t].blktype
           n == [page |-> p, blktype |-> b, freelist |-> Freelist(b), nfree |-> NBlocks(b)]
           q == WithFreelist(n, Tail(n.freelist), n.nfree - 1)
           x == [page |-> n.page, off |-> Head(n.freelist)]
<1>1. /\ pr' = [pr EXCEPT ![r] = q] /\ held' = held \cup {x} /\ Return(t)
      /\ KASSERT((n.nfree = 1) = (Len(n.freelist) = 1), "doalloc: nfree")
      /\ sizebases' = [sizebases EXCEPT ![b] = <<r>> \o @] /\ allbase' = <<r>> \o allbase
  BY Zenon DEF UsePage, DoAlloc
<1>2. b \in BlockType
  BY Zenon, LocFields DEF HeapInv, HeapType
<1>3. (\A s \in Listed : pr[s].page # p) /\ (\A y \in held : y.page # p)
  BY Zenon, NobodyElse DEF HasFor
<1>4. held \in SUBSET Pointer /\ pr \in [Pageref -> PrRecord]
      /\ sizebases \in [BlockType -> Queue(Pageref)] /\ allbase \in Queue(Pageref)
  BY Zenon DEF HeapInv, HeapType
<1> HIDE DEF b
<1>5. n \in PrRecord /\ n.page = p /\ n.blktype = b /\ n.nfree > 0 /\ Account(held, n)
  BY Zenon, <1>2, <1>3, <1>4, AccountNew
<1> HIDE DEF n
<1>6. /\ q \in PrRecord /\ q.page = p /\ q.blktype = b
      /\ x \in Pointer \ held /\ x.page = p
      /\ Account(held \cup {x}, q)
      /\ (n.nfree = 1) = (Len(n.freelist) = 1)
  <2>1. n.page \in Frame
    BY Zenon, <1>5
  <2>2. /\ q \in PrRecord /\ q.page = n.page /\ q.blktype = n.blktype
        /\ x \in Pointer \ held /\ x.page = n.page
        /\ Account(held \cup {x}, q)
        /\ (n.nfree = 1) = (Len(n.freelist) = 1)
    BY Zenon, <1>4, <1>5, <2>1, AccountTake
  <2> HIDE DEF q, x
  <2> QED BY Zenon, <1>5, <2>2
<1> HIDE DEF q, x
<1>7. PanicsInv'
  BY Zenon, <1>1, <1>6 DEF KASSERT, PanicsInv
<1>8. /\ pr'[r] = q /\ \A s \in Pageref : s # r => pr'[s] = pr[s]
      /\ pr' \in [Pageref -> PrRecord]
  BY Zenon, <1>1, <1>4, <1>6
<1>9. allbase' \in Queue(Pageref) /\ Listed' = Listed \cup {r}
  <2>1. r \notin Range(allbase)
    BY Zenon DEF Listed
  <2>2. <<r>> \o allbase \in Queue(Pageref) /\ Range(<<r>> \o allbase) = {r} \cup Range(allbase)
    BY Zenon, <1>4, <2>1, QueuePush
  <2>3. Listed' = {r} \cup Listed
    BY Zenon, <1>1, <2>2 DEF Listed
  <2> QED BY Zenon, <1>1, <2>2, <2>3
<1> DEFINE l == <<r>> \o sizebases[b]
<1>10. /\ sizebases[b] \in Queue(Pageref)
       /\ Range(sizebases[b]) = {s \in Listed : pr[s].blktype = b}
  BY Zenon, <1>2, <1>4 DEF HeapInv, ListsInv
<1>11. l \in Queue(Pageref) /\ Range(l) = {r} \cup Range(sizebases[b])
  <2>1. r \notin Range(sizebases[b])
    BY Zenon, <1>10
  <2> QED BY Zenon, <1>10, <2>1, QueuePush
<1>12. sizebases' = [sizebases EXCEPT ![b] = l]
  BY Zenon, <1>1
<1> HIDE DEF l
<1>13. /\ sizebases' \in [BlockType -> Queue(Pageref)] /\ sizebases'[b] = l
       /\ \A c \in BlockType : c # b => sizebases'[c] = sizebases[c]
  BY Zenon, <1>2, <1>4, <1>11, <1>12
<1>14. /\ pc'[t] = "idle" /\ ThreadsKept(t) /\ ~HasVa(t)' /\ ~HasPrpage(t)'
       /\ pc' \in [Thread -> Where] /\ loc' \in [Thread -> LocRecord]
  BY Zenon, <1>1, MovesHome DEF HeapInv
<1>15. HeapType'
  <2>1. held' \subseteq Pointer
    BY Zenon, <1>1, <1>4, <1>6
  <2>2. status' \in [Frame -> {"FREE", "FIXED"}]
    BY Zenon DEF HeapInv, HeapType
  <2> QED BY Zenon, <1>8, <1>9, <1>13, <1>14, <2>1, <2>2 DEF HeapType
<1>16. Listed \subseteq Pageref
  BY Zenon, Lists DEF HeapInv
<1>17. BlocksKept({r})
  BY Zenon, <1>8, <1>9 DEF BlocksKept
<1>18. \A y : y \in WholePages' <=> y \in WholePages
  <2>1. \A y : y \in WholePages' <=> y \in held' /\ \A s \in Listed' : pr'[s].page # y.page
    BY Zenon, <1>15, ListsAfter
  <2>2. \A y : y \in WholePages <=> y \in held /\ \A s \in Listed : pr[s].page # y.page
    BY Zenon, Lists DEF HeapInv
  <2>3. \A s \in Listed : s # r /\ pr'[s] = pr[s]
    BY Zenon, <1>8, <1>16
  <2>4. ASSUME NEW y \in WholePages' PROVE y \in WholePages
    <3>1. y \in held' /\ \A s \in Listed' : pr'[s].page # y.page
      BY Zenon, <2>1
    <3>2. y # x
      BY Zenon, <1>6, <1>8, <1>9, <3>1
    <3>3. \A s \in Listed : pr[s].page # y.page
      BY Zenon, <1>9, <2>3, <3>1
    <3> QED BY Zenon, <1>1, <2>2, <3>1, <3>2, <3>3
  <2>5. ASSUME NEW y \in WholePages PROVE y \in WholePages'
    <3>1. y \in held /\ \A s \in Listed : pr[s].page # y.page
      BY Zenon, <2>2
    <3>2. \A s \in Listed' : pr'[s].page # y.page
      BY Zenon, <1>3, <1>6, <1>8, <1>9, <2>3, <3>1
    <3> QED BY Zenon, <1>1, <2>1, <3>1, <3>2
  <2> QED BY Zenon, <2>4, <2>5
<1>19. PagesKept({})
  BY Zenon, <1>18 DEF PagesKept
<1>20. BlocksInv'
  <2>1. ASSUME NEW s \in Listed' PROVE Account(held', pr'[s]) /\ pr'[s].page \in Frame
    <3>1. CASE s = r
      BY Zenon, <1>1, <1>6, <1>8, <3>1
    <3>2. CASE s # r
      <4>1. s \in Listed /\ s \in Pageref /\ pr[s].page \in Frame /\ Account(held, pr[s])
        BY Zenon, <1>9, <3>2, BlocksBefore DEF HeapInv
      <4>2. x.page # pr[s].page
        BY Zenon, <1>3, <1>6, <4>1
      <4>3. Account(held \cup {x}, pr[s])
        BY Zenon, <4>1, <4>2, AccountOther
      <4> QED BY Zenon, <1>1, <1>8, <3>2, <4>1, <4>3
    <3> QED BY Zenon, <3>1, <3>2
  <2>2. \A s \in Pageref : s \notin Listed' => pr'[s] = NoPageref
    BY Zenon, <1>8, <1>9 DEF HeapInv, BlocksInv
  <2>3. \A y \in WholePages' : y.off = 0
    BY Zenon, <1>18 DEF HeapInv, BlocksInv
  <2> QED BY Zenon, <1>15, <2>1, <2>2, <2>3, BlocksAfter
<1>21. ListsInv'
  <2>1. ASSUME NEW c \in BlockType
        PROVE  Range(sizebases'[c]) = {s \in Listed' : pr'[s].blktype = c}
    <3>1. Range(sizebases[c]) = {s \in Listed : pr[s].blktype = c}
      BY Zenon DEF HeapInv, ListsInv
    <3>2. \A s \in Listed : s # r /\ pr'[s] = pr[s]
      BY Zenon, <1>8, <1>16
    <3>3. CASE c = b
      <4>1. Range(sizebases'[c]) = {r} \cup {s \in Listed : pr[s].blktype = c}
        BY Zenon, <1>11, <1>13, <3>1, <3>3
      <4> QED BY Zenon, <1>6, <1>8, <1>9, <3>2, <3>3, <4>1
    <3>4. CASE c # b
      <4>1. Range(sizebases'[c]) = {s \in Listed : pr[s].blktype = c}
        BY Zenon, <1>13, <3>1, <3>4
      <4> QED BY Zenon, <1>6, <1>8, <1>9, <3>2, <3>4, <4>1
    <3> QED BY Zenon, <3>3, <3>4
  <2> QED BY Zenon, <2>1 DEF ListsInv
<1> QED BY Zenon, <1>1, <1>6, <1>7, <1>8, <1>9, <1>14, <1>15, <1>17, <1>19, <1>20, <1>21 DEF Put

\* allocpagerefpage, somebody else's page being there.
LEMMA RefPageThereStep ==
  ASSUME HeapInv, NEW t \in Thread, RefPageThere(t)
  PROVE  HeapInv'
<1> DEFINE p == loc[t].prpage
           r == loc[t].pr
<1>1. /\ pc[t] = "spared" /\ UsePage(t, p, r)
      /\ status' = status /\ kheaproots' = kheaproots /\ inuse' = inuse
  BY Zenon DEF RefPageThere
<1>2. ~HasVa(t) /\ HasPrpage(t)
  BY <1>1 DEF HasVa, HasPrpage
<1>3. p \in Frame /\ r \notin Listed /\ kheaproots[RootOf(r)].page # NoFrame
  BY Zenon, <1>1, <1>2 DEF HeapInv, CallInv
<1>4. r \in Pageref
  BY Zenon, LocFields DEF HeapInv, HeapType
<1>5. r \in Pending
  BY Zenon, <1>2 DEF Pending
<1>6. \A u \in Thread : u # t /\ HasPrpage(u) => loc[u].pr # r
  BY Zenon, <1>2 DEF HeapInv, PendingInv
<1>7. <<"prpage", t>> \in Holder /\ Hold[<<"prpage", t>>] = p
  BY Zenon, <1>2, HoldOf
<1>8. kheaproots' \in [Root -> RootRecord] /\ inuse' \subseteq Pageref
  BY Zenon, <1>1 DEF HeapInv, HeapType
<1> HIDE DEF p, r
<1>9. /\ HeapType' /\ BlocksInv' /\ ListsInv' /\ PanicsInv'
      /\ Listed' = Listed \cup {r} /\ pr'[r].page = p
      /\ BlocksKept({r}) /\ PagesKept({}) /\ ThreadsKept(t) /\ Return(t)
      /\ ~HasVa(t)' /\ ~HasPrpage(t)'
  <2>1. HasFor(t, p)
    BY Zenon, <1>7 DEF HasFor
  <2>2. Put(t, p, r)
    BY Zenon, <1>1, <1>3, <1>4, <1>8, <2>1, UsePageStep
  <2> QED BY Zenon, <2>2 DEF Put
<1>10. MarkInv' /\ CallInv' /\ PendingInv'
  <2>1. \A u \in Thread : u # t /\ HasPrpage(u) => loc[u].pr \notin Listed'
    BY Zenon, <1>6, <1>9 DEF HeapInv, CallInv
  <2> QED BY Zenon, <1>1, <1>9, <2>1, ReturnKept
<1>11. HoldersInv'
  <2>1. RootsKept({})
    BY Zenon, <1>1 DEF RootsKept
  <2>2. /\ Hold'[<<"va", t>>] = Hold[<<"va", t>>] /\ Hold'[<<"prpage", t>>] = NoFrame
    BY Zenon, <1>2, <1>9, HoldOf
  <2>3. r \in Listed'
    BY Zenon, <1>9
  <2>4. /\ <<"blocks", r>> \in Holder /\ Hold[<<"blocks", r>>] = NoFrame
        /\ Hold'[<<"blocks", r>>] = Hold[<<"prpage", t>>]
    BY Zenon, <1>3, <1>4, <1>7, <1>9, <2>3, HoldOf
  <2>5. ASSUME NEW y \in Holder
        PROVE  y = <<"prpage", t>> \/ y = <<"blocks", r>> \/ Hold'[y] = Hold[y]
    <3>1. Hold'[y] = Hold[y] \/ Concerned({}, {r}, {}, t, y)
      BY Zenon, <1>9, <2>1, Kept
    <3> QED BY Zenon, <2>2, <3>1 DEF Concerned
  <2> QED BY Zenon, <1>1, <1>7, <2>2, <2>4, <2>5, HandoverStep DEF HeapInv
<1>12. RootsInv'
  BY Zenon, <1>1, <1>3, <1>9 DEF HeapInv, RootsInv
<1>13. BitsInv'
  <2>1. Pending' = Pending \ {r}
    BY Zenon, <1>2, <1>9, PendingLess DEF HeapInv, r
  <2>2. inuse' = Listed' \cup Pending'
    BY Zenon, <1>1, <1>5, <1>9, <2>1 DEF HeapInv, BitsInv
  <2> QED BY Zenon, <1>1, <2>2 DEF HeapInv, BitsInv
<1> QED BY Zenon, <1>9, <1>10, <1>11, <1>12, <1>13 DEF HeapInv

\* allocpagerefpage, nobody else having allocated the page.
LEMMA RefPageUse ==
  ASSUME HeapInv, NEW t \in Thread, pc[t] = "refpage", ~SomebodyElse(RootOf(loc[t].pr)),
         kheaproots' = [kheaproots EXCEPT ![RootOf(loc[t].pr)].page = loc[t].va],
         UsePage(t, loc[t].prpage, loc[t].pr), UNCHANGED <<inuse, status>>
  PROVE  HeapInv'
<1> DEFINE p == loc[t].prpage
           r == loc[t].pr
           k == RootOf(r)
           f == loc[t].va
<1>1. status' = status /\ inuse' = inuse
  BY Zenon
<1>2. HasVa(t) /\ HasPrpage(t)
  BY DEF HasVa, HasPrpage
<1>3. p \in Frame /\ f \in Frame /\ r \notin Listed /\ kheaproots[k].page = NoFrame
  BY Zenon, <1>2 DEF HeapInv, CallInv, SomebodyElse
<1>4. r \in Pageref
  BY Zenon, LocFields DEF HeapInv, HeapType
<1>5. k \in Root
  BY <1>4 DEF Pageref, RootOf
<1>6. r \in Pending
  BY Zenon, <1>2 DEF Pending
<1>7. \A u \in Thread : u # t /\ HasPrpage(u) => loc[u].pr # r
  BY Zenon, <1>2 DEF HeapInv, PendingInv
<1>8. /\ <<"prpage", t>> \in Holder /\ Hold[<<"prpage", t>>] = p
      /\ <<"va", t>> \in Holder /\ Hold[<<"va", t>>] = f
  BY Zenon, <1>2, HoldOf
<1>9. UsePage(t, p, r) /\ kheaproots' = [kheaproots EXCEPT ![k].page = f]
  BY Zenon
<1> HIDE DEF p, r, k, f
<1>10. /\ kheaproots' \in [Root -> RootRecord] /\ kheaproots'[k].page = f
       /\ \A j \in Root : j # k => kheaproots'[j].page = kheaproots[j].page
       /\ \A j \in Root : kheaproots'[j].numinuse = kheaproots[j].numinuse
  BY Zenon, <1>3, <1>5, <1>9, SetRootPage DEF HeapInv
<1>11. f # NoFrame
  BY Zenon, <1>3, HeapAssumption
<1>12. \A j \in Root : kheaproots[j].page # NoFrame => kheaproots'[j].page # NoFrame
  BY Zenon, <1>10, <1>11
<1>13. inuse' \subseteq Pageref
  BY Zenon, <1>1 DEF HeapInv, HeapType
<1>14. /\ HeapType' /\ BlocksInv' /\ ListsInv' /\ PanicsInv'
       /\ Listed' = Listed \cup {r} /\ pr'[r].page = p
       /\ BlocksKept({r}) /\ PagesKept({}) /\ ThreadsKept(t) /\ Return(t)
       /\ ~HasVa(t)' /\ ~HasPrpage(t)'
  <2>1. HasFor(t, p)
    BY Zenon, <1>8 DEF HasFor
  <2>2. Put(t, p, r)
    BY Zenon, <1>1, <1>3, <1>4, <1>9, <1>10, <1>13, <2>1, UsePageStep
  <2> QED BY Zenon, <2>2 DEF Put
<1>15. MarkInv' /\ CallInv' /\ PendingInv'
  <2>1. \A u \in Thread : u # t /\ HasPrpage(u) => loc[u].pr \notin Listed'
    BY Zenon, <1>7, <1>14 DEF HeapInv, CallInv
  <2> QED BY Zenon, <1>1, <1>12, <1>14, <2>1, ReturnKept
<1>16. HoldersInv'
  <2>1. RootsKept({k})
    BY Zenon, <1>10 DEF RootsKept
  <2>2. Hold'[<<"va", t>>] = NoFrame /\ Hold'[<<"prpage", t>>] = NoFrame
    BY Zenon, <1>14, HoldOf
  <2>3. r \in Listed'
    BY Zenon, <1>14
  <2>4. /\ <<"blocks", r>> \in Holder /\ Hold[<<"blocks", r>>] = NoFrame
        /\ Hold'[<<"blocks", r>>] = Hold[<<"prpage", t>>]
    BY Zenon, <1>3, <1>4, <1>8, <1>14, <2>3, HoldOf
  <2>5. /\ <<"root", k>> \in Holder /\ Hold[<<"root", k>>] = NoFrame
        /\ Hold'[<<"root", k>>] = Hold[<<"va", t>>]
    BY Zenon, <1>3, <1>5, <1>8, <1>10, HoldOf
  <2>6. ASSUME NEW y \in Holder
        PROVE  \/ y = <<"va", t>> \/ y = <<"root", k>>
               \/ y = <<"prpage", t>> \/ y = <<"blocks", r>>
               \/ Hold'[y] = Hold[y]
    <3>1. Hold'[y] = Hold[y] \/ Concerned({k}, {r}, {}, t, y)
      BY Zenon, <1>14, <2>1, Kept
    <3> QED BY Zenon, <3>1 DEF Concerned
  <2>7. /\ <<"va", t>> # <<"root", k>> /\ <<"va", t>> # <<"prpage", t>>
        /\ <<"va", t>> # <<"blocks", r>> /\ <<"root", k>> # <<"prpage", t>>
        /\ <<"root", k>> # <<"blocks", r>> /\ <<"prpage", t>> # <<"blocks", r>>
    OBVIOUS
  <2>8. HandedTwo(Hold, Hold', <<"va", t>>, <<"root", k>>, <<"prpage", t>>, <<"blocks", r>>)
    BY Zenon, <1>8, <2>2, <2>4, <2>5, <2>6, <2>7 DEF HandedTwo
  <2>9. Held(Hold', status)
    BY Zenon, <2>8, TwoHandovers DEF HeapInv, HoldersInv
  <2> QED BY Zenon, <1>1, <2>9 DEF HoldersInv
<1>17. RootsInv'
  <2>1. \A s \in Listed' : kheaproots'[RootOf(s)].page # NoFrame
    <3>1. ASSUME NEW s \in Listed PROVE kheaproots'[RootOf(s)].page # NoFrame
      <4>1. kheaproots[RootOf(s)].page # NoFrame
        BY Zenon DEF HeapInv, RootsInv
      <4>2. s \in Pageref
        BY Zenon, BlocksBefore DEF HeapInv
      <4>3. RootOf(s) \in Root
        BY <4>2 DEF Pageref, RootOf
      <4> QED BY Zenon, <1>12, <4>1, <4>3
    <3>2. kheaproots'[RootOf(r)].page # NoFrame
      BY Zenon, <1>10, <1>11 DEF k
    <3> QED BY Zenon, <1>14, <3>1, <3>2
  <2>2. \A s \in inuse' : \A j \in Root : j < RootOf(s) => kheaproots'[j].page # NoFrame
    BY Zenon, <1>1, <1>12 DEF HeapInv, RootsInv
  <2> QED BY Zenon, <2>1, <2>2 DEF RootsInv
<1>18. BitsInv'
  <2>1. Pending' = Pending \ {r}
    BY Zenon, <1>2, <1>14, PendingLess DEF HeapInv, r
  <2>2. inuse' = Listed' \cup Pending'
    BY Zenon, <1>1, <1>6, <1>14, <2>1 DEF HeapInv, BitsInv
  <2>3. \A j \in Root : kheaproots'[j].numinuse = Cardinality({s \in inuse' : RootOf(s) = j})
    BY Zenon, <1>1, <1>10 DEF HeapInv, BitsInv
  <2> QED BY Zenon, <2>2, <2>3 DEF BitsInv
<1> QED BY Zenon, <1>14, <1>15, <1>16, <1>17, <1>18 DEF HeapInv

\* allocpagerefpage, whether somebody else has allocated the page or not.
LEMMA RefPageStep ==
  ASSUME HeapInv, NEW t \in Thread, RefPage(t)
  PROVE  HeapInv'
<1>1. CASE SomebodyElse(RootOf(loc[t].pr))
  <2>1. /\ pc[t] = "refpage" /\ Goto(t, "spare")
        /\ UNCHANGED <<status, heap, loc, held, panicked>>
    BY Zenon, <1>1 DEF RefPage
  <2> QED BY Zenon, <1>1, <2>1, RefPageSpare
<1>2. CASE ~SomebodyElse(RootOf(loc[t].pr))
  <2>1. /\ pc[t] = "refpage"
        /\ kheaproots' = [kheaproots EXCEPT ![RootOf(loc[t].pr)].page = loc[t].va]
        /\ UsePage(t, loc[t].prpage, loc[t].pr) /\ UNCHANGED <<inuse, status>>
    BY Zenon, <1>2 DEF RefPage
  <2> QED BY Zenon, <1>2, <2>1, RefPageUse
<1> QED BY Zenon, <1>1, <1>2

---------------------------------------------------------------------------
(* allocpageref.                                                           *)

\* What is known when it has found a clear bit and set it.
LEMMA NewPageBit ==
  ASSUME HeapInv, NEW t \in Thread, pc[t] = "newpage",
         {k \in Root : kheaproots[k].numinuse < NPAGEREFS_PER_PAGE} # {},
         SetBit(NewRef), kheaproots' = [kheaproots EXCEPT ![NewRoot].numinuse = @ + 1]
  PROVE  /\ NewRoot \in Root /\ NewRef \in Pageref /\ RootOf(NewRef) = NewRoot
         /\ NewRef \notin Listed /\ \A u \in Thread : HasPrpage(u) => loc[u].pr # NewRef
         /\ inuse' = inuse \cup {NewRef} /\ inuse' \subseteq Pageref
         /\ kheaproots' \in [Root -> RootRecord]
         /\ \A j \in Root : kheaproots'[j].page = kheaproots[j].page
         /\ Counted(kheaproots', inuse')
         /\ \A s \in inuse' : \A j \in Root : j < RootOf(s) => kheaproots'[j].page # NoFrame
         /\ HasVa(t) /\ ~HasPrpage(t) /\ loc[t].va \in Frame
<1>1. /\ NewRoot \in Root /\ NewRef \in Pageref /\ RootOf(NewRef) = NewRoot /\ NewRef \notin inuse
      /\ \A k \in Root : k < NewRoot => ~(kheaproots[k].numinuse < NPAGEREFS_PER_PAGE)
  BY Zenon, NewRefIsFree
<1>2. HasVa(t) /\ ~HasPrpage(t)
  BY DEF HasVa, HasPrpage
<1>3. loc[t].va \in Frame
  BY Zenon, <1>2 DEF HeapInv, CallInv
<1>4. NewRef \notin Listed /\ \A u \in Thread : HasPrpage(u) => loc[u].pr # NewRef
  BY Zenon, <1>1 DEF HeapInv, BitsInv, Pending
<1>5. kheaproots' = [kheaproots EXCEPT ![RootOf(NewRef)].numinuse = @ + 1]
  BY <1>1
<1>6. /\ inuse' = inuse \cup {NewRef} /\ inuse' \subseteq Pageref
      /\ kheaproots' \in [Root -> RootRecord]
      /\ \A j \in Root : kheaproots'[j].page = kheaproots[j].page
      /\ Counted(kheaproots', inuse')
  BY Zenon, <1>1, <1>5, BitSet
<1>7. \A j \in Root : j < NewRoot => kheaproots[j].page # NoFrame
  BY Zenon, <1>1, <1>2, LowerRoots
<1>8. \A s \in inuse' : \A j \in Root : j < RootOf(s) => kheaproots'[j].page # NoFrame
  BY Zenon, <1>1, <1>6, <1>7 DEF HeapInv, RootsInv
<1> QED BY Zenon, <1>1, <1>2, <1>3, <1>4, <1>6, <1>8

\* The page of pagerefs exists.
LEMMA NewPageUse ==
  ASSUME HeapInv, NEW t \in Thread, pc[t] = "newpage",
         {k \in Root : kheaproots[k].numinuse < NPAGEREFS_PER_PAGE} # {},
         SetBit(NewRef), kheaproots' = [kheaproots EXCEPT ![NewRoot].numinuse = @ + 1],
         kheaproots[NewRoot].page # NoFrame, UsePage(t, loc[t].va, NewRef), UNCHANGED status
  PROVE  HeapInv'
<1> DEFINE p == loc[t].va
           r == NewRef
<1>1. /\ NewRoot \in Root /\ r \in Pageref /\ RootOf(r) = NewRoot
      /\ r \notin Listed /\ \A u \in Thread : HasPrpage(u) => loc[u].pr # r
      /\ inuse' = inuse \cup {r} /\ inuse' \subseteq Pageref
      /\ kheaproots' \in [Root -> RootRecord]
      /\ \A j \in Root : kheaproots'[j].page = kheaproots[j].page
      /\ Counted(kheaproots', inuse')
      /\ \A s \in inuse' : \A j \in Root : j < RootOf(s) => kheaproots'[j].page # NoFrame
      /\ HasVa(t) /\ ~HasPrpage(t) /\ p \in Frame
  BY Zenon, NewPageBit
<1>2. <<"va", t>> \in Holder /\ Hold[<<"va", t>>] = p
  BY Zenon, <1>1, HoldOf
<1>3. UsePage(t, p, r)
  BY Zenon
<1> HIDE DEF p, r
<1>4. Put(t, p, r)
  <2>1. HasFor(t, p)
    BY Zenon, <1>2 DEF HasFor
  <2> QED BY Zenon, <1>1, <1>3, <2>1, UsePageStep
<1>5. /\ HeapType' /\ BlocksInv' /\ ListsInv' /\ PanicsInv'
      /\ Listed' = Listed \cup {r} /\ pr'[r].page = p
      /\ BlocksKept({r}) /\ PagesKept({}) /\ ThreadsKept(t) /\ Return(t)
      /\ ~HasVa(t)' /\ ~HasPrpage(t)'
  BY Zenon, <1>4 DEF Put
<1>6. MarkInv' /\ CallInv' /\ PendingInv'
  <2>1. \A u \in Thread : u # t /\ HasPrpage(u) => loc[u].pr \notin Listed'
    BY Zenon, <1>1, <1>5 DEF HeapInv, CallInv
  <2>2. \A j \in Root : kheaproots[j].page # NoFrame => kheaproots'[j].page # NoFrame
    BY Zenon, <1>1
  <2> QED BY Zenon, <1>5, <2>1, <2>2, ReturnKept
<1>7. HoldersInv'
  <2>1. RootsKept({})
    BY Zenon, <1>1 DEF RootsKept
  <2>2. Hold'[<<"prpage", t>>] = Hold[<<"prpage", t>>] /\ Hold'[<<"va", t>>] = NoFrame
    <3>1. ~HasPrpage(t) /\ ~HasPrpage(t)' /\ ~HasVa(t)'
      BY Zenon, <1>1, <1>5
    <3> QED BY Zenon, <3>1, HoldOf
  <2>3. r \in Listed'
    BY Zenon, <1>5
  <2>4. /\ <<"blocks", r>> \in Holder /\ Hold[<<"blocks", r>>] = NoFrame
        /\ Hold'[<<"blocks", r>>] = Hold[<<"va", t>>]
    BY Zenon, <1>1, <1>2, <1>5, <2>3, HoldOf
  <2>5. ASSUME NEW y \in Holder
        PROVE  y = <<"va", t>> \/ y = <<"blocks", r>> \/ Hold'[y] = Hold[y]
    <3>1. Hold'[y] = Hold[y] \/ Concerned({}, {r}, {}, t, y)
      BY Zenon, <1>5, <2>1, Kept
    <3> QED BY Zenon, <2>2, <3>1 DEF Concerned
  <2> QED BY Zenon, <1>2, <2>2, <2>4, <2>5, HandoverStep DEF HeapInv
<1>8. RootsInv'
  <2>1. \A s \in Listed' : kheaproots'[RootOf(s)].page # NoFrame
    <3>1. ASSUME NEW s \in Listed PROVE kheaproots'[RootOf(s)].page # NoFrame
      <4>1. kheaproots[RootOf(s)].page # NoFrame
        BY Zenon DEF HeapInv, RootsInv
      <4>2. s \in Pageref
        BY Zenon, BlocksBefore DEF HeapInv
      <4>3. RootOf(s) \in Root
        BY <4>2 DEF Pageref, RootOf
      <4> QED BY Zenon, <1>1, <4>1, <4>3
    <3>2. kheaproots'[RootOf(r)].page # NoFrame
      BY Zenon, <1>1
    <3> QED BY Zenon, <1>5, <3>1, <3>2
  <2> QED BY Zenon, <1>1, <2>1 DEF RootsInv
<1>9. BitsInv'
  <2>1. Pending' = Pending
    BY Zenon, <1>1, <1>5, PendingSame
  <2>2. inuse' = Listed' \cup Pending'
    BY Zenon, <1>1, <1>5, <2>1 DEF HeapInv, BitsInv
  <2> QED BY Zenon, <1>1, <2>2 DEF BitsInv, Counted
<1> QED BY Zenon, <1>5, <1>6, <1>7, <1>8, <1>9 DEF HeapInv

\* It does not, and is asked for.
LEMMA NewPageAlloc ==
  ASSUME HeapInv, NEW t \in Thread, pc[t] = "newpage",
         {k \in Root : kheaproots[k].numinuse < NPAGEREFS_PER_PAGE} # {},
         SetBit(NewRef), kheaproots' = [kheaproots EXCEPT ![NewRoot].numinuse = @ + 1],
         AllocKpages(t, Locals(loc[t].blktype, loc[t].va, NewRef, "refpage")),
         UNCHANGED <<pr, sizebases, allbase, held, panicked, status>>
  PROVE  HeapInv'
<1> DEFINE p == loc[t].va
           r == NewRef
           v == Locals(loc[t].blktype, p, r, "refpage")
<1>1. /\ NewRoot \in Root /\ r \in Pageref /\ RootOf(r) = NewRoot
      /\ r \notin Listed /\ \A u \in Thread : HasPrpage(u) => loc[u].pr # r
      /\ inuse' = inuse \cup {r} /\ inuse' \subseteq Pageref
      /\ kheaproots' \in [Root -> RootRecord]
      /\ \A j \in Root : kheaproots'[j].page = kheaproots[j].page
      /\ Counted(kheaproots', inuse')
      /\ \A s \in inuse' : \A j \in Root : j < RootOf(s) => kheaproots'[j].page # NoFrame
      /\ HasVa(t) /\ ~HasPrpage(t) /\ p \in Frame
  BY Zenon, NewPageBit
<1>2. pr' = pr /\ sizebases' = sizebases /\ allbase' = allbase /\ held' = held
      /\ panicked' = panicked /\ status' = status /\ UNCHANGED <<pr, sizebases, allbase, held>>
  BY Zenon
<1>3. Moves(t, "getppages", v)
  BY Zenon DEF AllocKpages, Moves, Goto
<1>4. <<"va", t>> \in Holder /\ Hold[<<"va", t>>] = p
  BY Zenon, <1>1, HoldOf
<1>5. v \in LocRecord /\ v.prpage = p /\ v.pr = r /\ v.back = "refpage"
  <2>1. loc[t].blktype \in BlockType
    BY Zenon, LocFields DEF HeapInv, HeapType
  <2> HIDE DEF p, r
  <2> QED BY <1>1, <2>1 DEF Locals, LocRecord
<1> HIDE DEF p, r, v
<1>6. "getppages" \in Where
  BY DEF Where
<1>7. /\ pc'[t] = "getppages" /\ loc'[t] = v /\ ThreadsKept(t)
      /\ pc' \in [Thread -> Where] /\ loc' \in [Thread -> LocRecord]
  BY Zenon, <1>3, <1>5, <1>6, MovesTo DEF HeapInv
<1>8. ~HasVa(t)' /\ HasPrpage(t)' /\ pc'[t] # "mark"
  BY <1>5, <1>7 DEF HasVa, HasPrpage
<1>9. HeapType'
  BY Zenon, <1>1, <1>2, <1>7 DEF HeapInv, HeapType
<1>10. /\ Listed' = Listed /\ BlocksKept({}) /\ PagesKept({}) /\ BlocksInv' /\ ListsInv'
  BY Zenon, <1>2, ListsKept DEF HeapInv
<1>11. MarkInv'
  BY Zenon, <1>2, <1>7, <1>8, MarkKept DEF HeapInv
<1>12. CallInv'
  <2>1. CallAt(t)'
    <3>1. loc'[t].back # "idle" /\ pc'[t] \notin {"spare", "spared"}
      BY <1>5, <1>7
    <3>2. loc'[t].prpage \in Frame /\ loc'[t].pr \notin Listed'
      BY Zenon, <1>1, <1>5, <1>7, <1>10
    <3> QED BY Zenon, <1>8, <3>1, <3>2 DEF CallAt
  <2>2. \A u \in Thread : u # t /\ HasPrpage(u) => loc[u].pr \notin Listed'
    BY Zenon, <1>10 DEF HeapInv, CallInv
  <2>3. \A j \in Root : kheaproots[j].page # NoFrame => kheaproots'[j].page # NoFrame
    BY Zenon, <1>1
  <2> QED BY Zenon, <1>7, <2>1, <2>2, <2>3, CallKept DEF HeapInv
<1>13. PendingInv'
  <2>1. \A u \in Thread : u # t /\ HasPrpage(u) => loc[u].pr # loc'[t].pr
    BY Zenon, <1>1, <1>5, <1>7
  <2> QED BY Zenon, <1>7, <2>1, PendingKept DEF HeapInv
<1>14. HoldersInv'
  <2>1. RootsKept({})
    BY Zenon, <1>1 DEF RootsKept
  <2>2. /\ Hold'[<<"va", t>>] = NoFrame /\ <<"prpage", t>> \in Holder
        /\ Hold[<<"prpage", t>>] = NoFrame /\ Hold'[<<"prpage", t>>] = Hold[<<"va", t>>]
    BY Zenon, <1>1, <1>4, <1>5, <1>7, <1>8, HoldOf
  <2>3. ASSUME NEW y \in Holder
        PROVE  y = <<"va", t>> \/ y = <<"prpage", t>> \/ Hold'[y] = Hold[y]
    <3>1. Hold'[y] = Hold[y] \/ Concerned({}, {}, {}, t, y)
      BY Zenon, <1>7, <1>10, <2>1, Kept
    <3> QED BY Zenon, <3>1 DEF Concerned
  <2> QED BY Zenon, <1>2, <1>4, <2>2, <2>3, HandoverStep DEF HeapInv
<1>15. RootsInv'
  <2>1. ASSUME NEW s \in Listed' PROVE kheaproots'[RootOf(s)].page # NoFrame
    <3>1. s \in Listed /\ kheaproots[RootOf(s)].page # NoFrame
      BY Zenon, <1>10 DEF HeapInv, RootsInv
    <3>2. s \in Pageref
      BY Zenon, <3>1, BlocksBefore DEF HeapInv
    <3>3. RootOf(s) \in Root
      BY <3>2 DEF Pageref, RootOf
    <3> QED BY Zenon, <1>1, <3>1, <3>3
  <2> QED BY Zenon, <1>1, <2>1 DEF RootsInv
<1>16. BitsInv'
  <2>1. Pending' = Pending \cup {r}
    BY Zenon, <1>1, <1>5, <1>7, <1>8, PendingMore
  <2>2. inuse' = Listed' \cup Pending'
    BY Zenon, <1>1, <1>10, <2>1 DEF HeapInv, BitsInv
  <2> QED BY Zenon, <1>1, <2>2 DEF BitsInv, Counted
<1>17. PanicsInv'
  BY Zenon, <1>2 DEF HeapInv, PanicsInv
<1> QED BY Zenon, <1>9, <1>10, <1>11, <1>12, <1>13, <1>14, <1>15, <1>16, <1>17 DEF HeapInv

\* allocpageref: no pageref is left, or its page exists, or it has to be allocated.
LEMMA NewPageStep ==
  ASSUME HeapInv, NEW t \in Thread, NewPage(t)
  PROVE  HeapInv'
<1> DEFINE K == {k \in Root : kheaproots[k].numinuse < NPAGEREFS_PER_PAGE}
<1>1. CASE K = {}
  <2>1. /\ pc[t] = "newpage" /\ Goto(t, "free_kpages")
        /\ UNCHANGED <<status, heap, loc, held, panicked>>
    BY Zenon, <1>1 DEF NewPage
  <2> QED BY Zenon, <2>1, NewPageFails
<1>2. CASE K # {}
  <2>1. /\ pc[t] = "newpage" /\ SetBit(NewRef) /\ UNCHANGED status
        /\ kheaproots' = [kheaproots EXCEPT ![NewRoot].numinuse = @ + 1]
        /\ IF kheaproots[NewRoot].page = NoFrame
           THEN /\ AllocKpages(t, Locals(loc[t].blktype, loc[t].va, NewRef, "refpage"))
                /\ UNCHANGED <<pr, sizebases, allbase, held, panicked>>
           ELSE UsePage(t, loc[t].va, NewRef)
    BY <1>2 DEF NewPage, NewRoot, NewRef
  <2>2. CASE kheaproots[NewRoot].page = NoFrame
    <3>1. /\ AllocKpages(t, Locals(loc[t].blktype, loc[t].va, NewRef, "refpage"))
          /\ UNCHANGED <<pr, sizebases, allbase, held, panicked, status>>
      BY Zenon, <2>1, <2>2
    <3> QED BY Zenon, <1>2, <2>1, <3>1, NewPageAlloc
  <2>3. CASE kheaproots[NewRoot].page # NoFrame
    <3>1. UsePage(t, loc[t].va, NewRef)
      BY Zenon, <2>1, <2>3
    <3> QED BY Zenon, <1>2, <2>1, <2>3, <3>1, NewPageUse
  <2> QED BY Zenon, <2>2, <2>3
<1> QED BY Zenon, <1>1, <1>2

---------------------------------------------------------------------------
(* The invariant.                                                          *)

\* Every step of a thread that marks no frame for the second time keeps the invariant.
LEMMA StepKeepsHeapInv ==
  ASSUME HeapInv, NEW t \in Thread, Step(t), ~MarksTwice(t)
  PROVE  HeapInv'
<1>1. CASE \E sz \in Size : Kmalloc(t, sz) \/ KmallocPage(t, sz)
  BY Zenon, <1>1, KmallocStep, KmallocPageStep
<1>2. CASE KmallocPageReturn(t)
  BY Zenon, <1>2, KmallocPageReturnStep
<1>3. CASE GetppagesScan(t)
  BY Zenon, <1>3, ScanStep
<1>4. CASE GetppagesMark(t)
  BY Zenon, <1>4, MarkStep
<1>5. CASE FreeKpages(t)
  BY Zenon, <1>5, FreeKpagesStep
<1>6. CASE NewPage(t)
  BY Zenon, <1>6, NewPageStep
<1>7. CASE RefPage(t)
  BY Zenon, <1>7, RefPageStep
<1>8. CASE FreeSpare(t)
  BY Zenon, <1>8, FreeSpareStep
<1>9. CASE RefPageThere(t)
  BY Zenon, <1>9, RefPageThereStep
<1>10. CASE \E x \in held : Kfree(t, x)
  BY Zenon, <1>10, KfreeStep
<1> QED
  BY Zenon, <1>1, <1>2, <1>3, <1>4, <1>5, <1>6, <1>7, <1>8, <1>9, <1>10 DEF Step

\* The step that marks a frame is the second one of getppages.
LEMMA OnlyMark ==
  ASSUME NEW t \in Thread, Step(t), pc[t] = "mark"
  PROVE  GetppagesMark(t)
<1>1. \A sz \in Size : ~Kmalloc(t, sz) /\ ~KmallocPage(t, sz)
  BY DEF Kmalloc, KmallocPage
<1>2. ~KmallocPageReturn(t) /\ ~GetppagesScan(t) /\ ~FreeKpages(t)
  BY DEF KmallocPageReturn, GetppagesScan, FreeKpages
<1>3. ~NewPage(t) /\ ~RefPage(t) /\ ~FreeSpare(t) /\ ~RefPageThere(t)
  BY DEF NewPage, RefPage, FreeSpare, RefPageThere
<1>4. \A x \in held : ~Kfree(t, x)
  BY DEF Kfree
<1> QED BY Zenon, <1>1, <1>2, <1>3, <1>4 DEF Step

\* HeapInv is inductive up to the step that marks a frame for the second time, and the
\* types survive that one too.
LEMMA HeapInvAlways == Spec => [](TypeOK /\ (~raced => HeapInv))
<1>1. HeapInv => TypeOK
  BY Zenon, InvTypes
<1>2. HeapInv' => TypeOK'
  BY <1>1, PTL
<1>3. Init => TypeOK /\ HeapInv
  BY Zenon, <1>1, InitHeapInv
<1>4. TypeOK /\ (~raced => HeapInv) /\ [Next]_vars => TypeOK' /\ (~raced' => HeapInv')
  <2>1. ASSUME TypeOK, ~raced => HeapInv, Next PROVE TypeOK' /\ (~raced' => HeapInv')
    <3>1. PICK t \in Thread : Step(t) /\ raced' = MarksTwice(t)
      BY Zenon, <2>1 DEF Next
    <3>2. HeapInv
      BY Zenon, <2>1 DEF Next
    <3>3. CASE ~MarksTwice(t)
      BY Zenon, <1>2, <3>1, <3>2, <3>3, StepKeepsHeapInv
    <3>4. CASE MarksTwice(t)
      <4>1. GetppagesMark(t)
        BY Zenon, <3>1, <3>4, OnlyMark DEF MarksTwice
      <4>2. /\ status' = [status EXCEPT ![loc[t].va] = "FIXED"] /\ held' = held
            /\ kheaproots' = kheaproots /\ inuse' = inuse /\ pr' = pr
        BY Zenon, <4>1 DEF GetppagesMark, heap
      <4>3. status' \in [Frame -> {"FREE", "FIXED"}]
        BY <2>1, <4>2 DEF TypeOK
      <4>4. TypeOK'
        BY Zenon, <2>1, <4>2, <4>3 DEF TypeOK
      <4> QED BY Zenon, <3>1, <3>4, <4>4
    <3> QED BY Zenon, <3>3, <3>4
  <2>2. ASSUME TypeOK, ~raced => HeapInv, UNCHANGED vars
        PROVE  TypeOK' /\ (~raced' => HeapInv')
    <3>1. raced' = raced
      BY Zenon, <2>2 DEF vars
    <3>2. HeapInv => HeapInv'
      BY Zenon, <2>2, Stutter
    <3>3. TypeOK'
      BY Zenon, <2>2 DEF vars, heap, TypeOK
    <3> QED BY Zenon, <2>2, <3>1, <3>2, <3>3
  <2> QED BY Zenon, <2>1, <2>2
<1> QED BY <1>3, <1>4, PTL DEF Spec

---------------------------------------------------------------------------
(* The theorems.                                                           *)

\* Whatever the threads ask of kmalloc and give back with kfree, the counts and
\* offsets of the heap stay in their ranges: numinuse within the pagerefs of a page,
\* nfree within the blocks of one.
THEOREM HeapTypeCorrect == Spec => []TypeOK
  BY HeapInvAlways, PTL

\* No page is given out twice, used after it was freed, or lost, whatever kmalloc and
\* kfree do while others run without the spinlock, until two calls of getppages mark
\* the same frame: a frame that is FIXED has one holder, one that is FREE has none.
THEOREM FramesHaveOneHolder == Spec => []HeldOnceUnlessRaced
<1>1. HeapInv => FrameHasOneHolder
  BY Zenon, InvFrames
<1>2. (~raced => HeapInv) => HeldOnceUnlessRaced
  BY Zenon, <1>1 DEF HeldOnceUnlessRaced
<1> QED BY <1>2, HeapInvAlways, PTL

\* Until then kmalloc and kfree keep account of the heap: every block of a page of
\* blocks is on its free list or with a client, not both; every pageref in use is on
\* the lists it should be on, or with a call that has dropped the lock; numinuse
\* counts them.
THEOREM HeapIsAccounted == Spec => []HeapAccounted
<1>1. (~raced => HeapInv) => HeapAccounted
  <2>1. CASE raced
    BY Zenon, <2>1 DEF HeapAccounted
  <2>2. CASE ~raced
    BY Zenon, <2>2, InvAccounts
  <2> QED BY Zenon, <2>1, <2>2
<1> QED BY <1>1, HeapInvAlways, PTL

\* Until then no assertion of kmalloc.c fails: the kernel panics in the heap for lack
\* of memory only.
THEOREM HeapAssertionsNeverFail == Spec => []AssertionsHold
<1>1. (~raced => HeapInv) => AssertionsHold
  BY Zenon DEF HeapInv, PanicsInv, AssertionsHold
<1> QED BY <1>1, HeapInvAlways, PTL
=============================================================================
