--------------------------- MODULE HeapInvariant ---------------------------
(***************************************************************************)
(* The inductive invariant of Heap, for any number of threads, frames,     *)
(* block sizes and pagerefs; the lemmas about lists, blocks, pagerefs and  *)
(* the holders of frames that it rests on; and that it is kept by the page *)
(* allocator and by what kmalloc does with a page that has a free block.   *)
(***************************************************************************)
EXTENDS Heap, Queues, FiniteSetTheorems

\* The provers that a step is given to, one after the other, and their time in seconds.
USE SMTT(30), Z3T(30), ZenonT(20)

PrRecord ==
  [page : Frame \cup {NoFrame}, blktype : BlockType, freelist : Queue(0 .. PAGE_SIZE - 1),
   nfree : Nat]

RootRecord == [page : Frame \cup {NoFrame}, numinuse : Nat]

LocRecord ==
  [blktype : BlockType, prpage : Frame \cup {NoFrame}, pr : Pageref,
   va : Frame \cup {NoFrame}, back : {"idle", "newpage", "bigpage", "refpage"}]

Where == {"idle", "getppages", "mark", "free_kpages", "newpage", "bigpage", "refpage",
          "spare", "spared"}

HeapType ==
  /\ status \in [Frame -> {"FREE", "FIXED"}]
  /\ kheaproots \in [Root -> RootRecord]
  /\ inuse \subseteq Pageref
  /\ pr \in [Pageref -> PrRecord]
  /\ sizebases \in [BlockType -> Queue(Pageref)]
  /\ allbase \in Queue(Pageref)
  /\ pc \in [Thread -> Where]
  /\ loc \in [Thread -> LocRecord]
  /\ held \subseteq Pointer

---------------------------------------------------------------------------
(* Who has which frame.                                                    *)

Kind == {"root", "blocks", "page", "va", "prpage"}

\* What can hold a frame in way k.
Of(k) ==
  CASE k = "root"             -> Root
    [] k = "blocks"           -> Pageref
    [] k = "page"             -> Pointer
    [] k \in {"va", "prpage"} -> Thread

\* The frame that it holds, or NoFrame.
FrameOf(k, y) ==
  CASE k = "root"   -> kheaproots[y].page
    [] k = "blocks" -> IF y \in Listed THEN pr[y].page ELSE NoFrame
    [] k = "page"   -> IF y \in WholePages THEN y.page ELSE NoFrame
    [] k = "va"     -> IF HasVa(y) THEN loc[y].va ELSE NoFrame
    [] k = "prpage" -> IF HasPrpage(y) THEN loc[y].prpage ELSE NoFrame

Holder == UNION {{<<k, y>> : y \in Of(k)} : k \in Kind}

Hold == [x \in Holder |-> FrameOf(x[1], x[2])]

OneHolder(h) == \A x, y \in Holder : h[x] = h[y] /\ h[x] # NoFrame => x = y

FixedIsHeld(h, s) == \A f \in Frame : s[f] = "FIXED" <=> \E x \in Holder : h[x] = f

Held(h, s) == OneHolder(h) /\ FixedIsHeld(h, s)

HoldersInv == Held(Hold, status)

---------------------------------------------------------------------------
(* What the calls rely on while the lock is dropped.                       *)

\* getppages has found a frame; by the time it is marked it need not be free.
MarkInv == \A t \in Thread : pc[t] = "mark" => loc[t].va \in Frame

CallInv ==
  \A t \in Thread :
    /\ HasVa(t) => loc[t].va \in Frame
    /\ HasPrpage(t) => loc[t].prpage \in Frame /\ loc[t].pr \notin Listed
    /\ pc[t] \in {"getppages", "mark"} => loc[t].back # "idle"
    /\ pc[t] \in {"spare", "spared"} => kheaproots[RootOf(loc[t].pr)].page # NoFrame

\* No two of them have been given the same pageref.
PendingInv ==
  \A t, u \in Thread : HasPrpage(t) /\ HasPrpage(u) /\ loc[t].pr = loc[u].pr => t = u

---------------------------------------------------------------------------
(* The lists and the pagerefs.                                             *)

BlocksInv ==
  /\ \A r \in Listed : BlocksOf(r) /\ pr[r].page \in Frame
  /\ \A r \in Pageref : r \notin Listed => pr[r] = NoPageref
  /\ \A x \in WholePages : x.off = 0

ListsInv ==
  \A b \in BlockType : Range(sizebases[b]) = {r \in Listed : pr[r].blktype = b}

Pending == {loc[t].pr : t \in {u \in Thread : HasPrpage(u)}}

\* The pages of pagerefs are filled in order: there is a page for every pageref before
\* one that is used.
RootsInv ==
  /\ \A r \in Listed : kheaproots[RootOf(r)].page # NoFrame
  /\ \A r \in inuse : \A k \in Root : k < RootOf(r) => kheaproots[k].page # NoFrame

BitsInv ==
  /\ inuse = Listed \cup Pending
  /\ \A k \in Root : kheaproots[k].numinuse = Cardinality({r \in inuse : RootOf(r) = k})

\* The panics that are not failed assertions.
PanicsInv == panicked \in {"no", "no more victims in the coremap"}

\* What holds as long as no frame was marked twice.
HeapInv ==
  /\ HeapType /\ HoldersInv
  /\ MarkInv /\ CallInv /\ PendingInv
  /\ BlocksInv /\ ListsInv /\ RootsInv /\ BitsInv
  /\ PanicsInv

---------------------------------------------------------------------------
(* Numbers, lists and sets.                                                *)

Less == {ss \in Nat \X Nat : ss[1] < ss[2]}

\* A set of numbers that is not empty has a least one, and Min is in it.
LEMMA MinIsLeast ==
  ASSUME NEW T, T \subseteq Nat, T # {}
  PROVE  Min(T) \in T /\ \A y \in T : Min(T) <= y
<1>1. IsWellFoundedOn(Less, Nat)
  BY NatLessThanWellFounded, Zenon DEF OpToRel, Less
<1>2. PICK x \in T : \A y \in T : <<y, x>> \notin Less
  BY Zenon, <1>1, WFMin
<1>3. ASSUME NEW y \in T, y < x PROVE FALSE
  <2>1. <<y, x>> \in Less
    BY <1>3 DEF Less
  <2> QED BY Zenon, <1>2, <2>1
<1>4. \E z \in T : \A y \in T : z <= y
  BY <1>3
<1> QED BY Zenon, <1>4 DEF Min

\* A range of numbers from 1.
LEMMA IntervalCount ==
  ASSUME NEW n \in Nat
  PROVE  IsFiniteSet(1 .. n) /\ Cardinality(1 .. n) = n
<1>1. 1 \in Int /\ n \in Int
  OBVIOUS
<1>2. /\ IsFiniteSet(1 .. n)
      /\ Cardinality(1 .. n) = IF 1 > n THEN 0 ELSE n - 1 + 1
  BY Zenon, <1>1, FS_Interval
<1> QED BY <1>2

\* A list without repetition has as many members as it is long.
LEMMA QueueCount ==
  ASSUME NEW S, NEW s \in Queue(S)
  PROVE  IsFiniteSet(Range(s)) /\ Cardinality(Range(s)) = Len(s)
<1>1. Len(s) \in Nat /\ DOMAIN s = 1 .. Len(s)
  BY DEF Queue
<1>2. s \in Injection(1 .. Len(s), Range(s)) /\ s \in Surjection(1 .. Len(s), Range(s))
  BY <1>1 DEF Queue, Range, Injection, Surjection, IsInjective
<1>3. IsFiniteSet(1 .. Len(s)) /\ Cardinality(1 .. Len(s)) = Len(s)
  BY <1>1, IntervalCount
<1> QED BY Zenon, <1>2, <1>3, FS_Surjection

\* A list with an element more at its head, ...
LEMMA QueuePush ==
  ASSUME NEW S, NEW s \in Queue(S), NEW x \in S, x \notin Range(s)
  PROVE  /\ <<x>> \o s \in Queue(S) /\ Range(<<x>> \o s) = {x} \cup Range(s)
         /\ Len(<<x>> \o s) = Len(s) + 1
<1>1. <<x>> \in Queue(S) /\ Range(<<x>>) = {x} /\ Len(<<x>>) = 1
  BY DEF Queue, Range, IsInjective
<1>2. Len(s) \in Nat
  BY DEF Queue
<1>3. Range(<<x>>) \cap Range(s) = {}
  BY Zenon, <1>1
<1> QED BY <1>1, <1>2, <1>3, QueueConcat

\* ... and without one of its elements.
LEMMA QueueUnlink ==
  ASSUME NEW S, NEW s \in Queue(S), NEW x \in Range(s)
  PROVE  Unlink(s, x) \in Queue(S) /\ Range(Unlink(s, x)) = Range(s) \ {x}
<1> DEFINE i == CHOOSE j \in DOMAIN s : s[j] = x
<1>1. i \in DOMAIN s /\ s[i] = x
  BY Zenon DEF Range
<1> HIDE DEF i
<1>2. i \in 1 .. Len(s) /\ Len(s) \in Nat /\ DOMAIN s = 1 .. Len(s) /\ s \in Seq(S)
  BY <1>1 DEF Queue
<1> DEFINE l == SubSeq(s, 1, i - 1)
           r == SubSeq(s, i + 1, Len(s))
           u == l \o r
<1>3. Unlink(s, x) = u
  BY Zenon DEF Unlink, i
<1>4. l \in Seq(S) /\ Len(l) = i - 1 /\ \A j \in 1 .. i - 1 : l[j] = s[j]
  BY <1>2
<1>5. r \in Seq(S) /\ Len(r) = Len(s) - i /\ \A j \in 1 .. Len(s) - i : r[j] = s[j + i]
  <2>1. i \in 0 .. Len(s) /\ i \in Nat /\ i <= Len(s)
    BY <1>2
  <2>2. Len(r) = Len(s) - i
    BY ZenonT(60), <2>1, QueueCut
  <2>3. r \in Seq(S)
    BY <1>2, <2>1
  <2>4. \A j \in 1 .. Len(s) - i : r[j] = s[j + i]
    BY <1>2, <2>1
  <2> QED BY <2>2, <2>3, <2>4
<1> HIDE DEF l, r
<1>6. /\ u \in Seq(S) /\ Len(u) = Len(s) - 1
      /\ \A j \in 1 .. Len(s) - 1 : u[j] = IF j <= i - 1 THEN l[j] ELSE r[j - (i - 1)]
  <2>1. Len(l) + Len(r) = Len(s) - 1 /\ Len(l) \in Nat /\ Len(r) \in Nat
    BY <1>2, <1>4, <1>5
  <2>2. /\ u \in Seq(S) /\ Len(u) = Len(l) + Len(r)
        /\ \A j \in 1 .. Len(l) + Len(r) : u[j] = IF j <= Len(l) THEN l[j] ELSE r[j - Len(l)]
    BY <1>4, <1>5
  <2> QED BY <1>4, <2>1, <2>2
<1> HIDE DEF u
<1>7. \A j \in i .. Len(s) - 1 : u[j] = s[j + 1]
  <2> SUFFICES ASSUME NEW j \in i .. Len(s) - 1 PROVE u[j] = s[j + 1]
    OBVIOUS
  <2>1. u[j] = r[j - (i - 1)]
    BY <1>2, <1>6
  <2>2. j - (i - 1) \in 1 .. Len(s) - i /\ (j - (i - 1)) + i = j + 1
    BY <1>2
  <2> QED BY <1>5, <2>1, <2>2
<1>8. u \in Seq(S) /\ Len(u) = Len(s) - 1 /\ \A j \in 1 .. i - 1 : u[j] = s[j]
  <2>1. \A j \in 1 .. i - 1 : j \in 1 .. Len(s) - 1 /\ j <= i - 1
    BY <1>2
  <2> QED BY Zenon, <1>4, <1>6, <2>1
<1>9. \A j, k \in 1 .. Len(s) : s[j] = s[k] => j = k
  BY <1>2 DEF Queue, IsInjective
<1>10. \A j, k \in 1 .. Len(u) : u[j] = u[k] => j = k
  BY <1>2, <1>7, <1>8, <1>9
<1>11. u \in Queue(S)
  BY <1>8, <1>10 DEF Queue, IsInjective
<1>12. ASSUME NEW y \in Range(u) PROVE y \in Range(s) \ {x}
  <2>1. PICK j \in 1 .. Len(u) : u[j] = y
    BY <1>8 DEF Range
  <2>2. CASE j < i
    <3>1. j \in 1 .. Len(s) /\ s[j] = y /\ j # i
      BY <1>2, <1>8, <2>1, <2>2
    <3> QED BY Zenon, <1>1, <1>2, <1>9, <3>1 DEF Range
  <2>3. CASE j >= i
    <3>1. j + 1 \in 1 .. Len(s) /\ s[j + 1] = y /\ j + 1 # i
      BY <1>2, <1>7, <1>8, <2>1, <2>3
    <3> QED BY Zenon, <1>1, <1>2, <1>9, <3>1 DEF Range
  <2> QED BY <1>2, <1>8, <2>1, <2>2, <2>3
<1>13. ASSUME NEW y \in Range(s), y # x PROVE y \in Range(u)
  <2>1. PICK j \in 1 .. Len(s) : s[j] = y
    BY <1>2 DEF Range
  <2>2. CASE j < i
    BY <1>2, <1>8, <2>1, <2>2 DEF Range
  <2>3. CASE j > i
    <3>1. j - 1 \in i .. Len(s) - 1 /\ u[j - 1] = s[j]
      BY <1>2, <1>7, <2>1, <2>3
    <3> QED BY <1>2, <1>8, <2>1, <3>1 DEF Range
  <2> QED BY <1>1, <1>2, <1>13, <2>1, <2>2, <2>3
<1> QED BY Zenon, <1>3, <1>11, <1>12, <1>13

---------------------------------------------------------------------------
(* The blocks of a page.                                                   *)

BlockOffsets(b) == {i * sizes[b] : i \in 0 .. NBlocks(b) - 1}

\* A page has a block at least; the blocks are where the assertions of kfree want them.
LEMMA Blocks ==
  ASSUME NEW b \in BlockType
  PROVE  /\ sizes[b] \in Nat \ {0} /\ NBlocks(b) \in Nat \ {0}
         /\ BlockOffsets(b) \subseteq 0 .. PAGE_SIZE - 1
         /\ \A o \in BlockOffsets(b) : o % sizes[b] = 0
<1>1. sizes[b] \in Nat \ {0} /\ sizes[b] <= PAGE_SIZE /\ PAGE_SIZE \in Nat
  BY HeapAssumption DEF BlockType
<1>2. PICK s \in Nat : s = sizes[b] /\ s # 0
  BY <1>1
<1>3. NBlocks(b) = PAGE_SIZE \div s
  BY Zenon, <1>2 DEF NBlocks
<1>4. PAGE_SIZE \div s \in Nat \ {0}
  BY <1>1, <1>2
<1>5. ASSUME NEW i \in 0 .. (PAGE_SIZE \div s) - 1
      PROVE  i * s \in 0 .. PAGE_SIZE - 1 /\ (i * s) % s = 0
  <2>1. i \in Nat /\ i < PAGE_SIZE \div s
    BY <1>4
  <2>2. i * s < PAGE_SIZE
    BY <1>1, <1>2, <2>1
  <2>3. i * s \in Nat /\ (i * s) % s = 0
    BY <1>2, <2>1
  <2> QED BY <1>1, <2>2, <2>3
<1> QED BY Zenon, <1>1, <1>2, <1>3, <1>4, <1>5 DEF BlockOffsets

\* There are NBlocks of them.
LEMMA BlocksCount ==
  ASSUME NEW b \in BlockType
  PROVE  /\ IsFiniteSet(BlockOffsets(b)) /\ Cardinality(BlockOffsets(b)) = NBlocks(b)
<1>1. PICK s \in Nat : s = sizes[b] /\ s # 0
  BY Blocks
<1>2. PICK n \in Nat : n = NBlocks(b)
  BY Blocks
<1>3. BlockOffsets(b) = {i * s : i \in 0 .. n - 1}
  BY Zenon, <1>1, <1>2 DEF BlockOffsets
<1> DEFINE B == {i * s : i \in 0 .. n - 1}
           f == [i \in 1 .. n |-> (i - 1) * s]
<1>4. \A i, j \in 1 .. n : (i - 1) * s = (j - 1) * s => i = j
  BY <1>1
<1>5. \A i \in 1 .. n : i - 1 \in 0 .. n - 1 /\ (i - 1) * s \in B
  OBVIOUS
<1>6. \A o \in B : \E i \in 1 .. n : (i - 1) * s = o
  <2> SUFFICES ASSUME NEW k \in 0 .. n - 1 PROVE \E i \in 1 .. n : (i - 1) * s = k * s
    BY Zenon
  <2>1. k + 1 \in 1 .. n /\ (k + 1) - 1 = k
    OBVIOUS
  <2> QED BY Zenon, <2>1
<1> HIDE DEF B
<1>7. f \in [1 .. n -> B] /\ \A i \in 1 .. n : f[i] = (i - 1) * s
  BY Zenon, <1>5
<1> HIDE DEF f
<1>8. f \in Injection(1 .. n, B)
  BY Zenon, <1>4, <1>7 DEF Injection, IsInjective
<1>9. f \in Surjection(1 .. n, B)
  BY Zenon, <1>6, <1>7 DEF Surjection
<1>10. IsFiniteSet(1 .. n) /\ Cardinality(1 .. n) = n
  BY Zenon, IntervalCount
<1>11. IsFiniteSet(B) /\ Cardinality(B) = n
  BY Zenon, <1>8, <1>9, <1>10, FS_Surjection
<1> QED BY Zenon, <1>2, <1>3, <1>11 DEF B

\* A function on 1 .. n is a sequence.
LEMMA FunctionIsSeq ==
  ASSUME NEW T, NEW n \in Nat, NEW g \in [1 .. n -> T]
  PROVE  g \in Seq(T) /\ Len(g) = n /\ DOMAIN g = 1 .. n
  OBVIOUS

\* The free list of a new page has all of them.
LEMMA NewFreelist ==
  ASSUME NEW b \in BlockType
  PROVE  /\ Freelist(b) \in Queue(0 .. PAGE_SIZE - 1)
         /\ Range(Freelist(b)) = BlockOffsets(b)
         /\ Len(Freelist(b)) = NBlocks(b)
<1>1. PICK s \in Nat : s = sizes[b] /\ s # 0
  BY Blocks
<1>2. PICK n \in Nat : n = NBlocks(b)
  BY Blocks
<1>3. BlockOffsets(b) = {i * s : i \in 0 .. n - 1}
  BY Zenon, <1>1, <1>2 DEF BlockOffsets
<1> DEFINE f == [i \in 1 .. n |-> (n - i) * s]
<1>4. Freelist(b) = f
  BY Zenon, <1>1, <1>2 DEF Freelist
<1>5. \A i, j \in 1 .. n : (n - i) * s = (n - j) * s => i = j
  BY <1>1
<1>6. \A i \in 1 .. n : (n - i) * s \in BlockOffsets(b)
  <2> SUFFICES ASSUME NEW i \in 1 .. n PROVE (n - i) * s \in {k * s : k \in 0 .. n - 1}
    BY Zenon, <1>3
  <2>1. n - i \in 0 .. n - 1
    OBVIOUS
  <2> QED BY Zenon, <2>1
<1>7. \A o \in BlockOffsets(b) : \E i \in 1 .. n : (n - i) * s = o
  <2> SUFFICES ASSUME NEW k \in 0 .. n - 1 PROVE \E i \in 1 .. n : (n - i) * s = k * s
    BY Zenon, <1>3
  <2>1. n - k \in 1 .. n /\ n - (n - k) = k
    OBVIOUS
  <2> QED BY Zenon, <2>1
<1>8. BlockOffsets(b) \subseteq 0 .. PAGE_SIZE - 1
  BY Zenon, Blocks
<1>9. f \in Seq(0 .. PAGE_SIZE - 1) /\ Len(f) = n /\ DOMAIN f = 1 .. n
  <2>1. f \in [1 .. n -> 0 .. PAGE_SIZE - 1]
    BY Zenon, <1>6, <1>8
  <2> QED BY Zenon, <2>1, FunctionIsSeq
<1>10. IsInjective(f)
  BY Zenon, <1>5 DEF IsInjective
<1>11. Range(f) = BlockOffsets(b)
  BY Zenon, <1>6, <1>7 DEF Range
<1> QED BY Zenon, <1>2, <1>4, <1>9, <1>10, <1>11 DEF Queue

---------------------------------------------------------------------------
(* The account of a page of blocks, with clients that hold the pointers H. *)

Offset == 0 .. PAGE_SIZE - 1

Offsets(H, f) == {x.off : x \in {y \in H : y.page = f}}

Account(H, p) ==
  /\ p.nfree = Len(p.freelist)
  /\ Offsets(H, p.page) \cup Range(p.freelist) = BlockOffsets(p.blktype)
  /\ Offsets(H, p.page) \cap Range(p.freelist) = {}

\* BlocksOf is the account of a pageref.
LEMMA BlocksAccount ==
  ASSUME NEW r, pr[r].freelist \in Queue(Offset)
  PROVE  BlocksOf(r) <=> Account(held, pr[r])
  BY Zenon DEF BlocksOf, Account, Offsets, BlockOffsets, Queue

\* A pointer is a page and an offset.
LEMMA Pointers ==
  /\ \A x \in Pointer : x.page \in Frame /\ x.off \in Offset
  /\ \A f \in Frame : \A o \in Offset :
       LET x == [page |-> f, off |-> o] IN x \in Pointer /\ x.page = f /\ x.off = o
  /\ \A x, y \in Pointer : x.page = y.page /\ x.off = y.off => x = y
  BY DEF Pointer, Offset

\* The fields of a pageref with another free list.
LEMMA SetFreelist ==
  ASSUME NEW p \in PrRecord, NEW fl \in Queue(Offset), NEW n \in Nat
  PROVE  LET q == WithFreelist(p, fl, n)
         IN /\ q \in PrRecord /\ q.page = p.page /\ q.blktype = p.blktype
            /\ q.freelist = fl /\ q.nfree = n
  BY DEF PrRecord, WithFreelist, Offset

\* The fields of any pageref.
LEMMA PrFields ==
  ASSUME NEW p \in PrRecord
  PROVE  /\ p.page \in Frame \cup {NoFrame} /\ p.blktype \in BlockType
         /\ p.freelist \in Queue(Offset) /\ p.nfree \in Nat
  BY DEF PrRecord, Offset

\* The offsets when a pointer is given to a client or comes back.
LEMMA MoreOffsets ==
  ASSUME NEW H, NEW x, NEW f, x.page = f
  PROVE  Offsets(H \cup {x}, f) = Offsets(H, f) \cup {x.off}
<1>1. \A o : o \in Offsets(H \cup {x}, f) <=> o \in Offsets(H, f) \/ o = x.off
  BY Zenon DEF Offsets
<1> QED BY Zenon, <1>1

\* A pointer into another page is none of them, ...
LEMMA SameOffsets ==
  ASSUME NEW H, NEW x, NEW f, x.page # f
  PROVE  Offsets(H \cup {x}, f) = Offsets(H, f) /\ Offsets(H \ {x}, f) = Offsets(H, f)
<1>1. \A o : o \in Offsets(H \cup {x}, f) <=> o \in Offsets(H, f)
  BY Zenon DEF Offsets
<1>2. \A o : o \in Offsets(H \ {x}, f) <=> o \in Offsets(H, f)
  BY Zenon DEF Offsets
<1> QED BY Zenon, <1>1, <1>2

\* ... and one that is freed is no longer one of them.
LEMMA LessOffsets ==
  ASSUME NEW H \in SUBSET Pointer, NEW x \in H
  PROVE  Offsets(H \ {x}, x.page) = Offsets(H, x.page) \ {x.off}
<1>1. ASSUME NEW o \in Offsets(H \ {x}, x.page) PROVE o \in Offsets(H, x.page) \ {x.off}
  <2>1. PICK y \in H \ {x} : y.page = x.page /\ o = y.off
    BY Zenon DEF Offsets
  <2>2. x \in Pointer /\ y \in Pointer
    BY Zenon
  <2>3. y.off # x.off
    BY Zenon, <2>1, <2>2, Pointers
  <2> QED BY Zenon, <2>1, <2>3 DEF Offsets
<1>2. ASSUME NEW o \in Offsets(H, x.page), o # x.off PROVE o \in Offsets(H \ {x}, x.page)
  BY Zenon, <1>2 DEF Offsets
<1> QED BY Zenon, <1>1, <1>2

\* doalloc.
LEMMA AccountTake ==
  ASSUME NEW H \in SUBSET Pointer, NEW p \in PrRecord, p.page \in Frame,
         Account(H, p), p.nfree > 0
  PROVE  LET q == WithFreelist(p, Tail(p.freelist), p.nfree - 1)
             x == [page |-> p.page, off |-> Head(p.freelist)]
         IN /\ q \in PrRecord /\ q.page = p.page /\ q.blktype = p.blktype
            /\ x \in Pointer \ H /\ x.page = p.page
            /\ Account(H \cup {x}, q)
            /\ (p.nfree = 1) = (Len(p.freelist) = 1)
<1> DEFINE fl == p.freelist
           q == WithFreelist(p, Tail(fl), p.nfree - 1)
           x == [page |-> p.page, off |-> Head(fl)]
<1>1. fl \in Queue(Offset) /\ p.nfree \in Nat /\ p.nfree = Len(fl)
  BY PrFields DEF Account
<1>2. fl # <<>>
  BY <1>1 DEF Queue
<1>3. /\ Head(fl) \in Offset /\ Head(fl) \in Range(fl)
      /\ Tail(fl) \in Queue(Offset) /\ Range(Tail(fl)) = Range(fl) \ {Head(fl)}
      /\ Len(Tail(fl)) = Len(fl) - 1
  BY Zenon, <1>1, <1>2, QueueTail
<1>4. p.nfree - 1 \in Nat
  BY <1>1
<1>5. /\ q \in PrRecord /\ q.page = p.page /\ q.blktype = p.blktype
      /\ q.freelist = Tail(fl) /\ q.nfree = p.nfree - 1
  BY ZenonT(60), <1>3, <1>4, SetFreelist
<1>6. x \in Pointer /\ x.page = p.page /\ x.off = Head(fl)
  BY Zenon, <1>3, Pointers
<1> HIDE DEF q, x
<1>7. x \notin H
  BY Zenon, <1>3, <1>6 DEF Account, Offsets
<1>8. Offsets(H \cup {x}, q.page) = Offsets(H, p.page) \cup {Head(fl)}
  <2>1. x.page = q.page
    BY Zenon, <1>5, <1>6
  <2>2. Offsets(H \cup {x}, q.page) = Offsets(H, q.page) \cup {x.off}
    BY Zenon, <2>1, MoreOffsets
  <2> QED BY Zenon, <1>5, <1>6, <2>2
<1>9. Account(H \cup {x}, q)
  <2>1. q.nfree = Len(q.freelist)
    BY Zenon, <1>1, <1>3, <1>5
  <2>2. Offsets(H \cup {x}, q.page) \cup Range(q.freelist) = BlockOffsets(q.blktype)
    BY Zenon, <1>3, <1>5, <1>8 DEF Account
  <2>3. Offsets(H \cup {x}, q.page) \cap Range(q.freelist) = {}
    BY Zenon, <1>3, <1>5, <1>8 DEF Account
  <2> QED BY Zenon, <2>1, <2>2, <2>3 DEF Account
<1> QED BY Zenon, <1>1, <1>5, <1>6, <1>7, <1>9 DEF q, x

\* A page is not concerned by pointers into others.
LEMMA AccountOther ==
  ASSUME NEW H, NEW p, NEW x, x.page # p.page, Account(H, p)
  PROVE  Account(H \cup {x}, p) /\ Account(H \ {x}, p)
<1>1. /\ Offsets(H \cup {x}, p.page) = Offsets(H, p.page)
      /\ Offsets(H \ {x}, p.page) = Offsets(H, p.page)
  BY Zenon, SameOffsets
<1> QED BY Zenon, <1>1 DEF Account

\* A new page: nobody has a pointer into it.
LEMMA AccountNew ==
  ASSUME NEW H \in SUBSET Pointer, NEW f \in Frame, NEW b \in BlockType,
         \A y \in H : y.page # f
  PROVE  LET p == [page |-> f, blktype |-> b, freelist |-> Freelist(b), nfree |-> NBlocks(b)]
         IN /\ p \in PrRecord /\ p.page = f /\ p.blktype = b /\ p.nfree > 0
            /\ Account(H, p)
<1> DEFINE p == [page |-> f, blktype |-> b, freelist |-> Freelist(b), nfree |-> NBlocks(b)]
<1>1. /\ Freelist(b) \in Queue(Offset) /\ Range(Freelist(b)) = BlockOffsets(b)
      /\ Len(Freelist(b)) = NBlocks(b) /\ NBlocks(b) \in Nat \ {0}
  BY Zenon, NewFreelist, Blocks DEF Offset
<1>2. /\ p \in PrRecord /\ p.page = f /\ p.blktype = b /\ p.nfree = NBlocks(b)
      /\ p.freelist = Freelist(b)
  BY <1>1 DEF PrRecord, Offset
<1> HIDE DEF p
<1>3. Offsets(H, f) = {}
  BY Zenon DEF Offsets
<1>4. Account(H, p)
  BY Zenon, <1>1, <1>2, <1>3 DEF Account
<1>5. p.nfree > 0
  BY <1>1, <1>2
<1> QED BY Zenon, <1>2, <1>4, <1>5 DEF p

\* No more blocks are free than there are.
LEMMA AccountBound ==
  ASSUME NEW H, NEW p \in PrRecord, Account(H, p)
  PROVE  /\ p.nfree <= NBlocks(p.blktype)
         /\ IsFiniteSet(Range(p.freelist)) /\ Cardinality(Range(p.freelist)) = p.nfree
         /\ Range(p.freelist) \in SUBSET BlockOffsets(p.blktype)
<1>1. /\ p.freelist \in Queue(Offset) /\ p.blktype \in BlockType
  BY Zenon, PrFields
<1>2. IsFiniteSet(Range(p.freelist)) /\ Cardinality(Range(p.freelist)) = p.nfree
  BY Zenon, <1>1, QueueCount DEF Account
<1>3. Range(p.freelist) \in SUBSET BlockOffsets(p.blktype)
  BY Zenon DEF Account
<1>4. Cardinality(Range(p.freelist)) <= Cardinality(BlockOffsets(p.blktype))
  BY Zenon, <1>1, <1>3, BlocksCount, FS_Subset
<1> QED BY Zenon, <1>1, <1>2, <1>3, <1>4, BlocksCount

\* What subpage_kfree relies on for a pointer x into the page, and leaves behind.
LEMMA AccountGive ==
  ASSUME NEW H \in SUBSET Pointer, NEW p \in PrRecord, NEW x \in H, x.page = p.page,
         Account(H, p)
  PROVE  LET q == WithFreelist(p, <<x.off>> \o p.freelist, p.nfree + 1)
         IN /\ x.off % sizes[p.blktype] = 0
            /\ p.freelist # <<>> => x.off # Head(p.freelist)
            /\ p.nfree < NBlocks(p.blktype)
            /\ p.nfree + 1 = NBlocks(p.blktype) => \A y \in H : y.page = p.page => y = x
            /\ q \in PrRecord /\ q.page = p.page /\ q.blktype = p.blktype
            /\ Account(H \ {x}, q)
<1> DEFINE fl == p.freelist
           b == p.blktype
           o == x.off
           q == WithFreelist(p, <<o>> \o fl, p.nfree + 1)
<1>1. fl \in Queue(Offset) /\ b \in BlockType /\ p.nfree \in Nat /\ o \in Offset
  BY Zenon, PrFields, Pointers
<1>2. o \in Offsets(H, p.page)
  BY Zenon DEF Offsets
<1>3. o \in BlockOffsets(b) /\ o \notin Range(fl)
  BY Zenon, <1>2 DEF Account
<1>4. o % sizes[b] = 0
  BY Zenon, <1>1, <1>3, Blocks
<1>5. fl # <<>> => o # Head(fl)
  <2>1. fl # <<>> => Head(fl) \in Range(fl)
    BY Zenon, <1>1, QueueTail
  <2> QED BY Zenon, <1>3, <2>1
<1>6. /\ <<o>> \o fl \in Queue(Offset) /\ Range(<<o>> \o fl) = {o} \cup Range(fl)
      /\ Len(<<o>> \o fl) = Len(fl) + 1
  BY Zenon, <1>1, <1>3, QueuePush
<1>7. p.nfree + 1 \in Nat
  BY <1>1
<1>8. /\ q \in PrRecord /\ q.page = p.page /\ q.blktype = b
      /\ q.freelist = <<o>> \o fl /\ q.nfree = p.nfree + 1
  BY ZenonT(60), <1>6, <1>7, SetFreelist
<1> HIDE DEF q
<1>9. Offsets(H \ {x}, p.page) = Offsets(H, p.page) \ {o}
  BY Zenon, LessOffsets
<1>10. Account(H \ {x}, q)
  <2>1. q.nfree = Len(q.freelist)
    BY Zenon, <1>6, <1>8 DEF Account
  <2>2. Offsets(H \ {x}, q.page) \cup Range(q.freelist) = BlockOffsets(q.blktype)
    BY Zenon, <1>2, <1>6, <1>8, <1>9 DEF Account
  <2>3. Offsets(H \ {x}, q.page) \cap Range(q.freelist) = {}
    BY Zenon, <1>6, <1>8, <1>9 DEF Account
  <2> QED BY Zenon, <2>1, <2>2, <2>3 DEF Account
<1>11. q.nfree <= NBlocks(b) /\ Cardinality(Range(q.freelist)) = q.nfree
       /\ Range(q.freelist) \in SUBSET BlockOffsets(b)
  BY Zenon, <1>8, <1>10, AccountBound
<1>12. p.nfree < NBlocks(b)
  <2>1. NBlocks(b) \in Nat
    BY <1>1, Blocks
  <2> QED BY <1>1, <1>8, <1>11, <2>1
<1>13. ASSUME p.nfree + 1 = NBlocks(b), NEW y \in H, y.page = p.page PROVE y = x
  <2>1. Cardinality(Range(q.freelist)) = Cardinality(BlockOffsets(b))
    BY Zenon, <1>1, <1>8, <1>11, <1>13, BlocksCount
  <2>2. Range(q.freelist) = BlockOffsets(b)
    BY Zenon, <1>1, <1>11, <2>1, BlocksCount, FS_Subset
  <2>3. y.off \in Offsets(H, p.page)
    BY Zenon, <1>13 DEF Offsets
  <2>4. y.off \notin Range(fl) /\ y.off \in BlockOffsets(b)
    BY Zenon, <2>3 DEF Account
  <2>5. y.off = o
    BY Zenon, <1>6, <1>8, <2>2, <2>4
  <2> QED BY Zenon, <1>13, <2>5, Pointers
<1> QED BY Zenon, <1>4, <1>5, <1>8, <1>10, <1>12, <1>13 DEF q

---------------------------------------------------------------------------
(* The bits of the pages of pagerefs.                                      *)

RefsOf(k) == {<<k, i>> : i \in Ref}

BitsOf(k) == {r \in inuse : RootOf(r) = k}

\* A page has NPAGEREFS_PER_PAGE pagerefs.
LEMMA RefsCount ==
  ASSUME NEW k \in Root
  PROVE  /\ IsFiniteSet(RefsOf(k)) /\ Cardinality(RefsOf(k)) = NPAGEREFS_PER_PAGE
         /\ RefsOf(k) \subseteq Pageref /\ \A r \in Pageref : RootOf(r) = k <=> r \in RefsOf(k)
<1>1. /\ IsFiniteSet(1 .. NPAGEREFS_PER_PAGE)
      /\ Cardinality(1 .. NPAGEREFS_PER_PAGE) = NPAGEREFS_PER_PAGE
  <2>1. NPAGEREFS_PER_PAGE \in Nat
    BY HeapAssumption
  <2> QED BY Zenon, <2>1, IntervalCount
<1> DEFINE N == 1 .. NPAGEREFS_PER_PAGE
           g == [i \in N |-> <<k, i - 1>>]
<1>2. \A i \in N : i - 1 \in Ref
  BY HeapAssumption DEF Ref
<1>3. \A i \in Ref : i + 1 \in N /\ (i + 1) - 1 = i
  BY HeapAssumption DEF Ref
<1>4. \A i, j \in N : i - 1 = j - 1 => i = j
  BY HeapAssumption
<1> HIDE DEF N
<1>5. g \in [N -> RefsOf(k)] /\ \A i \in N : g[i] = <<k, i - 1>>
  BY Zenon, <1>2 DEF RefsOf
<1> HIDE DEF g
<1>6. \A i, j \in N : g[i] = g[j] => i = j
  BY <1>4, <1>5
<1>7. \A r \in RefsOf(k) : \E i \in N : g[i] = r
  <2> SUFFICES ASSUME NEW j \in Ref PROVE \E i \in N : g[i] = <<k, j>>
    BY Zenon DEF RefsOf
  <2>1. g[j + 1] = <<k, j>>
    BY Zenon, <1>3, <1>5
  <2> QED BY Zenon, <1>3, <2>1
<1>8. g \in Injection(N, RefsOf(k)) /\ g \in Surjection(N, RefsOf(k))
  BY Zenon, <1>5, <1>6, <1>7 DEF Injection, Surjection, IsInjective
<1>9. IsFiniteSet(N) /\ Cardinality(N) = NPAGEREFS_PER_PAGE
  BY Zenon, <1>1 DEF N
<1>10. IsFiniteSet(RefsOf(k)) /\ Cardinality(RefsOf(k)) = NPAGEREFS_PER_PAGE
  BY Zenon, <1>8, <1>9, FS_Surjection
<1>11. RefsOf(k) \subseteq Pageref /\ \A r \in Pageref : RootOf(r) = k <=> r \in RefsOf(k)
  BY DEF Pageref, RefsOf, RootOf
<1> QED BY Zenon, <1>10, <1>11

\* The bits that are set are no more than that; if they are fewer, one is clear.
LEMMA BitsCount ==
  ASSUME HeapType, NEW k \in Root
  PROVE  /\ IsFiniteSet(BitsOf(k)) /\ Cardinality(BitsOf(k)) \in Nat
         /\ Cardinality(BitsOf(k)) <= NPAGEREFS_PER_PAGE
         /\ Cardinality(BitsOf(k)) < NPAGEREFS_PER_PAGE => \E i \in Ref : <<k, i>> \notin inuse
<1>1. BitsOf(k) \in SUBSET RefsOf(k)
  BY Zenon, RefsCount DEF BitsOf, HeapType
<1>2. /\ IsFiniteSet(BitsOf(k))
      /\ Cardinality(BitsOf(k)) <= NPAGEREFS_PER_PAGE
  <2>1. IsFiniteSet(RefsOf(k)) /\ Cardinality(RefsOf(k)) = NPAGEREFS_PER_PAGE
    BY Zenon, RefsCount
  <2>2. IsFiniteSet(BitsOf(k)) /\ Cardinality(BitsOf(k)) <= Cardinality(RefsOf(k))
    BY Zenon, <1>1, <2>1, FS_Subset
  <2> QED BY Zenon, <2>1, <2>2
<1>3. Cardinality(BitsOf(k)) \in Nat
  BY Zenon, <1>2, FS_CardinalityType
<1>4. ASSUME Cardinality(BitsOf(k)) < NPAGEREFS_PER_PAGE, \A i \in Ref : <<k, i>> \in inuse
      PROVE  FALSE
  <2>1. RefsOf(k) \subseteq BitsOf(k)
    <3>1. \A r \in RefsOf(k) : r \in inuse
      BY Zenon, <1>4 DEF RefsOf
    <3>2. \A r \in RefsOf(k) : RootOf(r) = k
      BY Zenon, RefsCount
    <3> QED BY Zenon, <3>1, <3>2 DEF BitsOf
  <2>2. RefsOf(k) = BitsOf(k)
    BY Zenon, <1>1, <2>1
  <2>3. Cardinality(BitsOf(k)) = NPAGEREFS_PER_PAGE
    BY Zenon, <2>2, RefsCount
  <2> QED BY <1>3, <1>4, <2>3
<1> QED BY Zenon, <1>2, <1>3, <1>4

\* The root that allocpageref settles for and the pageref it finds there.
NewRoot == Min({k \in Root : kheaproots[k].numinuse < NPAGEREFS_PER_PAGE})
NewRef == <<NewRoot, Min({i \in Ref : <<NewRoot, i>> \notin inuse})>>

\* Its bit is clear, and the pages of pagerefs before its own are full.
LEMMA NewRefIsFree ==
  ASSUME HeapInv, {k \in Root : kheaproots[k].numinuse < NPAGEREFS_PER_PAGE} # {}
  PROVE  /\ NewRoot \in Root /\ NewRef \in Pageref /\ RootOf(NewRef) = NewRoot /\ NewRef \notin inuse
         /\ \A k \in Root : k < NewRoot => ~(kheaproots[k].numinuse < NPAGEREFS_PER_PAGE)
<1> DEFINE K == {k \in Root : kheaproots[k].numinuse < NPAGEREFS_PER_PAGE}
           I == {i \in Ref : <<NewRoot, i>> \notin inuse}
<1>1. Root \subseteq Nat /\ Ref \subseteq Nat
  BY HeapAssumption DEF Root, Ref
<1>2. K \subseteq Nat /\ K # {}
  BY Zenon, <1>1
<1>3. NewRoot \in K /\ \A k \in K : NewRoot <= k
  BY Zenon, <1>2, MinIsLeast DEF NewRoot
<1>4. NewRoot \in Root /\ kheaproots[NewRoot].numinuse < NPAGEREFS_PER_PAGE
  BY Zenon, <1>3
<1>5. \A k \in Root : k < NewRoot => ~(kheaproots[k].numinuse < NPAGEREFS_PER_PAGE)
  <2>1. \A k \in Root : k < NewRoot => ~(NewRoot <= k)
    BY <1>1, <1>4
  <2> QED BY Zenon, <1>3, <2>1
<1>6. Cardinality(BitsOf(NewRoot)) < NPAGEREFS_PER_PAGE
  BY Zenon, <1>4 DEF HeapInv, BitsInv, BitsOf
<1>7. I # {} /\ I \subseteq Nat
  BY Zenon, <1>1, <1>4, <1>6, BitsCount DEF HeapInv
<1>8. Min(I) \in I
  BY Zenon, <1>7, MinIsLeast
<1>9. Min(I) \in Ref /\ NewRef = <<NewRoot, Min(I)>> /\ <<NewRoot, Min(I)>> \notin inuse
  BY Zenon, <1>8 DEF NewRef
<1>10. <<NewRoot, Min(I)>> \in Pageref /\ RootOf(<<NewRoot, Min(I)>>) = NewRoot
  <2> HIDE DEF I
  <2> QED BY <1>4, <1>9 DEF Pageref, RootOf
<1> QED BY Zenon, <1>4, <1>5, <1>9, <1>10

\* When allocpageref passes a root, its page exists: there are not enough threads for
\* its pagerefs to be all in the hands of calls that have yet to allocate it.
LEMMA LowerRoots ==
  ASSUME HeapInv, NEW t \in Thread, ~HasPrpage(t), NEW k \in Root,
         ~(kheaproots[k].numinuse < NPAGEREFS_PER_PAGE)
  PROVE  kheaproots[k].page # NoFrame
<1> SUFFICES ASSUME kheaproots[k].page = NoFrame PROVE FALSE
  BY Zenon
<1>1. BitsOf(k) \subseteq Pending
  BY Zenon DEF HeapInv, BitsInv, RootsInv, BitsOf
<1> DEFINE P == {u \in Thread : HasPrpage(u) /\ RootOf(loc[u].pr) = k}
           g == [u \in P |-> loc[u].pr]
<1>2. \A u \in P : loc[u].pr \in BitsOf(k)
  <2>1. \A u \in P : loc[u].pr \in Pending
    BY Zenon DEF Pending
  <2> QED BY Zenon, <2>1 DEF HeapInv, BitsInv, BitsOf
<1>3. \A r \in BitsOf(k) : \E u \in P : loc[u].pr = r
  BY Zenon, <1>1 DEF Pending, BitsOf
<1>4. t \notin P /\ P \subseteq Thread
  BY Zenon
<1> HIDE DEF P
<1>5. g \in [P -> BitsOf(k)] /\ \A u \in P : g[u] = loc[u].pr
  BY Zenon, <1>2
<1> HIDE DEF g
<1>6. g \in Surjection(P, BitsOf(k))
  BY Zenon, <1>3, <1>5 DEF Surjection
<1>7. IsFiniteSet(Thread) /\ Cardinality(Thread) <= NPAGEREFS_PER_PAGE
  BY Zenon, HeapAssumption
<1>8. /\ IsFiniteSet(Thread \ {t})
      /\ Cardinality(Thread \ {t}) = IF t \in Thread THEN Cardinality(Thread) - 1
                                                     ELSE Cardinality(Thread)
  BY Zenon, <1>7, FS_RemoveElement
<1>9. P \in SUBSET (Thread \ {t})
  BY Zenon, <1>4
<1>10. IsFiniteSet(P) /\ Cardinality(P) <= Cardinality(Thread \ {t})
  BY Zenon, <1>8, <1>9, FS_Subset
<1>11. Cardinality(BitsOf(k)) <= Cardinality(P)
  BY Zenon, <1>6, <1>10, FS_Surjection
<1>12. Cardinality(Thread) \in Nat /\ Cardinality(P) \in Nat
  BY Zenon, <1>7, <1>10, FS_CardinalityType
<1>13. Cardinality(BitsOf(k)) \in Nat /\ ~(Cardinality(BitsOf(k)) < NPAGEREFS_PER_PAGE)
  <2>1. kheaproots[k].numinuse = Cardinality(BitsOf(k))
    BY Zenon DEF HeapInv, BitsInv, BitsOf
  <2> QED BY Zenon, <2>1, BitsCount DEF HeapInv
<1>14. Cardinality(Thread \ {t}) = Cardinality(Thread) - 1
  BY Zenon, <1>8
<1>15. NPAGEREFS_PER_PAGE \in Nat
  BY HeapAssumption
<1> QED BY <1>7, <1>10, <1>11, <1>12, <1>13, <1>14, <1>15

\* A root gets another page, ...
LEMMA SetRootPage ==
  ASSUME HeapType, NEW k \in Root, NEW f \in Frame, kheaproots' = [kheaproots EXCEPT ![k].page = f]
  PROVE  /\ kheaproots' \in [Root -> RootRecord] /\ kheaproots'[k].page = f
         /\ \A j \in Root : j # k => kheaproots'[j].page = kheaproots[j].page
         /\ \A j \in Root : kheaproots'[j].numinuse = kheaproots[j].numinuse
<1>1. kheaproots \in [Root -> RootRecord]
  BY Zenon DEF HeapType
<1>2. kheaproots[k] \in [page : Frame \cup {NoFrame}, numinuse : Nat]
  BY Zenon, <1>1 DEF RootRecord
<1> DEFINE v == [kheaproots[k] EXCEPT !.page = f]
<1>3. v \in RootRecord /\ v.page = f /\ v.numinuse = kheaproots[k].numinuse
  BY <1>2 DEF RootRecord
<1>4. kheaproots' = [kheaproots EXCEPT ![k] = v]
  OBVIOUS
<1> HIDE DEF v
<1> QED BY <1>1, <1>3, <1>4

\* ... and another count.
LEMMA SetRootCount ==
  ASSUME HeapType, NEW k \in Root, NEW n \in Nat,
         kheaproots' = [kheaproots EXCEPT ![k].numinuse = n]
  PROVE  /\ kheaproots' \in [Root -> RootRecord] /\ kheaproots'[k].numinuse = n
         /\ \A j \in Root : j # k => kheaproots'[j].numinuse = kheaproots[j].numinuse
         /\ \A j \in Root : kheaproots'[j].page = kheaproots[j].page
<1>1. kheaproots \in [Root -> RootRecord]
  BY Zenon DEF HeapType
<1>2. kheaproots[k] \in [page : Frame \cup {NoFrame}, numinuse : Nat]
  BY Zenon, <1>1 DEF RootRecord
<1> DEFINE v == [kheaproots[k] EXCEPT !.numinuse = n]
<1>3. v \in RootRecord /\ v.numinuse = n /\ v.page = kheaproots[k].page
  BY <1>2 DEF RootRecord
<1>4. kheaproots' = [kheaproots EXCEPT ![k] = v]
  OBVIOUS
<1> HIDE DEF v
<1> QED BY <1>1, <1>3, <1>4

\* numinuse counts the bits.
Counted(R, I) == \A k \in Root : R[k].numinuse = Cardinality({r \in I : RootOf(r) = k})

\* A bit is set and counted, ...
LEMMA BitSet ==
  ASSUME HeapInv, NEW r \in Pageref, r \notin inuse, SetBit(r),
         kheaproots' = [kheaproots EXCEPT ![RootOf(r)].numinuse = @ + 1]
  PROVE  /\ inuse' = inuse \cup {r} /\ inuse' \subseteq Pageref
         /\ kheaproots' \in [Root -> RootRecord]
         /\ \A j \in Root : kheaproots'[j].page = kheaproots[j].page
         /\ Counted(kheaproots', inuse')
<1> DEFINE k == RootOf(r)
           n == kheaproots[k].numinuse + 1
<1>1. inuse' = inuse \cup {r} /\ inuse' \subseteq Pageref
  BY Zenon DEF SetBit, HeapInv, HeapType
<1>2. k \in Root
  BY DEF RootOf, Pageref
<1>3. kheaproots[k].numinuse \in Nat
  BY <1>2 DEF HeapInv, HeapType, RootRecord
<1>4. n \in Nat
  BY <1>3
<1>5. kheaproots' = [kheaproots EXCEPT ![k].numinuse = n]
  OBVIOUS
<1>6. \A j \in Root : kheaproots[j].numinuse = Cardinality(BitsOf(j))
  BY Zenon DEF HeapInv, BitsInv, BitsOf
<1> HIDE DEF k, n
<1>7. /\ kheaproots' \in [Root -> RootRecord] /\ kheaproots'[k].numinuse = n
      /\ \A j \in Root : j # k => kheaproots'[j].numinuse = kheaproots[j].numinuse
      /\ \A j \in Root : kheaproots'[j].page = kheaproots[j].page
  BY Zenon, <1>2, <1>4, <1>5, SetRootCount DEF HeapInv
<1>8. ASSUME NEW j \in Root PROVE kheaproots'[j].numinuse = Cardinality({s \in inuse' : RootOf(s) = j})
  <2>1. CASE j = k
    <3>1. {s \in inuse' : RootOf(s) = j} = BitsOf(k) \cup {r}
      BY Zenon, <1>1, <2>1 DEF BitsOf, k
    <3>2. IsFiniteSet(BitsOf(k)) /\ r \notin BitsOf(k)
      BY Zenon, <1>2, BitsCount DEF HeapInv, BitsOf
    <3>3. Cardinality(BitsOf(k) \cup {r}) = Cardinality(BitsOf(k)) + 1
      BY Zenon, <3>2, FS_AddElement
    <3> QED BY Zenon, <1>2, <1>6, <1>7, <2>1, <3>1, <3>3 DEF n
  <2>2. CASE j # k
    <3>1. {s \in inuse' : RootOf(s) = j} = BitsOf(j)
      BY Zenon, <1>1, <2>2 DEF BitsOf, k
    <3> QED BY Zenon, <1>6, <1>7, <2>2, <3>1
  <2> QED BY Zenon, <2>1, <2>2
<1> QED BY Zenon, <1>1, <1>7, <1>8 DEF Counted

\* ... and cleared, by freepageref.
LEMMA BitCleared ==
  ASSUME HeapInv, NEW r \in inuse, freepageref(r)
  PROVE  /\ inuse' = inuse \ {r} /\ inuse' \subseteq Pageref
         /\ kheaproots' \in [Root -> RootRecord]
         /\ \A j \in Root : kheaproots'[j].page = kheaproots[j].page
         /\ Counted(kheaproots', inuse')
         /\ RootOf(r) \in Root /\ kheaproots[RootOf(r)].numinuse > 0
<1> DEFINE k == RootOf(r)
           n == kheaproots[k].numinuse - 1
<1>1. inuse' = inuse \ {r} /\ inuse' \subseteq Pageref /\ r \in Pageref
  BY Zenon DEF freepageref, HeapInv, HeapType
<1>2. k \in Root
  BY <1>1 DEF RootOf, Pageref
<1>3. kheaproots[k].numinuse \in Nat
  BY <1>2 DEF HeapInv, HeapType, RootRecord
<1>4. kheaproots' = [kheaproots EXCEPT ![k].numinuse = n]
  BY DEF freepageref
<1>5. \A j \in Root : kheaproots[j].numinuse = Cardinality(BitsOf(j))
  BY Zenon DEF HeapInv, BitsInv, BitsOf
<1> HIDE DEF k
<1>6. IsFiniteSet(BitsOf(k)) /\ r \in BitsOf(k)
  BY Zenon, <1>2, BitsCount DEF HeapInv, BitsOf, k
<1>7. /\ IsFiniteSet(BitsOf(k) \ {r})
      /\ Cardinality(BitsOf(k) \ {r}) = Cardinality(BitsOf(k)) - 1
  BY Zenon, <1>6, FS_RemoveElement
<1>8. Cardinality(BitsOf(k) \ {r}) \in Nat
  BY Zenon, <1>7, FS_CardinalityType
<1>9. n = Cardinality(BitsOf(k) \ {r})
  BY Zenon, <1>2, <1>5, <1>7
<1>10. n \in Nat
  BY Zenon, <1>8, <1>9
<1>11. kheaproots[k].numinuse > 0
  BY <1>3, <1>10
<1> HIDE DEF n
<1>12. /\ kheaproots' \in [Root -> RootRecord] /\ kheaproots'[k].numinuse = n
       /\ \A j \in Root : j # k => kheaproots'[j].numinuse = kheaproots[j].numinuse
       /\ \A j \in Root : kheaproots'[j].page = kheaproots[j].page
  BY Zenon, <1>2, <1>4, <1>10, SetRootCount DEF HeapInv
<1>13. ASSUME NEW j \in Root PROVE kheaproots'[j].numinuse = Cardinality({s \in inuse' : RootOf(s) = j})
  <2>1. CASE j = k
    <3>1. {s \in inuse' : RootOf(s) = j} = BitsOf(k) \ {r}
      BY Zenon, <1>1, <2>1 DEF BitsOf, k
    <3> QED BY Zenon, <1>9, <1>12, <2>1, <3>1
  <2>2. CASE j # k
    <3>1. {s \in inuse' : RootOf(s) = j} = BitsOf(j)
      BY Zenon, <1>1, <2>2 DEF BitsOf, k
    <3> QED BY Zenon, <1>5, <1>12, <2>2, <3>1
  <2> QED BY Zenon, <2>1, <2>2
<1> QED BY Zenon, <1>1, <1>2, <1>11, <1>12, <1>13 DEF Counted, k

---------------------------------------------------------------------------
(* The lists.                                                              *)

\* What is listed, and which pointers are to a page.
LEMMA Lists ==
  ASSUME HeapType
  PROVE  /\ Listed \subseteq Pageref
         /\ \A x : On(x) = {} <=> \A r \in Listed : pr[r].page # x.page
         /\ \A x : On(x) # {} => allbase[Min(On(x))] \in Listed
                                 /\ pr[allbase[Min(On(x))]].page = x.page
         /\ \A x : x \in WholePages <=> x \in held /\ \A r \in Listed : pr[r].page # x.page
<1>1. allbase \in Seq(Pageref) /\ DOMAIN allbase \subseteq Nat
  BY DEF HeapType, Queue
<1>2. Listed \subseteq Pageref
  BY Zenon, <1>1, QueueEmpty DEF Listed
<1>3. \A x : On(x) = {} <=> \A r \in Listed : pr[r].page # x.page
  BY Zenon DEF On, Listed, Range
<1>4. ASSUME NEW x, On(x) # {}
      PROVE  allbase[Min(On(x))] \in Listed /\ pr[allbase[Min(On(x))]].page = x.page
  <2>1. On(x) \subseteq Nat
    BY Zenon, <1>1 DEF On
  <2>2. Min(On(x)) \in On(x)
    BY Zenon, <1>4, <2>1, MinIsLeast
  <2> QED BY Zenon, <2>2 DEF On, Listed, Range
<1>5. \A x : x \in WholePages <=> x \in held /\ On(x) = {}
  BY Zenon DEF WholePages
<1> QED BY Zenon, <1>2, <1>3, <1>4, <1>5

\* The same, after a step.
LEMMA ListsAfter ==
  ASSUME HeapType'
  PROVE  /\ Listed' \subseteq Pageref
         /\ \A x : x \in WholePages' <=> x \in held' /\ \A r \in Listed' : pr'[r].page # x.page
<1>1. allbase' \in Seq(Pageref)
  BY DEF HeapType, Queue
<1>2. Listed' \subseteq Pageref
  BY Zenon, <1>1, QueueEmpty DEF Listed
<1>3. \A x : On(x)' = {} <=> \A r \in Listed' : pr'[r].page # x.page
  BY Zenon DEF On, Listed, Range
<1>4. \A x : x \in WholePages' <=> x \in held' /\ On(x)' = {}
  BY Zenon DEF WholePages
<1> QED BY Zenon, <1>2, <1>3, <1>4

\* BlocksInv in terms of accounts, ...
LEMMA BlocksBefore ==
  ASSUME HeapType, BlocksInv, NEW r \in Listed
  PROVE  /\ r \in Pageref /\ pr[r] \in PrRecord /\ pr[r].page \in Frame
         /\ Account(held, pr[r])
<1>1. r \in Pageref
  BY Zenon, Lists
<1>2. pr[r] \in PrRecord
  BY Zenon, <1>1 DEF HeapType
<1>3. pr[r].freelist \in Queue(Offset)
  BY Zenon, <1>2, PrFields
<1> QED BY Zenon, <1>1, <1>2, <1>3, BlocksAccount DEF BlocksInv

\* ... and after a step.
LEMMA BlocksAfter ==
  ASSUME HeapType',
         \A r \in Listed' : Account(held', pr'[r]) /\ pr'[r].page \in Frame,
         \A r \in Pageref : r \notin Listed' => pr'[r] = NoPageref,
         \A x \in WholePages' : x.off = 0
  PROVE  BlocksInv'
<1> SUFFICES ASSUME NEW r \in Listed' PROVE BlocksOf(r)'
  BY Zenon DEF BlocksInv
<1>1. r \in Pageref
  BY Zenon, ListsAfter
<1>2. pr'[r] \in PrRecord
  BY Zenon, <1>1 DEF HeapType
<1>3. pr'[r].freelist \in Queue(Offset)
  BY Zenon, <1>2, PrFields
<1>4. Account(held', pr'[r])
  BY Zenon
<1> QED BY Zenon, <1>3, <1>4 DEF BlocksOf, Account, Offsets, BlockOffsets, Queue

\* The first usable page of a type.
LEMMA UsableFirst ==
  ASSUME HeapType, ListsInv, NEW b \in BlockType, Usable(b) # {}
  PROVE  LET r == sizebases[b][Min(Usable(b))] IN r \in Listed /\ pr[r].nfree > 0
<1>1. sizebases[b] \in Seq(Pageref) /\ DOMAIN sizebases[b] \subseteq Nat
  BY DEF HeapType, Queue
<1>2. Usable(b) \subseteq Nat
  BY Zenon, <1>1 DEF Usable
<1>3. Min(Usable(b)) \in Usable(b)
  BY Zenon, <1>2, MinIsLeast
<1>4. Min(Usable(b)) \in DOMAIN sizebases[b] /\ pr[sizebases[b][Min(Usable(b))]].nfree > 0
  BY Zenon, <1>3 DEF Usable
<1>5. sizebases[b][Min(Usable(b))] \in Range(sizebases[b])
  BY Zenon, <1>4 DEF Range
<1> QED BY Zenon, <1>4, <1>5 DEF ListsInv

---------------------------------------------------------------------------
(* The holders of the frames.                                              *)

\* What each has, before a step and after it.
LEMMA HoldOf ==
  /\ \A k \in Root : /\ <<"root", k>> \in Holder
                     /\ Hold[<<"root", k>>] = kheaproots[k].page
                     /\ Hold'[<<"root", k>>] = kheaproots'[k].page
  /\ \A r \in Pageref :
       /\ <<"blocks", r>> \in Holder
       /\ Hold[<<"blocks", r>>] = IF r \in Listed THEN pr[r].page ELSE NoFrame
       /\ Hold'[<<"blocks", r>>] = IF r \in Listed' THEN pr'[r].page ELSE NoFrame
  /\ \A x \in Pointer :
       /\ <<"page", x>> \in Holder
       /\ Hold[<<"page", x>>] = IF x \in WholePages THEN x.page ELSE NoFrame
       /\ Hold'[<<"page", x>>] = IF x \in WholePages' THEN x.page ELSE NoFrame
  /\ \A t \in Thread :
       /\ <<"va", t>> \in Holder
       /\ Hold[<<"va", t>>] = IF HasVa(t) THEN loc[t].va ELSE NoFrame
       /\ Hold'[<<"va", t>>] = IF HasVa(t)' THEN loc'[t].va ELSE NoFrame
  /\ \A t \in Thread :
       /\ <<"prpage", t>> \in Holder
       /\ Hold[<<"prpage", t>>] = IF HasPrpage(t) THEN loc[t].prpage ELSE NoFrame
       /\ Hold'[<<"prpage", t>>] = IF HasPrpage(t)' THEN loc'[t].prpage ELSE NoFrame
<1>1. ASSUME NEW k \in Kind, NEW y \in Of(k)
      PROVE  <<k, y>> \in Holder /\ Hold[<<k, y>>] = FrameOf(k, y)
             /\ Hold'[<<k, y>>] = FrameOf(k, y)'
  <2>1. <<k, y>> \in Holder
    <3>1. <<k, y>> \in {<<k, z>> : z \in Of(k)}
      BY Zenon
    <3> QED BY Zenon, <3>1 DEF Holder
  <2>2. <<k, y>>[1] = k /\ <<k, y>>[2] = y
    OBVIOUS
  <2> QED BY Zenon, <2>1, <2>2 DEF Hold
<1>2. /\ Of("root") = Root /\ Of("blocks") = Pageref /\ Of("page") = Pointer
      /\ Of("va") = Thread /\ Of("prpage") = Thread
  BY DEF Of
<1>3. "root" \in Kind /\ "blocks" \in Kind /\ "page" \in Kind /\ "va" \in Kind
      /\ "prpage" \in Kind
  BY DEF Kind
<1>4. ASSUME NEW k \in Root
      PROVE  FrameOf("root", k) = kheaproots[k].page /\ FrameOf("root", k)' = kheaproots'[k].page
  BY DEF FrameOf
<1>5. ASSUME NEW r \in Pageref
      PROVE  /\ FrameOf("blocks", r) = IF r \in Listed THEN pr[r].page ELSE NoFrame
             /\ FrameOf("blocks", r)' = IF r \in Listed' THEN pr'[r].page ELSE NoFrame
  BY DEF FrameOf
<1>6. ASSUME NEW x \in Pointer
      PROVE  /\ FrameOf("page", x) = IF x \in WholePages THEN x.page ELSE NoFrame
             /\ FrameOf("page", x)' = IF x \in WholePages' THEN x.page ELSE NoFrame
  BY DEF FrameOf
<1>7. ASSUME NEW t \in Thread
      PROVE  /\ FrameOf("va", t) = IF HasVa(t) THEN loc[t].va ELSE NoFrame
             /\ FrameOf("va", t)' = IF HasVa(t)' THEN loc'[t].va ELSE NoFrame
             /\ FrameOf("prpage", t) = IF HasPrpage(t) THEN loc[t].prpage ELSE NoFrame
             /\ FrameOf("prpage", t)' = IF HasPrpage(t)' THEN loc'[t].prpage ELSE NoFrame
  BY DEF FrameOf
<1>8. \A k \in Root : /\ <<"root", k>> \in Holder
                      /\ Hold[<<"root", k>>] = kheaproots[k].page
                      /\ Hold'[<<"root", k>>] = kheaproots'[k].page
  BY Zenon, <1>1, <1>2, <1>3, <1>4
<1>9. \A r \in Pageref :
       /\ <<"blocks", r>> \in Holder
       /\ Hold[<<"blocks", r>>] = IF r \in Listed THEN pr[r].page ELSE NoFrame
       /\ Hold'[<<"blocks", r>>] = IF r \in Listed' THEN pr'[r].page ELSE NoFrame
  BY Zenon, <1>1, <1>2, <1>3, <1>5
<1>10. \A x \in Pointer :
       /\ <<"page", x>> \in Holder
       /\ Hold[<<"page", x>>] = IF x \in WholePages THEN x.page ELSE NoFrame
       /\ Hold'[<<"page", x>>] = IF x \in WholePages' THEN x.page ELSE NoFrame
  BY Zenon, <1>1, <1>2, <1>3, <1>6
<1>11. \A t \in Thread :
       /\ <<"va", t>> \in Holder
       /\ Hold[<<"va", t>>] = IF HasVa(t) THEN loc[t].va ELSE NoFrame
       /\ Hold'[<<"va", t>>] = IF HasVa(t)' THEN loc'[t].va ELSE NoFrame
  BY Zenon, <1>1, <1>2, <1>3, <1>7
<1>12. \A t \in Thread :
       /\ <<"prpage", t>> \in Holder
       /\ Hold[<<"prpage", t>>] = IF HasPrpage(t) THEN loc[t].prpage ELSE NoFrame
       /\ Hold'[<<"prpage", t>>] = IF HasPrpage(t)' THEN loc'[t].prpage ELSE NoFrame
  BY Zenon, <1>1, <1>2, <1>3, <1>7
<1> QED BY Zenon, <1>8, <1>9, <1>10, <1>11, <1>12

\* There are five kinds of holders.
LEMMA Holders ==
  ASSUME NEW x \in Holder
  PROVE  \/ \E k \in Root : x = <<"root", k>>
         \/ \E r \in Pageref : x = <<"blocks", r>>
         \/ \E y \in Pointer : x = <<"page", y>>
         \/ \E t \in Thread : x = <<"va", t>> \/ x = <<"prpage", t>>
<1>1. PICK k \in Kind : \E y \in Of(k) : x = <<k, y>>
  BY Zenon DEF Holder
<1>2. /\ Of("root") = Root /\ Of("blocks") = Pageref /\ Of("page") = Pointer
      /\ Of("va") = Thread /\ Of("prpage") = Thread
  BY DEF Of
<1> QED BY Zenon, <1>1, <1>2 DEF Kind

\* Nobody moves a frame: all are where they were.
LEMMA HoldersStay ==
  ASSUME HoldersInv, UNCHANGED status, \A x \in Holder : Hold'[x] = Hold[x]
  PROVE  HoldersInv'
<1>1. OneHolder(Hold')
  BY Zenon DEF HoldersInv, Held, OneHolder
<1>2. FixedIsHeld(Hold', status')
  BY Zenon DEF HoldersInv, Held, FixedIsHeld
<1> QED BY Zenon, <1>1, <1>2 DEF HoldersInv, Held

\* No page has two pagerefs.
LEMMA OnePageref ==
  ASSUME HeapInv, NEW r \in Listed, NEW s \in Listed, pr[r].page = pr[s].page
  PROVE  r = s
<1>1. r \in Pageref /\ s \in Pageref /\ pr[r].page \in Frame
  BY Zenon, BlocksBefore DEF HeapInv
<1>2. /\ Hold[<<"blocks", r>>] = pr[r].page /\ Hold[<<"blocks", s>>] = pr[s].page
      /\ <<"blocks", r>> \in Holder /\ <<"blocks", s>> \in Holder
  BY Zenon, <1>1, HoldOf
<1>3. pr[r].page # NoFrame
  BY Zenon, <1>1, HeapAssumption
<1>4. <<"blocks", r>> = <<"blocks", s>>
  BY Zenon, <1>2, <1>3 DEF HeapInv, HoldersInv, Held, OneHolder
<1> QED BY Zenon, <1>4

\* The page that a thread has for itself is no page of blocks, and no client has a
\* pointer into it.
LEMMA NobodyElse ==
  ASSUME HeapInv, NEW t \in Thread, NEW h, h = <<"va", t>> \/ h = <<"prpage", t>>,
         NEW f \in Frame, Hold[h] = f
  PROVE  (\A r \in Listed : pr[r].page # f) /\ (\A y \in held : y.page # f)
<1>1. h \in Holder /\ f # NoFrame
  BY Zenon, HoldOf, HeapAssumption
<1>2. ASSUME NEW r \in Listed, pr[r].page = f PROVE FALSE
  <2>1. r \in Pageref
    BY Zenon, BlocksBefore DEF HeapInv
  <2>2. Hold[<<"blocks", r>>] = f /\ <<"blocks", r>> \in Holder
    BY Zenon, <1>2, <2>1, HoldOf
  <2>3. h = <<"blocks", r>>
    BY Zenon, <1>1, <2>2 DEF HeapInv, HoldersInv, Held, OneHolder
  <2> QED BY <2>3
<1>3. ASSUME NEW y \in held, y.page = f PROVE FALSE
  <2>1. y \in Pointer
    BY Zenon DEF HeapInv, HeapType
  <2>2. y \in WholePages
    BY Zenon, <1>2, <1>3, Lists DEF HeapInv
  <2>3. Hold[<<"page", y>>] = f /\ <<"page", y>> \in Holder
    BY Zenon, <1>3, <2>1, <2>2, HoldOf
  <2>4. h = <<"page", y>>
    BY Zenon, <1>1, <2>3 DEF HeapInv, HoldersInv, Held, OneHolder
  <2> QED BY <2>4
<1> QED BY Zenon, <1>2, <1>3

\* The users of a frame are its holders.
LEMMA UsersAreHolders ==
  ASSUME HeapType, NEW f \in Frame, NEW x
  PROVE  x \in Users(f) <=> x \in Holder /\ Hold[x] = f
<1>1. f # NoFrame
  BY HeapAssumption
<1>2. Listed \subseteq Pageref /\ WholePages \subseteq Pointer
  BY Zenon, Lists DEF WholePages, HeapType
<1>3. ASSUME x \in Users(f) PROVE x \in Holder /\ Hold[x] = f
  <2>1. CASE x \in {<<"root", k>> : k \in {k \in Root : kheaproots[k].page = f}}
    <3>1. PICK k \in Root : x = <<"root", k>> /\ kheaproots[k].page = f
      BY Zenon, <2>1
    <3> QED BY Zenon, <3>1, HoldOf
  <2>2. CASE x \in {<<"blocks", r>> : r \in {r \in Listed : pr[r].page = f}}
    <3>1. PICK r \in Pageref : r \in Listed /\ x = <<"blocks", r>> /\ pr[r].page = f
      BY Zenon, <1>2, <2>2
    <3> QED BY Zenon, <3>1, HoldOf
  <2>3. CASE x \in {<<"page", y>> : y \in {y \in WholePages : y.page = f}}
    <3>1. PICK y \in Pointer : y \in WholePages /\ x = <<"page", y>> /\ y.page = f
      BY Zenon, <1>2, <2>3
    <3> QED BY Zenon, <3>1, HoldOf
  <2>4. CASE x \in {<<"va", t>> : t \in {t \in Thread : HasVa(t) /\ loc[t].va = f}}
    <3>1. PICK t \in Thread : x = <<"va", t>> /\ HasVa(t) /\ loc[t].va = f
      BY Zenon, <2>4
    <3> QED BY Zenon, <3>1, HoldOf
  <2>5. CASE x \in {<<"prpage", t>> : t \in {t \in Thread : HasPrpage(t) /\ loc[t].prpage = f}}
    <3>1. PICK t \in Thread : x = <<"prpage", t>> /\ HasPrpage(t) /\ loc[t].prpage = f
      BY Zenon, <2>5
    <3> QED BY Zenon, <3>1, HoldOf
  <2> QED BY Zenon, <1>3, <2>1, <2>2, <2>3, <2>4, <2>5 DEF Users
<1>4. ASSUME x \in Holder, Hold[x] = f PROVE x \in Users(f)
  <2>1. CASE \E k \in Root : x = <<"root", k>>
    <3>1. PICK k \in Root : x = <<"root", k>>
      BY Zenon, <2>1
    <3>2. kheaproots[k].page = f
      BY Zenon, <1>4, <3>1, HoldOf
    <3> QED BY Zenon, <3>1, <3>2 DEF Users
  <2>2. CASE \E r \in Pageref : x = <<"blocks", r>>
    <3>1. PICK r \in Pageref : x = <<"blocks", r>>
      BY Zenon, <2>2
    <3>2. r \in Listed /\ pr[r].page = f
      BY Zenon, <1>1, <1>4, <3>1, HoldOf
    <3> QED BY Zenon, <3>1, <3>2 DEF Users
  <2>3. CASE \E y \in Pointer : x = <<"page", y>>
    <3>1. PICK y \in Pointer : x = <<"page", y>>
      BY Zenon, <2>3
    <3>2. y \in WholePages /\ y.page = f
      BY Zenon, <1>1, <1>4, <3>1, HoldOf
    <3> QED BY Zenon, <3>1, <3>2 DEF Users
  <2>4. CASE \E t \in Thread : x = <<"va", t>>
    <3>1. PICK t \in Thread : x = <<"va", t>>
      BY Zenon, <2>4
    <3>2. HasVa(t) /\ loc[t].va = f
      BY Zenon, <1>1, <1>4, <3>1, HoldOf
    <3> QED BY Zenon, <3>1, <3>2 DEF Users
  <2>5. CASE \E t \in Thread : x = <<"prpage", t>>
    <3>1. PICK t \in Thread : x = <<"prpage", t>>
      BY Zenon, <2>5
    <3>2. HasPrpage(t) /\ loc[t].prpage = f
      BY Zenon, <1>1, <1>4, <3>1, HoldOf
    <3> QED BY Zenon, <3>1, <3>2 DEF Users
  <2> QED BY Zenon, <1>4, <2>1, <2>2, <2>3, <2>4, <2>5, Holders
<1> QED BY Zenon, <1>3, <1>4

---------------------------------------------------------------------------
(* What the invariant says.                                                *)

\* The counts are in their ranges, ...
LEMMA InvTypes ==
  ASSUME HeapInv
  PROVE  TypeOK
<1>1. HeapType
  BY Zenon DEF HeapInv
<1>2. ASSUME NEW k \in Root
      PROVE  /\ kheaproots[k].page \in Frame \cup {NoFrame}
             /\ kheaproots[k].numinuse \in 0 .. NPAGEREFS_PER_PAGE
  <2>1. kheaproots[k] \in RootRecord
    BY Zenon, <1>1 DEF HeapType
  <2>2. kheaproots[k].page \in Frame \cup {NoFrame}
    BY <2>1 DEF RootRecord
  <2>3. kheaproots[k].numinuse = Cardinality(BitsOf(k))
    BY Zenon DEF HeapInv, BitsInv, BitsOf
  <2>4. Cardinality(BitsOf(k)) \in Nat /\ Cardinality(BitsOf(k)) <= NPAGEREFS_PER_PAGE
    BY Zenon, <1>1, BitsCount
  <2>5. kheaproots[k].numinuse \in 0 .. NPAGEREFS_PER_PAGE
    BY <2>3, <2>4, HeapAssumption
  <2> QED BY Zenon, <2>2, <2>5
<1>3. ASSUME NEW r \in Pageref
      PROVE  /\ pr[r].page \in Frame \cup {NoFrame}
             /\ pr[r].freelist \in Seq(0 .. PAGE_SIZE - 1)
             /\ pr[r].nfree \in 0 .. NBlocks(pr[r].blktype)
  <2>1. pr[r] \in PrRecord
    BY Zenon, <1>1 DEF HeapType
  <2>2. /\ pr[r].page \in Frame \cup {NoFrame} /\ pr[r].blktype \in BlockType
        /\ pr[r].freelist \in Queue(0 .. PAGE_SIZE - 1) /\ pr[r].nfree \in Nat
    BY <2>1 DEF PrRecord
  <2>3. pr[r].freelist \in Seq(0 .. PAGE_SIZE - 1)
    BY Zenon, <2>2 DEF Queue
  <2>4. NBlocks(pr[r].blktype) \in Nat
    BY <2>2, Blocks
  <2>5. pr[r].nfree <= NBlocks(pr[r].blktype)
    <3>1. CASE r \in Listed
      <4>1. Account(held, pr[r])
        BY Zenon, <3>1, BlocksBefore DEF HeapInv
      <4> QED BY Zenon, <2>1, <4>1, AccountBound
    <3>2. CASE r \notin Listed
      <4>1. pr[r].nfree = 0
        BY <3>2 DEF HeapInv, BlocksInv, NoPageref
      <4> QED BY <2>4, <4>1
    <3> QED BY Zenon, <3>1, <3>2
  <2>6. pr[r].nfree \in 0 .. NBlocks(pr[r].blktype)
    BY <2>2, <2>4, <2>5
  <2> QED BY Zenon, <2>2, <2>3, <2>6
<1> QED BY Zenon, <1>1, <1>2, <1>3 DEF TypeOK, HeapType

\* ... a frame has one holder or none, ...
LEMMA InvFrames ==
  ASSUME HeapInv
  PROVE  FrameHasOneHolder
<1>1. ASSUME NEW f \in Frame
      PROVE  Cardinality(Users(f)) = (IF status[f] = "FIXED" THEN 1 ELSE 0)
  <2>1. \A x : x \in Users(f) <=> x \in Holder /\ Hold[x] = f
    BY Zenon, UsersAreHolders DEF HeapInv
  <2>2. OneHolder(Hold) /\ FixedIsHeld(Hold, status) /\ f # NoFrame
    BY Zenon, HeapAssumption DEF HeapInv, HoldersInv, Held
  <2>3. CASE status[f] = "FIXED"
    <3>1. PICK x \in Holder : Hold[x] = f
      BY Zenon, <2>2, <2>3 DEF FixedIsHeld
    <3>2. \A y : y \in Users(f) <=> y = x
      BY Zenon, <2>1, <2>2, <3>1 DEF OneHolder
    <3>3. Users(f) = {x}
      BY Zenon, <3>2
    <3>4. Cardinality({x}) = 1
      BY Zenon, FS_Singleton
    <3> QED BY Zenon, <2>3, <3>3, <3>4
  <2>4. CASE status[f] # "FIXED"
    <3>1. \A y : y \notin Users(f)
      BY Zenon, <2>1, <2>2, <2>4 DEF FixedIsHeld
    <3>2. Users(f) = {}
      BY Zenon, <3>1
    <3>3. Cardinality({}) = 0
      BY FS_EmptySet
    <3> QED BY Zenon, <2>4, <3>2, <3>3
  <2> QED BY Zenon, <2>3, <2>4
<1> QED BY Zenon, <1>1 DEF FrameHasOneHolder

\* ... and the heap is accounted for.
LEMMA InvAccounts ==
  ASSUME HeapInv
  PROVE  HeapAccounted
<1>1. \A r \in Listed : BlocksOf(r) /\ kheaproots[RootOf(r)].page # NoFrame
  BY Zenon DEF HeapInv, BlocksInv, RootsInv
<1>2. IsInjective(allbase) /\ \A b \in BlockType : IsInjective(sizebases[b])
  BY Zenon DEF HeapInv, HeapType, Queue
<1>3. \A b \in BlockType : Range(sizebases[b]) = {r \in Listed : pr[r].blktype = b}
  BY Zenon DEF HeapInv, ListsInv
<1>4. /\ inuse = Listed \cup {loc[t].pr : t \in {t \in Thread : HasPrpage(t)}}
      /\ \A k \in Root :
           kheaproots[k].numinuse = Cardinality({r \in inuse : RootOf(r) = k})
  BY Zenon DEF HeapInv, BitsInv, Pending
<1> QED BY Zenon, <1>1, <1>2, <1>3, <1>4 DEF HeapAccounted

---------------------------------------------------------------------------
(* The local variables of a thread.                                        *)

WithVa(v, f) == [v EXCEPT !.va = f]

\* The fields of any locals, ...
LEMMA LocFields ==
  ASSUME NEW v \in LocRecord
  PROVE  /\ v.blktype \in BlockType /\ v.prpage \in Frame \cup {NoFrame} /\ v.pr \in Pageref
         /\ v.va \in Frame \cup {NoFrame} /\ v.back \in {"idle", "newpage", "bigpage", "refpage"}
  BY DEF LocRecord

\* ... of those that a call starts with, ...
LEMMA NewLocals ==
  ASSUME NEW b \in BlockType, NEW p \in Frame \cup {NoFrame}, NEW r \in Pageref,
         NEW back \in {"idle", "newpage", "bigpage", "refpage"}
  PROVE  LET v == Locals(b, p, r, back)
         IN /\ v \in LocRecord /\ v.blktype = b /\ v.prpage = p /\ v.pr = r
            /\ v.va = NoFrame /\ v.back = back
  BY DEF LocRecord, Locals

\* ... and with a page in va.
LEMMA SetVa ==
  ASSUME NEW v \in LocRecord, NEW f \in Frame \cup {NoFrame}
  PROVE  LET w == WithVa(v, f)
         IN /\ w \in LocRecord /\ w.blktype = v.blktype /\ w.prpage = v.prpage /\ w.pr = v.pr
            /\ w.va = f /\ w.back = v.back
  BY DEF LocRecord, WithVa

\* The first block type, pageref and page of pagerefs exist.
LEMMA Firsts ==
  /\ 1 \in BlockType /\ <<0, 0>> \in Pageref /\ NoLocals \in LocRecord
  /\ BlockType = 1 .. Len(sizes) /\ Len(sizes) \in BlockType
<1>1. BlockType = 1 .. Len(sizes) /\ Len(sizes) \in Nat \ {0}
  BY HeapAssumption DEF BlockType
<1>2. <<0, 0>> \in Pageref
  BY HeapAssumption DEF Pageref, Root, Ref
<1>3. 1 \in BlockType /\ Len(sizes) \in BlockType
  BY <1>1
<1>4. NoLocals \in LocRecord
  BY Zenon, <1>2, <1>3, NewLocals DEF NoLocals
<1> QED BY Zenon, <1>1, <1>2, <1>3, <1>4

\* A request has a block type.
LEMMA BlockTypes ==
  ASSUME NEW sz \in Size, sz < LARGEST_SUBPAGE_SIZE
  PROVE  blocktype(sz) \in BlockType
<1> DEFINE B == {b \in BlockType : sz <= sizes[b]}
<1>1. B \subseteq Nat
  BY Firsts
<1>2. Len(sizes) \in B
  <2>1. Len(sizes) \in BlockType
    BY Zenon, Firsts
  <2>2. sz \in Nat
    BY HeapAssumption
  <2>3. sizes[Len(sizes)] \in Nat
    BY Zenon, <2>1, Blocks
  <2> QED BY <2>1, <2>2, <2>3 DEF LARGEST_SUBPAGE_SIZE
<1>3. Min(B) \in B
  BY Zenon, <1>1, <1>2, MinIsLeast
<1> QED BY Zenon, <1>3 DEF blocktype

---------------------------------------------------------------------------
(* The heap before the first call.                                         *)

\* A heap without a page holds no frame, and all of them are free.
LEMMA InitHolders ==
  ASSUME Init
  PROVE  Listed = {} /\ WholePages = {} /\ HoldersInv
<1>1. Listed = {}
  <2>1. allbase = <<>>
    BY Zenon DEF Init
  <2> QED BY <2>1 DEF Listed, Range
<1>2. WholePages = {}
  BY Zenon DEF Init, WholePages
<1>3. \A t \in Thread : ~HasVa(t) /\ ~HasPrpage(t)
  BY DEF Init, HasVa, HasPrpage
<1>4. \A k \in Root : kheaproots[k].page = NoFrame
  BY DEF Init
<1>5. ASSUME NEW x \in Holder PROVE Hold[x] = NoFrame
  <2>1. CASE \E k \in Root : x = <<"root", k>>
    BY Zenon, <1>4, <2>1, HoldOf
  <2>2. CASE \E r \in Pageref : x = <<"blocks", r>>
    BY Zenon, <1>1, <2>2, HoldOf
  <2>3. CASE \E y \in Pointer : x = <<"page", y>>
    BY Zenon, <1>2, <2>3, HoldOf
  <2>4. CASE \E t \in Thread : x = <<"va", t>> \/ x = <<"prpage", t>>
    BY Zenon, <1>3, <2>4, HoldOf
  <2> QED BY Zenon, <2>1, <2>2, <2>3, <2>4, Holders
<1>6. OneHolder(Hold)
  BY Zenon, <1>5 DEF OneHolder
<1>7. \A f \in Frame : status[f] # "FIXED" /\ f # NoFrame
  BY HeapAssumption DEF Init
<1>8. FixedIsHeld(Hold, status)
  BY Zenon, <1>5, <1>7 DEF FixedIsHeld
<1> QED BY Zenon, <1>1, <1>2, <1>6, <1>8 DEF HoldersInv, Held

\* It satisfies the invariant.
LEMMA InitHeapInv ==
  ASSUME Init
  PROVE  HeapInv
<1>1. Listed = {} /\ WholePages = {} /\ HoldersInv
  BY Zenon, InitHolders
<1>2. \A t \in Thread : pc[t] = "idle"
  BY DEF Init
<1>3. \A t \in Thread : ~HasVa(t) /\ ~HasPrpage(t)
  BY <1>2 DEF HasVa, HasPrpage
<1>4. HeapType
  <2>1. 1 \in BlockType /\ NoLocals \in LocRecord
    BY Zenon, Firsts
  <2>2. <<>> \in Queue(Pageref) /\ <<>> \in Queue(0 .. PAGE_SIZE - 1)
    BY Zenon, EmptyQueue
  <2>3. NoPageref \in PrRecord
    BY <2>1, <2>2 DEF NoPageref, PrRecord
  <2>4. kheaproots \in [Root -> RootRecord]
    BY DEF Init, RootRecord
  <2>5. pc \in [Thread -> Where] /\ status \in [Frame -> {"FREE", "FIXED"}]
    BY DEF Init, Where
  <2>6. /\ pr \in [Pageref -> PrRecord] /\ loc \in [Thread -> LocRecord]
        /\ sizebases \in [BlockType -> Queue(Pageref)] /\ allbase \in Queue(Pageref)
        /\ inuse \subseteq Pageref /\ held \subseteq Pointer
    BY Zenon, <2>1, <2>2, <2>3 DEF Init
  <2> QED BY Zenon, <2>4, <2>5, <2>6 DEF HeapType
<1>5. MarkInv /\ CallInv /\ PendingInv
  <2>1. \A t \in Thread : pc[t] \notin {"mark", "getppages", "spare", "spared"}
    BY <1>2
  <2> QED BY Zenon, <1>3, <2>1 DEF MarkInv, CallInv, PendingInv
<1>6. BlocksInv /\ RootsInv
  <2>1. \A r \in Pageref : pr[r] = NoPageref
    BY Zenon DEF Init
  <2>2. inuse = {}
    BY Zenon DEF Init
  <2> QED BY Zenon, <1>1, <2>1, <2>2 DEF BlocksInv, RootsInv
<1>7. ListsInv
  <2>1. ASSUME NEW b \in BlockType PROVE Range(sizebases[b]) = {}
    <3>1. sizebases[b] = <<>>
      BY Zenon DEF Init
    <3> QED BY Zenon, <3>1, EmptyQueue
  <2> QED BY Zenon, <1>1, <2>1 DEF ListsInv
<1>8. BitsInv
  <2>1. inuse = {} /\ \A k \in Root : kheaproots[k].numinuse = 0
    BY DEF Init
  <2>2. Pending = {}
    BY Zenon, <1>3 DEF Pending
  <2>3. \A k \in Root : {r \in inuse : RootOf(r) = k} = {}
    BY Zenon, <2>1
  <2>4. Cardinality({}) = 0
    BY FS_EmptySet
  <2> QED BY Zenon, <1>1, <2>1, <2>2, <2>3, <2>4 DEF BitsInv
<1>9. PanicsInv
  BY DEF Init, PanicsInv
<1> QED BY Zenon, <1>1, <1>4, <1>5, <1>6, <1>7, <1>8, <1>9 DEF HeapInv

---------------------------------------------------------------------------
(* A step that leaves the heap and the clients alone.                      *)

\* What a step leaves alone, but for the roots K, the pagerefs R and the pointers X.
RootsKept(K) == \A k \in Root : k \in K \/ kheaproots'[k].page = kheaproots[k].page
BlocksKept(R) ==
  \A r \in Pageref : \/ r \in R
                     \/ (r \in Listed' <=> r \in Listed) /\ (r \in Listed => pr'[r].page = pr[r].page)
PagesKept(X) == \A x \in Pointer : x \in X \/ (x \in WholePages' <=> x \in WholePages)
ThreadsKept(t) == \A u \in Thread : u = t \/ (pc'[u] = pc[u] /\ loc'[u] = loc[u])

Quiet == UNCHANGED <<heap, held>>

\* The lists, the pagerefs and the pointers determine which pages hold blocks and
\* which are whole.
LEMMA ListsKept ==
  ASSUME UNCHANGED <<pr, sizebases, allbase, held>>
  PROVE  /\ Listed' = Listed /\ WholePages' = WholePages
         /\ BlocksKept({}) /\ PagesKept({})
         /\ BlocksInv => BlocksInv'
         /\ ListsInv => ListsInv'
<1>1. pr' = pr /\ sizebases' = sizebases /\ allbase' = allbase /\ held' = held
  BY Zenon
<1>2. Listed' = Listed
  BY Zenon, <1>1 DEF Listed
<1>3. \A x : On(x)' = On(x)
  BY Zenon, <1>1 DEF On
<1>4. WholePages' = WholePages
  BY Zenon, <1>1, <1>3 DEF WholePages
<1>5. BlocksKept({}) /\ PagesKept({})
  BY Zenon, <1>1, <1>2, <1>4 DEF BlocksKept, PagesKept
<1>6. \A r : BlocksOf(r)' <=> BlocksOf(r)
  BY <1>1 DEF BlocksOf
<1>7. BlocksInv => BlocksInv'
  BY Zenon, <1>1, <1>2, <1>4, <1>6 DEF BlocksInv
<1>8. ListsInv => ListsInv'
  BY Zenon, <1>1, <1>2 DEF ListsInv
<1> QED BY Zenon, <1>2, <1>4, <1>5, <1>7, <1>8

\* The same of a step that leaves all of the heap alone.
LEMMA HeapKept ==
  ASSUME Quiet
  PROVE  /\ Listed' = Listed /\ WholePages' = WholePages
         /\ RootsKept({}) /\ BlocksKept({}) /\ PagesKept({})
         /\ BlocksInv => BlocksInv'
         /\ ListsInv => ListsInv'
         /\ RootsInv => RootsInv'
<1>1. kheaproots' = kheaproots /\ inuse' = inuse /\ UNCHANGED <<pr, sizebases, allbase, held>>
  BY Zenon DEF Quiet, heap
<1>2. /\ Listed' = Listed /\ WholePages' = WholePages
      /\ BlocksKept({}) /\ PagesKept({})
      /\ BlocksInv => BlocksInv'
      /\ ListsInv => ListsInv'
  BY Zenon, <1>1, ListsKept
<1>3. RootsKept({})
  BY Zenon, <1>1 DEF RootsKept
<1>4. RootsInv => RootsInv'
  BY Zenon, <1>1, <1>2 DEF RootsInv
<1> QED BY Zenon, <1>2, <1>3, <1>4

\* A step that changes nothing.
LEMMA Stutter ==
  ASSUME HeapInv, UNCHANGED vars
  PROVE  HeapInv'
<1>1. /\ status' = status /\ kheaproots' = kheaproots /\ inuse' = inuse /\ pr' = pr
      /\ sizebases' = sizebases /\ allbase' = allbase /\ pc' = pc /\ loc' = loc
      /\ held' = held /\ panicked' = panicked
  BY Zenon DEF vars, heap
<1>2. HeapType' /\ PanicsInv'
  BY Zenon, <1>1 DEF HeapInv, HeapType, PanicsInv
<1>3. Listed' = Listed
  BY Zenon, <1>1 DEF Listed
<1>4. Quiet
  BY Zenon, <1>1 DEF Quiet, heap
<1>5. BlocksInv' /\ ListsInv' /\ RootsInv' /\ WholePages' = WholePages
  BY Zenon, <1>4, HeapKept DEF HeapInv
<1>6. \A t \in Thread : (HasVa(t)' <=> HasVa(t)) /\ (HasPrpage(t)' <=> HasPrpage(t))
  BY Zenon, <1>1 DEF HasVa, HasPrpage
<1>7. MarkInv'
  BY Zenon, <1>1 DEF HeapInv, MarkInv
<1>8. CallInv' /\ PendingInv'
  BY Zenon, <1>1, <1>3, <1>6 DEF HeapInv, CallInv, PendingInv
<1>9. BitsInv'
  <2>1. Pending' = Pending
    BY Zenon, <1>1, <1>6 DEF Pending
  <2> QED BY Zenon, <1>1, <1>3, <2>1 DEF HeapInv, BitsInv
<1>10. HoldersInv'
  <2>1. ASSUME NEW x \in Holder PROVE Hold'[x] = Hold[x]
    <3>1. CASE \E k \in Root : x = <<"root", k>>
      BY Zenon, <1>1, <3>1, HoldOf
    <3>2. CASE \E r \in Pageref : x = <<"blocks", r>>
      <4>1. PICK r \in Pageref : x = <<"blocks", r>>
        BY Zenon, <3>2
      <4>2. /\ Hold[x] = IF r \in Listed THEN pr[r].page ELSE NoFrame
            /\ Hold'[x] = IF r \in Listed' THEN pr'[r].page ELSE NoFrame
        BY Zenon, <4>1, HoldOf
      <4>3. (r \in Listed' <=> r \in Listed) /\ pr'[r].page = pr[r].page
        BY Zenon, <1>1, <1>3
      <4>4. CASE r \in Listed
        BY Zenon, <4>2, <4>3, <4>4
      <4>5. CASE r \notin Listed
        BY Zenon, <4>2, <4>3, <4>5
      <4> QED BY Zenon, <4>4, <4>5
    <3>3. CASE \E y \in Pointer : x = <<"page", y>>
      <4>1. PICK y \in Pointer : x = <<"page", y>>
        BY Zenon, <3>3
      <4>2. /\ Hold[x] = IF y \in WholePages THEN y.page ELSE NoFrame
            /\ Hold'[x] = IF y \in WholePages' THEN y.page ELSE NoFrame
        BY Zenon, <4>1, HoldOf
      <4>3. y \in WholePages' <=> y \in WholePages
        BY Zenon, <1>5
      <4>4. CASE y \in WholePages
        BY Zenon, <4>2, <4>3, <4>4
      <4>5. CASE y \notin WholePages
        BY Zenon, <4>2, <4>3, <4>5
      <4> QED BY Zenon, <4>4, <4>5
    <3>4. CASE \E t \in Thread : x = <<"va", t>> \/ x = <<"prpage", t>>
      <4>1. PICK t \in Thread : x = <<"va", t>> \/ x = <<"prpage", t>>
        BY Zenon, <3>4
      <4>2. \/ /\ Hold[x] = IF HasVa(t) THEN loc[t].va ELSE NoFrame
               /\ Hold'[x] = IF HasVa(t)' THEN loc'[t].va ELSE NoFrame
            \/ /\ Hold[x] = IF HasPrpage(t) THEN loc[t].prpage ELSE NoFrame
               /\ Hold'[x] = IF HasPrpage(t)' THEN loc'[t].prpage ELSE NoFrame
        BY Zenon, <4>1, HoldOf
      <4>3. loc'[t] = loc[t] /\ (HasVa(t)' <=> HasVa(t)) /\ (HasPrpage(t)' <=> HasPrpage(t))
        BY Zenon, <1>1, <1>6
      <4> QED BY Zenon, <4>2, <4>3
    <3> QED BY Zenon, <3>1, <3>2, <3>3, <3>4, Holders
  <2> QED BY Zenon, <1>1, <2>1, HoldersStay DEF HeapInv
<1> QED BY Zenon, <1>2, <1>5, <1>7, <1>8, <1>9, <1>10 DEF HeapInv

---------------------------------------------------------------------------
(* A frame changes hands.                                                  *)

\* From holder x to holder y.
Handed(h, g, x, y) ==
  /\ x \in Holder /\ y \in Holder
  /\ h[y] = NoFrame /\ g[y] = h[x] /\ g[x] = NoFrame
  /\ \A z \in Holder : z = x \/ z = y \/ g[z] = h[z]

\* A frame that passes from one holder to another still has one.
LEMMA Handover ==
  ASSUME NEW h, NEW g, NEW s, NEW x, NEW y, Held(h, s), Handed(h, g, x, y)
  PROVE  Held(g, s)
<1> USE DEF Handed
<1>1. OneHolder(g)
  <2> SUFFICES ASSUME NEW v \in Holder, NEW w \in Holder, g[v] = g[w], g[v] # NoFrame
               PROVE  v = w
    BY Zenon DEF OneHolder
  <2>1. /\ v = y \/ g[v] = h[v]
        /\ w = y \/ g[w] = h[w]
    BY Zenon
  <2> QED BY ZenonT(60), <2>1 DEF Held, OneHolder
<1>2. FixedIsHeld(g, s)
  <2>1. \A f \in Frame : f # NoFrame
    BY Zenon, HeapAssumption
  <2> SUFFICES ASSUME NEW f \in Frame
               PROVE  (\E z \in Holder : h[z] = f) <=> (\E z \in Holder : g[z] = f)
    BY Zenon DEF Held, FixedIsHeld
  <2> QED BY ZenonT(60), <2>1
<1> QED BY Zenon, <1>1, <1>2 DEF Held

\* The same of the holders in the heap.
LEMMA HandoverStep ==
  ASSUME HoldersInv, UNCHANGED status, NEW x \in Holder, NEW y \in Holder,
         Hold[y] = NoFrame, Hold'[y] = Hold[x], Hold'[x] = NoFrame,
         \A z \in Holder : z = x \/ z = y \/ Hold'[z] = Hold[z]
  PROVE  HoldersInv'
<1>1. Handed(Hold, Hold', x, y)
  BY Zenon DEF Handed
<1>2. Held(Hold', status)
  BY Zenon, <1>1, Handover DEF HoldersInv
<1> QED BY Zenon, <1>2 DEF HoldersInv

\* Two frames change hands at once.
HandedTwo(h, g, x, y, v, w) ==
  /\ x \in Holder /\ y \in Holder /\ v \in Holder /\ w \in Holder
  /\ x # y /\ x # v /\ x # w /\ y # v /\ y # w /\ v # w
  /\ h[y] = NoFrame /\ g[y] = h[x] /\ g[x] = NoFrame
  /\ h[w] = NoFrame /\ g[w] = h[v] /\ g[v] = NoFrame
  /\ \A z \in Holder : z = x \/ z = y \/ z = v \/ z = w \/ g[z] = h[z]

\* Two frames that pass to other holders in one step.
LEMMA TwoHandovers ==
  ASSUME NEW h, NEW g, NEW s, NEW x, NEW y, NEW v, NEW w, Held(h, s),
         HandedTwo(h, g, x, y, v, w)
  PROVE  Held(g, s)
<1> DEFINE m == [z \in Holder |-> IF z = x THEN NoFrame ELSE IF z = y THEN h[x] ELSE h[z]]
<1>1. /\ m[x] = NoFrame /\ m[y] = h[x] /\ m[v] = h[v] /\ m[w] = h[w]
      /\ \A z \in Holder : z = x \/ z = y \/ m[z] = h[z]
  BY Zenon DEF HandedTwo
<1> HIDE DEF m
<1>2. Handed(h, m, x, y)
  BY Zenon, <1>1 DEF Handed, HandedTwo
<1>3. Handed(m, g, v, w)
  <2>1. \A z \in Holder : z = v \/ z = w \/ g[z] = m[z]
    BY Zenon, <1>1 DEF HandedTwo
  <2> QED BY Zenon, <1>1, <2>1 DEF Handed, HandedTwo
<1>4. Held(m, s)
  BY Zenon, <1>2, Handover
<1> QED BY Zenon, <1>3, <1>4, Handover

\* From the page allocator to x.
LEMMA Taken ==
  ASSUME NEW h, NEW g, NEW s \in [Frame -> {"FREE", "FIXED"}], NEW x \in Holder,
         Held(h, s), NEW f \in Frame, s[f] = "FREE", h[x] = NoFrame, g[x] = f,
         \A z \in Holder : z = x \/ g[z] = h[z]
  PROVE  Held(g, [s EXCEPT ![f] = "FIXED"])
<1>1. \A z \in Holder : h[z] # f
  BY Zenon DEF Held, FixedIsHeld
<1>2. OneHolder(g)
  <2> SUFFICES ASSUME NEW v \in Holder, NEW w \in Holder, g[v] = g[w], g[v] # NoFrame
               PROVE  v = w
    BY Zenon DEF OneHolder
  <2> QED BY ZenonT(60), <1>1 DEF Held, OneHolder
<1> DEFINE q == [s EXCEPT ![f] = "FIXED"]
<1>3. q[f] = "FIXED" /\ \A e \in Frame : e # f => q[e] = s[e]
  BY Zenon
<1> HIDE DEF q
<1>4. \A e \in Frame : e # NoFrame
  BY Zenon, HeapAssumption
<1>5. FixedIsHeld(g, q)
  <2> SUFFICES ASSUME NEW e \in Frame PROVE q[e] = "FIXED" <=> \E z \in Holder : g[z] = e
    BY Zenon DEF FixedIsHeld
  <2>1. CASE e = f
    BY Zenon, <1>3, <2>1
  <2>2. CASE e # f
    <3>1. q[e] = s[e]
      BY Zenon, <1>3, <2>2
    <3>2. ASSUME NEW z \in Holder PROVE h[z] = e <=> g[z] = e
      BY Zenon, <1>4, <2>2
    <3> QED BY Zenon, <3>1, <3>2 DEF Held, FixedIsHeld
  <2> QED BY Zenon, <2>1, <2>2
<1> QED BY Zenon, <1>2, <1>5 DEF Held, q

\* From x back to the page allocator.
LEMMA Given ==
  ASSUME NEW h, NEW g, NEW s \in [Frame -> {"FREE", "FIXED"}], NEW x \in Holder,
         Held(h, s), h[x] \in Frame, g[x] = NoFrame,
         \A z \in Holder : z = x \/ g[z] = h[z]
  PROVE  Held(g, [s EXCEPT ![h[x]] = "FREE"])
<1> DEFINE f == h[x]
           q == [s EXCEPT ![f] = "FREE"]
<1>1. q[f] = "FREE" /\ \A e \in Frame : e # f => q[e] = s[e]
  BY Zenon
<1> HIDE DEF q
<1>2. \A e \in Frame : e # NoFrame
  BY Zenon, HeapAssumption
<1>3. OneHolder(g)
  BY ZenonT(60) DEF Held, OneHolder
<1>4. FixedIsHeld(g, q)
  <2> SUFFICES ASSUME NEW e \in Frame PROVE q[e] = "FIXED" <=> \E z \in Holder : g[z] = e
    BY Zenon DEF FixedIsHeld
  <2>1. CASE e = f
    <3>1. \A z \in Holder : g[z] # e
      BY Zenon, <1>2, <2>1 DEF Held, OneHolder
    <3>2. q[e] # "FIXED"
      BY <1>1, <2>1
    <3> QED BY Zenon, <3>1, <3>2
  <2>2. CASE e # f
    <3>1. q[e] = s[e]
      BY Zenon, <1>1, <2>2
    <3> QED BY ZenonT(60), <1>2, <2>2, <3>1 DEF Held, FixedIsHeld
  <2> QED BY Zenon, <2>1, <2>2
<1> QED BY Zenon, <1>3, <1>4 DEF Held, q

Concerned(K, R, X, t, x) ==
  \/ x = <<"va", t>> \/ x = <<"prpage", t>>
  \/ \E k \in K : x = <<"root", k>>
  \/ \E r \in R : x = <<"blocks", r>>
  \/ \E y \in X : x = <<"page", y>>

\* The holders that such a step of t does not concern.
LEMMA Kept ==
  ASSUME NEW K, NEW R, NEW X, NEW t \in Thread,
         RootsKept(K), BlocksKept(R), PagesKept(X), ThreadsKept(t), NEW x \in Holder
  PROVE  Hold'[x] = Hold[x] \/ Concerned(K, R, X, t, x)
<1>1. CASE \E k \in Root : x = <<"root", k>>
  <2>1. PICK k \in Root : x = <<"root", k>>
    BY Zenon, <1>1
  <2>2. Hold[x] = kheaproots[k].page /\ Hold'[x] = kheaproots'[k].page
    BY Zenon, <2>1, HoldOf
  <2> QED BY Zenon, <2>1, <2>2 DEF RootsKept, Concerned
<1>2. CASE \E r \in Pageref : x = <<"blocks", r>>
  <2>1. PICK r \in Pageref : x = <<"blocks", r>>
    BY Zenon, <1>2
  <2>2. /\ Hold[x] = IF r \in Listed THEN pr[r].page ELSE NoFrame
        /\ Hold'[x] = IF r \in Listed' THEN pr'[r].page ELSE NoFrame
    BY Zenon, <2>1, HoldOf
  <2> QED BY Zenon, <2>1, <2>2 DEF BlocksKept, Concerned
<1>3. CASE \E y \in Pointer : x = <<"page", y>>
  <2>1. PICK y \in Pointer : x = <<"page", y>>
    BY Zenon, <1>3
  <2>2. /\ Hold[x] = IF y \in WholePages THEN y.page ELSE NoFrame
        /\ Hold'[x] = IF y \in WholePages' THEN y.page ELSE NoFrame
    BY Zenon, <2>1, HoldOf
  <2> QED BY Zenon, <2>1, <2>2 DEF PagesKept, Concerned
<1>4. CASE \E u \in Thread : x = <<"va", u>> \/ x = <<"prpage", u>>
  <2>1. PICK u \in Thread : x = <<"va", u>> \/ x = <<"prpage", u>>
    BY Zenon, <1>4
  <2>2. CASE u = t
    BY Zenon, <2>1, <2>2 DEF Concerned
  <2>3. CASE u # t
    <3>1. pc'[u] = pc[u] /\ loc'[u] = loc[u]
      BY Zenon, <2>3 DEF ThreadsKept
    <3>2. (HasVa(u)' <=> HasVa(u)) /\ (HasPrpage(u)' <=> HasPrpage(u))
      BY Zenon, <3>1 DEF HasVa, HasPrpage
    <3>3. \/ /\ Hold[x] = IF HasVa(u) THEN loc[u].va ELSE NoFrame
             /\ Hold'[x] = IF HasVa(u)' THEN loc'[u].va ELSE NoFrame
          \/ /\ Hold[x] = IF HasPrpage(u) THEN loc[u].prpage ELSE NoFrame
             /\ Hold'[x] = IF HasPrpage(u)' THEN loc'[u].prpage ELSE NoFrame
      BY ZenonT(60), <2>1, HoldOf
    <3> QED BY Zenon, <3>1, <3>2, <3>3
  <2> QED BY Zenon, <2>2, <2>3
<1> QED BY Zenon, <1>1, <1>2, <1>3, <1>4, Holders

---------------------------------------------------------------------------
(* What a step does to the thread that makes it.                           *)

Moves(t, l, v) == pc' = [pc EXCEPT ![t] = l] /\ loc' = [loc EXCEPT ![t] = v]

\* The others stay where they are.
LEMMA MovesTo ==
  ASSUME HeapType, NEW t \in Thread, NEW l \in Where, NEW v \in LocRecord, Moves(t, l, v)
  PROVE  /\ pc'[t] = l /\ loc'[t] = v /\ ThreadsKept(t)
         /\ pc' \in [Thread -> Where] /\ loc' \in [Thread -> LocRecord]
<1>1. pc \in [Thread -> Where] /\ loc \in [Thread -> LocRecord]
  BY Zenon DEF HeapType
<1>2. pc'[t] = l /\ loc'[t] = v /\ ThreadsKept(t)
  BY Zenon, <1>1 DEF Moves, ThreadsKept
<1>3. pc' \in [Thread -> Where] /\ loc' \in [Thread -> LocRecord]
  BY <1>1 DEF Moves
<1> QED BY Zenon, <1>2, <1>3

\* A thread whose va is set.
LEMMA MovesWithVa ==
  ASSUME HeapType, NEW t \in Thread, NEW f, NEW l, loc' = [loc EXCEPT ![t].va = f], Goto(t, l)
  PROVE  Moves(t, l, WithVa(loc[t], f))
<1>1. loc \in [Thread -> LocRecord]
  BY Zenon DEF HeapType
<1>2. loc' = [loc EXCEPT ![t] = WithVa(loc[t], f)]
  BY <1>1 DEF WithVa
<1> QED BY Zenon, <1>2 DEF Moves, Goto

\* A thread whose locals stay.
LEMMA MovesOnly ==
  ASSUME HeapType, NEW t \in Thread, NEW l, UNCHANGED loc, Goto(t, l)
  PROVE  Moves(t, l, loc[t])
<1>1. loc \in [Thread -> LocRecord]
  BY Zenon DEF HeapType
<1>2. loc' = [loc EXCEPT ![t] = loc[t]]
  BY <1>1
<1> QED BY Zenon, <1>2 DEF Moves, Goto

\* A thread that returns has no frame.
LEMMA MovesHome ==
  ASSUME HeapType, NEW t \in Thread, Return(t)
  PROVE  /\ Moves(t, "idle", NoLocals) /\ pc'[t] = "idle" /\ ThreadsKept(t)
         /\ pc' \in [Thread -> Where] /\ loc' \in [Thread -> LocRecord]
         /\ ~HasVa(t)' /\ ~HasPrpage(t)'
<1>1. Moves(t, "idle", NoLocals) /\ "idle" \in Where
  BY Zenon DEF Moves, Return, Goto, Where
<1>2. /\ pc'[t] = "idle" /\ ThreadsKept(t)
      /\ pc' \in [Thread -> Where] /\ loc' \in [Thread -> LocRecord]
  BY Zenon, <1>1, Firsts, MovesTo
<1>3. ~HasVa(t)' /\ ~HasPrpage(t)'
  BY <1>2 DEF HasVa, HasPrpage
<1> QED BY Zenon, <1>1, <1>2, <1>3

\* A thread goes to free_kpages with page f.
LEMMA MovesToFree ==
  ASSUME HeapType, NEW t \in Thread, NEW f \in Frame, loc' = [loc EXCEPT ![t].va = f],
         Goto(t, "free_kpages")
  PROVE  /\ pc'[t] = "free_kpages" /\ loc'[t].va = f /\ ThreadsKept(t)
         /\ pc' \in [Thread -> Where] /\ loc' \in [Thread -> LocRecord]
         /\ HasVa(t)' /\ ~HasPrpage(t)'
<1>1. Moves(t, "free_kpages", WithVa(loc[t], f))
  BY Zenon, MovesWithVa
<1>2. "free_kpages" \in Where
  BY DEF Where
<1>3. loc[t] \in LocRecord /\ f \in Frame \cup {NoFrame}
  BY Zenon DEF HeapType
<1>4. WithVa(loc[t], f) \in LocRecord /\ WithVa(loc[t], f).va = f
  BY Zenon, <1>3, SetVa
<1>5. /\ pc'[t] = "free_kpages" /\ loc'[t] = WithVa(loc[t], f) /\ ThreadsKept(t)
      /\ pc' \in [Thread -> Where] /\ loc' \in [Thread -> LocRecord]
  BY Zenon, <1>1, <1>2, <1>4, MovesTo
<1>6. HasVa(t)' /\ ~HasPrpage(t)'
  BY <1>5 DEF HasVa, HasPrpage
<1> QED BY Zenon, <1>4, <1>5, <1>6

\* A thread outside of kmalloc and kfree has no frame and no pageref.
LEMMA IdleHasNone ==
  ASSUME NEW t \in Thread, pc[t] = "idle"
  PROVE  ~HasVa(t) /\ ~HasPrpage(t)
  BY DEF HasVa, HasPrpage

---------------------------------------------------------------------------
(* What the others rely on.                                                *)

\* Those that the step does not move, ...
LEMMA OthersKept ==
  ASSUME NEW t \in Thread, ThreadsKept(t), NEW u \in Thread, u # t
  PROVE  /\ pc'[u] = pc[u] /\ loc'[u] = loc[u]
         /\ HasVa(u)' <=> HasVa(u)
         /\ HasPrpage(u)' <=> HasPrpage(u)
<1>1. pc'[u] = pc[u] /\ loc'[u] = loc[u]
  BY Zenon DEF ThreadsKept
<1> QED BY Zenon, <1>1 DEF HasVa, HasPrpage

\* ... that have found a frame, ...
LEMMA MarkKept ==
  ASSUME MarkInv, NEW t \in Thread, ThreadsKept(t),
         pc'[t] = "mark" => loc'[t].va \in Frame
  PROVE  MarkInv'
<1>1. \A w \in Thread : w # t => pc'[w] = pc[w] /\ loc'[w] = loc[w]
  BY Zenon DEF ThreadsKept
<1> QED BY Zenon, <1>1 DEF MarkInv

\* ... that have a page and a pageref, ...
CallAt(t) ==
  /\ HasVa(t) => loc[t].va \in Frame
  /\ HasPrpage(t) => loc[t].prpage \in Frame /\ loc[t].pr \notin Listed
  /\ pc[t] \in {"getppages", "mark"} => loc[t].back # "idle"
  /\ pc[t] \in {"spare", "spared"} => kheaproots[RootOf(loc[t].pr)].page # NoFrame

\* What the calls rely on is kept, if what the step does to the lists and to the
\* pages of pagerefs leaves it alone, ...
LEMMA CallKept ==
  ASSUME HeapType, CallInv, NEW t \in Thread, ThreadsKept(t), CallAt(t)',
         \A k \in Root : kheaproots[k].page # NoFrame => kheaproots'[k].page # NoFrame,
         \A u \in Thread : u # t /\ HasPrpage(u) => loc[u].pr \notin Listed'
  PROVE  CallInv'
<1> SUFFICES ASSUME NEW u \in Thread, u # t PROVE CallAt(u)'
  BY Zenon DEF CallInv, CallAt
<1>1. /\ pc'[u] = pc[u] /\ loc'[u] = loc[u]
      /\ HasVa(u)' <=> HasVa(u)
      /\ HasPrpage(u)' <=> HasPrpage(u)
  BY Zenon, OthersKept
<1>2. CallAt(u)
  BY Zenon DEF CallInv, CallAt
<1>3. RootOf(loc[u].pr) \in Root
  BY DEF HeapType, LocRecord, Pageref, RootOf
<1> QED BY Zenon, <1>1, <1>2, <1>3 DEF CallAt

\* ... and no two calls wait with one pageref, if that of t, should it have one after the
\* step, is not another's.
LEMMA PendingKept ==
  ASSUME PendingInv, NEW t \in Thread, ThreadsKept(t),
         HasPrpage(t)' => \A u \in Thread : u # t /\ HasPrpage(u) => loc[u].pr # loc'[t].pr
  PROVE  PendingInv'
<1>1. \A u \in Thread : u # t => loc'[u] = loc[u] /\ (HasPrpage(u)' <=> HasPrpage(u))
  BY Zenon, OthersKept
<1> QED BY ZenonT(60), <1>1 DEF PendingInv

\* The pagerefs that calls have been given, when t gets one, returns or keeps its own.
LEMMA PendingMore ==
  ASSUME NEW t \in Thread, ThreadsKept(t), ~HasPrpage(t), HasPrpage(t)'
  PROVE  Pending' = Pending \cup {loc'[t].pr}
<1>1. \A u \in Thread : u # t => loc'[u] = loc[u] /\ (HasPrpage(u)' <=> HasPrpage(u))
  BY Zenon, OthersKept
<1>2. \A r : r \in Pending' <=> r \in Pending \/ r = loc'[t].pr
  BY Zenon, <1>1 DEF Pending
<1> QED BY Zenon, <1>2

\* A call that has put its pageref on the lists no longer waits with it.
LEMMA PendingLess ==
  ASSUME PendingInv, NEW t \in Thread, ThreadsKept(t), HasPrpage(t), ~HasPrpage(t)'
  PROVE  Pending' = Pending \ {loc[t].pr}
<1>1. \A u \in Thread : u # t => loc'[u] = loc[u] /\ (HasPrpage(u)' <=> HasPrpage(u))
  BY Zenon, OthersKept
<1>2. \A u \in Thread : u # t /\ HasPrpage(u) => loc[u].pr # loc[t].pr
  BY Zenon DEF PendingInv
<1>3. \A r : r \in Pending' <=> r \in Pending /\ r # loc[t].pr
  BY ZenonT(60), <1>1, <1>2 DEF Pending
<1> QED BY Zenon, <1>3

\* One that waits with the same pageref after the step as before, or with none.
LEMMA PendingSame ==
  ASSUME NEW t \in Thread, ThreadsKept(t), HasPrpage(t)' <=> HasPrpage(t),
         HasPrpage(t) => loc'[t].pr = loc[t].pr
  PROVE  Pending' = Pending
<1>1. \A u \in Thread : (HasPrpage(u) => loc'[u].pr = loc[u].pr) /\ (HasPrpage(u)' <=> HasPrpage(u))
  BY Zenon, OthersKept
<1>2. \A r : r \in Pending' <=> r \in Pending
  BY Zenon, <1>1 DEF Pending
<1> QED BY Zenon, <1>2

\* What the others rely on is not touched.
LEMMA FreeKept ==
  ASSUME HeapInv, NEW t \in Thread, ThreadsKept(t), pc'[t] = "free_kpages", HasVa(t)',
         ~HasPrpage(t)', loc'[t].va \in Frame, UNCHANGED status,
         \A k \in Root : kheaproots'[k].page = kheaproots[k].page, Listed' \subseteq Listed
  PROVE  MarkInv' /\ CallInv' /\ PendingInv'
<1>1. pc'[t] # "mark" /\ CallAt(t)'
  BY DEF CallAt
<1>2. MarkInv'
  BY Zenon, <1>1, MarkKept DEF HeapInv
<1>3. CallInv'
  <2>1. \A u \in Thread : u # t /\ HasPrpage(u) => loc[u].pr \notin Listed'
    BY Zenon DEF HeapInv, CallInv
  <2>2. \A k \in Root : kheaproots[k].page # NoFrame => kheaproots'[k].page # NoFrame
    BY Zenon
  <2> QED BY Zenon, <1>1, <2>1, <2>2, CallKept DEF HeapInv
<1>4. PendingInv'
  BY Zenon, PendingKept DEF HeapInv
<1> QED BY Zenon, <1>2, <1>3, <1>4

---------------------------------------------------------------------------
(* A block is taken or given back.                                         *)

\* A thread that returns, after a step under the lock.
LEMMA ReturnKept ==
  ASSUME HeapInv, NEW t \in Thread, Return(t), UNCHANGED status,
         \A k \in Root : kheaproots[k].page # NoFrame => kheaproots'[k].page # NoFrame,
         \A u \in Thread : u # t /\ HasPrpage(u) => loc[u].pr \notin Listed'
  PROVE  MarkInv' /\ CallInv' /\ PendingInv'
<1>1. /\ pc'[t] = "idle" /\ ThreadsKept(t) /\ ~HasVa(t)' /\ ~HasPrpage(t)'
  BY Zenon, MovesHome DEF HeapInv
<1>2. pc'[t] # "mark" /\ CallAt(t)'
  BY <1>1 DEF CallAt
<1>3. MarkInv'
  BY Zenon, <1>1, <1>2, MarkKept DEF HeapInv
<1>4. CallInv'
  BY Zenon, <1>1, <1>2, CallKept DEF HeapInv
<1>5. PendingInv'
  BY Zenon, <1>1, PendingKept DEF HeapInv
<1> QED BY Zenon, <1>3, <1>4, <1>5

\* A block of the page of r is given out or comes back, and the page stays.
LEMMA BlockStep ==
  ASSUME HeapInv, NEW t \in Thread, pc[t] = "idle", Return(t), PanicsInv',
         NEW r \in Listed, NEW q \in PrRecord, q.page = pr[r].page, q.blktype = pr[r].blktype,
         pr' = [pr EXCEPT ![r] = q],
         NEW x \in Pointer, x.page = pr[r].page,
         held' = held \cup {x} \/ held' = held \ {x}, Account(held', q),
         UNCHANGED <<kheaproots, inuse, sizebases, allbase, status>>
  PROVE  HeapInv'
<1>1. /\ kheaproots' = kheaproots /\ inuse' = inuse /\ sizebases' = sizebases
      /\ allbase' = allbase /\ status' = status
  BY Zenon
<1>2. /\ r \in Pageref /\ pr[r] \in PrRecord /\ pr[r].page \in Frame
  BY Zenon, BlocksBefore DEF HeapInv
<1>3. /\ pr'[r] = q /\ \A s \in Pageref : s # r => pr'[s] = pr[s]
      /\ pr' \in [Pageref -> PrRecord]
  <2>1. pr \in [Pageref -> PrRecord]
    BY Zenon DEF HeapInv, HeapType
  <2> QED BY <1>2, <2>1
<1>4. \A s \in Pageref : pr'[s].page = pr[s].page /\ pr'[s].blktype = pr[s].blktype
  BY Zenon, <1>3
<1>5. /\ pc'[t] = "idle" /\ ThreadsKept(t) /\ ~HasVa(t)' /\ ~HasPrpage(t)'
      /\ pc' \in [Thread -> Where] /\ loc' \in [Thread -> LocRecord]
  BY Zenon, MovesHome DEF HeapInv
<1>6. ~HasVa(t) /\ ~HasPrpage(t)
  BY Zenon, IdleHasNone
<1>7. held' \subseteq Pointer
  BY Zenon DEF HeapInv, HeapType
<1>8. HeapType'
  BY Zenon, <1>1, <1>3, <1>5, <1>7 DEF HeapInv, HeapType
<1>9. Listed' = Listed /\ Listed \subseteq Pageref
  BY Zenon, <1>1, Lists DEF Listed, HeapInv
<1>10. WholePages' = WholePages
  <2>1. \A y : y # x => (y \in held' <=> y \in held)
    BY Zenon
  <2>2. \A y : y \in WholePages' <=> y \in held' /\ \A s \in Listed : pr[s].page # y.page
    <3>1. \A y : y \in WholePages' <=> y \in held' /\ \A s \in Listed' : pr'[s].page # y.page
      BY Zenon, <1>8, ListsAfter
    <3>2. \A s \in Listed : pr'[s].page = pr[s].page
      BY Zenon, <1>4, <1>9
    <3>3. ASSUME NEW y
          PROVE  (\A s \in Listed' : pr'[s].page # y.page) <=> (\A s \in Listed : pr[s].page # y.page)
      <4>1. \A s \in Listed' : pr'[s].page = pr[s].page
        BY Zenon, <1>9, <3>2
      <4> QED BY Zenon, <1>9, <4>1
    <3> QED BY Zenon, <3>1, <3>3
  <2>3. \A y : y \in WholePages <=> y \in held /\ \A s \in Listed : pr[s].page # y.page
    BY Zenon, Lists DEF HeapInv
  <2>4. \A y : y \in WholePages' <=> y \in WholePages
    BY Zenon, <2>1, <2>2, <2>3
  <2> QED BY Zenon, <2>4
<1>11. MarkInv' /\ CallInv' /\ PendingInv'
  <2>1. \A u \in Thread : HasPrpage(u) => loc[u].pr \notin Listed'
    BY Zenon, <1>9 DEF HeapInv, CallInv
  <2> QED BY Zenon, <1>1, <2>1, ReturnKept
<1>12. HoldersInv'
  <2>1. RootsKept({}) /\ BlocksKept({}) /\ PagesKept({})
    BY Zenon, <1>1, <1>4, <1>9, <1>10 DEF RootsKept, BlocksKept, PagesKept
  <2>2. /\ Hold'[<<"va", t>>] = Hold[<<"va", t>>]
        /\ Hold'[<<"prpage", t>>] = Hold[<<"prpage", t>>]
    BY Zenon, <1>5, <1>6, HoldOf
  <2>3. ASSUME NEW y \in Holder PROVE Hold'[y] = Hold[y]
    <3>1. Hold'[y] = Hold[y] \/ Concerned({}, {}, {}, t, y)
      BY Zenon, <1>5, <2>1, Kept
    <3> QED BY Zenon, <2>2, <3>1 DEF Concerned
  <2> QED BY Zenon, <1>1, <2>3, HoldersStay DEF HeapInv
<1>13. BlocksInv'
  <2>1. ASSUME NEW s \in Listed' PROVE Account(held', pr'[s]) /\ pr'[s].page \in Frame
    <3>1. CASE s = r
      BY Zenon, <1>2, <1>3, <3>1
    <3>2. CASE s # r
      <4>1. s \in Listed /\ s \in Pageref /\ pr[s].page \in Frame /\ Account(held, pr[s])
        BY Zenon, <1>9, BlocksBefore DEF HeapInv
      <4>2. x.page # pr[s].page
        BY Zenon, <3>2, <4>1, OnePageref
      <4>3. Account(held', pr[s])
        BY ZenonT(60), <4>1, <4>2, AccountOther
      <4>4. pr'[s] = pr[s]
        BY Zenon, <1>3, <3>2, <4>1
      <4> QED BY Zenon, <4>1, <4>3, <4>4
    <3> QED BY Zenon, <3>1, <3>2
  <2>2. \A s \in Pageref : s \notin Listed' => pr'[s] = NoPageref
    BY Zenon, <1>3, <1>9 DEF HeapInv, BlocksInv
  <2>3. \A y \in WholePages' : y.off = 0
    BY Zenon, <1>10 DEF HeapInv, BlocksInv
  <2> QED BY Zenon, <1>8, <2>1, <2>2, <2>3, BlocksAfter
<1>14. ListsInv'
  <2>1. ASSUME NEW b \in BlockType
        PROVE  Range(sizebases'[b]) = {s \in Listed' : pr'[s].blktype = b}
    <3>1. Range(sizebases[b]) = {s \in Listed : pr[s].blktype = b}
      BY Zenon DEF HeapInv, ListsInv
    <3>2. \A s : s \in {z \in Listed' : pr'[z].blktype = b} <=> s \in {z \in Listed : pr[z].blktype = b}
      BY Zenon, <1>4, <1>9
    <3> QED BY Zenon, <1>1, <3>1, <3>2
  <2> QED BY Zenon, <2>1 DEF ListsInv
<1>15. RootsInv'
  BY Zenon, <1>1, <1>9 DEF HeapInv, RootsInv
<1>16. BitsInv'
  <2>1. Pending' = Pending
    BY Zenon, <1>5, <1>6, PendingSame
  <2> QED BY Zenon, <1>1, <1>9, <2>1 DEF HeapInv, BitsInv
<1> QED BY Zenon, <1>8, <1>11, <1>12, <1>13, <1>14, <1>15, <1>16 DEF HeapInv

---------------------------------------------------------------------------
(* A thread moves, and the heap and the clients stay as they are.          *)

\* Such a step keeps the invariant but for the holders, if the thread that makes it
\* gets no pageref and leaves none.
LEMMA QuietStep ==
  ASSUME HeapInv, NEW t \in Thread, NEW l \in Where, NEW v \in LocRecord, Moves(t, l, v),
         Quiet, status' \in [Frame -> {"FREE", "FIXED"}], PanicsInv',
         HasPrpage(t)' <=> HasPrpage(t),
         HasPrpage(t) => v.pr = loc[t].pr /\ v.prpage = loc[t].prpage,
         HasVa(t)' => v.va \in Frame,
         l \in {"getppages", "mark"} => v.back # "idle",
         l \in {"spare", "spared"} => kheaproots[RootOf(v.pr)].page # NoFrame
  PROVE  /\ HoldersInv' /\ MarkInv' => HeapInv'
         /\ \A x \in Holder : x = <<"va", t>> \/ Hold'[x] = Hold[x]
<1>1. /\ kheaproots' = kheaproots /\ inuse' = inuse /\ pr' = pr /\ sizebases' = sizebases
      /\ allbase' = allbase /\ held' = held
  BY Zenon DEF Quiet, heap
<1>2. /\ pc'[t] = l /\ loc'[t] = v /\ ThreadsKept(t)
      /\ pc' \in [Thread -> Where] /\ loc' \in [Thread -> LocRecord]
  BY Zenon, MovesTo DEF HeapInv
<1>3. HeapType'
  BY Zenon, <1>1, <1>2 DEF HeapInv, HeapType
<1>4. /\ Listed' = Listed /\ RootsKept({}) /\ BlocksKept({}) /\ PagesKept({})
      /\ BlocksInv' /\ ListsInv' /\ RootsInv'
  BY Zenon, HeapKept DEF HeapInv
<1>5. CallInv'
  <2>1. HasPrpage(t) => loc[t].prpage \in Frame /\ loc[t].pr \notin Listed
    BY Zenon DEF HeapInv, CallInv
  <2>2. CallAt(t)'
    BY Zenon, <1>1, <1>2, <1>4, <2>1 DEF CallAt
  <2>3. \A u \in Thread : HasPrpage(u) => loc[u].pr \notin Listed'
    BY Zenon, <1>4 DEF HeapInv, CallInv
  <2> QED BY Zenon, <1>1, <1>2, <2>2, <2>3, CallKept DEF HeapInv
<1>6. PendingInv'
  <2>1. HasPrpage(t)' => \A u \in Thread : u # t /\ HasPrpage(u) => loc[u].pr # loc'[t].pr
    BY Zenon, <1>2 DEF HeapInv, PendingInv
  <2> QED BY Zenon, <1>2, <2>1, PendingKept DEF HeapInv
<1>7. BitsInv'
  <2>1. Pending' = Pending
    BY Zenon, <1>2, PendingSame
  <2> QED BY Zenon, <1>1, <1>4, <2>1 DEF HeapInv, BitsInv
<1>8. ASSUME NEW x \in Holder, x # <<"va", t>> PROVE Hold'[x] = Hold[x]
  <2>1. Hold'[x] = Hold[x] \/ x = <<"prpage", t>>
    <3>1. Hold'[x] = Hold[x] \/ Concerned({}, {}, {}, t, x)
      BY Zenon, <1>2, <1>4, Kept
    <3> QED BY Zenon, <1>8, <3>1 DEF Concerned
  <2>2. Hold'[<<"prpage", t>>] = Hold[<<"prpage", t>>]
    <3>1. /\ Hold[<<"prpage", t>>] = IF HasPrpage(t) THEN loc[t].prpage ELSE NoFrame
          /\ Hold'[<<"prpage", t>>] = IF HasPrpage(t)' THEN loc'[t].prpage ELSE NoFrame
      BY Zenon, HoldOf
    <3> QED BY Zenon, <1>2, <3>1
  <2> QED BY Zenon, <2>1, <2>2
<1> QED BY Zenon, <1>3, <1>4, <1>5, <1>6, <1>7, <1>8 DEF HeapInv

\* If the frame in va stays where it is, so do all.
LEMMA QuietHolders ==
  ASSUME HoldersInv, NEW t \in Thread, UNCHANGED status,
         \A x \in Holder : x = <<"va", t>> \/ Hold'[x] = Hold[x],
         HasVa(t)' <=> HasVa(t), HasVa(t) => loc'[t].va = loc[t].va
  PROVE  HoldersInv'
<1>1. Hold'[<<"va", t>>] = Hold[<<"va", t>>]
  <2>1. /\ Hold[<<"va", t>>] = IF HasVa(t) THEN loc[t].va ELSE NoFrame
        /\ Hold'[<<"va", t>>] = IF HasVa(t)' THEN loc'[t].va ELSE NoFrame
    BY Zenon, HoldOf
  <2>2. CASE HasVa(t)
    BY Zenon, <2>1, <2>2
  <2>3. CASE ~HasVa(t)
    BY Zenon, <2>1, <2>3
  <2> QED BY Zenon, <2>2, <2>3
<1>2. \A x \in Holder : Hold'[x] = Hold[x]
  BY Zenon, <1>1
<1> QED BY Zenon, <1>2, HoldersStay

\* A thread moves, and no frame does.
LEMMA QuietMove ==
  ASSUME HeapInv, NEW t \in Thread, NEW l \in Where, NEW v \in LocRecord, Moves(t, l, v),
         Quiet, UNCHANGED <<status, panicked>>, l # "mark",
         HasPrpage(t)' <=> HasPrpage(t),
         HasPrpage(t) => v.pr = loc[t].pr /\ v.prpage = loc[t].prpage,
         HasVa(t)' <=> HasVa(t), HasVa(t) => v.va = loc[t].va,
         l = "getppages" => v.back # "idle",
         l \in {"spare", "spared"} => kheaproots[RootOf(v.pr)].page # NoFrame
  PROVE  HeapInv'
<1>1. status' = status /\ panicked' = panicked
  BY Zenon
<1>2. pc'[t] = l /\ loc'[t] = v /\ ThreadsKept(t)
  BY Zenon, MovesTo DEF HeapInv
<1>3. PanicsInv' /\ status' \in [Frame -> {"FREE", "FIXED"}]
  BY Zenon, <1>1 DEF HeapInv, PanicsInv, HeapType
<1>4. HasVa(t)' => v.va \in Frame
  BY Zenon DEF HeapInv, CallInv
<1>5. l \in {"getppages", "mark"} => v.back # "idle"
  BY Zenon
<1>6. /\ HoldersInv' /\ MarkInv' => HeapInv'
      /\ \A x \in Holder : x = <<"va", t>> \/ Hold'[x] = Hold[x]
  BY Zenon, <1>3, <1>4, <1>5, QuietStep
<1>7. HoldersInv'
  BY Zenon, <1>1, <1>2, <1>6, QuietHolders DEF HeapInv
<1>8. MarkInv'
  BY Zenon, <1>1, <1>2, MarkKept DEF HeapInv
<1> QED BY Zenon, <1>6, <1>7, <1>8

---------------------------------------------------------------------------
(* The page allocator.                                                     *)

\* getppages finds a free frame; others may have found it too.
LEMMA ScanStep ==
  ASSUME HeapInv, NEW t \in Thread, GetppagesScan(t)
  PROVE  HeapInv'
<1>1. Quiet /\ UNCHANGED status /\ pc[t] = "getppages"
  BY Zenon DEF GetppagesScan, Quiet
<1>2. status' \in [Frame -> {"FREE", "FIXED"}] /\ loc[t] \in LocRecord
  BY Zenon, <1>1 DEF HeapInv, HeapType
<1>3. loc[t].back # "idle"
  BY Zenon, <1>1 DEF HeapInv, CallInv
<1>4. CASE FreeFrames # {}
  <2> DEFINE f == Min(FreeFrames)
             v == WithVa(loc[t], f)
  <2>1. f \in Frame
    <3>1. FreeFrames \subseteq Nat
      BY Zenon, HeapAssumption DEF FreeFrames
    <3>2. f \in FreeFrames
      BY Zenon, <1>4, <3>1, MinIsLeast
    <3> QED BY Zenon, <3>2 DEF FreeFrames
  <2>2. loc' = [loc EXCEPT ![t].va = f] /\ Goto(t, "mark") /\ UNCHANGED panicked
    BY Zenon, <1>4 DEF GetppagesScan
  <2> HIDE DEF f
  <2>3. Moves(t, "mark", v)
    BY Zenon, <2>2, MovesWithVa DEF HeapInv
  <2>4. v \in LocRecord /\ v.prpage = loc[t].prpage /\ v.pr = loc[t].pr /\ v.va = f
        /\ v.back = loc[t].back
    BY Zenon, <1>2, <2>1, SetVa
  <2> HIDE DEF v
  <2>5. "mark" \in Where
    BY DEF Where
  <2>6. pc'[t] = "mark" /\ loc'[t] = v /\ ThreadsKept(t)
    BY Zenon, <2>3, <2>4, <2>5, MovesTo DEF HeapInv
  <2>7. ~HasVa(t) /\ ~HasVa(t)'
    BY <1>1, <2>6 DEF HasVa
  <2>8. HasPrpage(t)' <=> HasPrpage(t)
    BY <1>1, <2>4, <2>6 DEF HasPrpage
  <2>9. PanicsInv'
    BY Zenon, <2>2 DEF HeapInv, PanicsInv
  <2>10. /\ HoldersInv' /\ MarkInv' => HeapInv'
         /\ \A x \in Holder : x = <<"va", t>> \/ Hold'[x] = Hold[x]
    <3>1. "mark" \notin {"spare", "spared"}
      OBVIOUS
    <3> QED BY Zenon, <1>1, <1>2, <1>3, <2>3, <2>4, <2>5, <2>7, <2>8, <2>9, <3>1, QuietStep
  <2>11. HoldersInv'
    BY Zenon, <1>1, <2>7, <2>10, QuietHolders DEF HeapInv
  <2>12. MarkInv'
    BY Zenon, <2>1, <2>4, <2>6, MarkKept DEF HeapInv
  <2> QED BY Zenon, <2>10, <2>11, <2>12
<1>5. CASE FreeFrames = {}
  <2>1. panicked' = "no more victims in the coremap" /\ UNCHANGED <<pc, loc>>
    BY Zenon, <1>5 DEF GetppagesScan
  <2>2. Goto(t, pc[t])
    BY Zenon, <2>1 DEF HeapInv, HeapType, Goto
  <2>3. Moves(t, pc[t], loc[t])
    BY Zenon, <2>1, <2>2, MovesOnly DEF HeapInv
  <2>4. PanicsInv' /\ pc[t] \in Where /\ pc[t] \notin {"spare", "spared"}
    BY Zenon, <1>1, <2>1 DEF PanicsInv, Where
  <2>5. (HasPrpage(t)' <=> HasPrpage(t)) /\ (HasVa(t)' <=> HasVa(t))
    BY Zenon, <2>1 DEF HasPrpage, HasVa
  <2>6. HasVa(t) => loc[t].va \in Frame
    BY Zenon DEF HeapInv, CallInv
  <2>7. /\ HoldersInv' /\ MarkInv' => HeapInv'
        /\ \A x \in Holder : x = <<"va", t>> \/ Hold'[x] = Hold[x]
    BY Zenon, <1>1, <1>2, <1>3, <2>3, <2>4, <2>5, <2>6, QuietStep
  <2>8. HoldersInv'
    BY Zenon, <1>1, <2>1, <2>5, <2>7, QuietHolders DEF HeapInv
  <2>9. MarkInv'
    BY Zenon, <1>1, <2>1 DEF HeapInv, MarkInv
  <2> QED BY Zenon, <2>7, <2>8, <2>9
<1> QED BY Zenon, <1>4, <1>5

\* getppages marks the frame it found, still free, which its caller then holds.
LEMMA MarkStep ==
  ASSUME HeapInv, NEW t \in Thread, GetppagesMark(t), ~MarksTwice(t)
  PROVE  HeapInv'
<1> DEFINE f == loc[t].va
           l == loc[t].back
<1>1. /\ Quiet /\ pc[t] = "mark" /\ Goto(t, l) /\ UNCHANGED loc /\ UNCHANGED panicked
      /\ status' = [status EXCEPT ![f] = "FIXED"]
  BY Zenon DEF GetppagesMark, Quiet
<1>2. f \in Frame /\ status[f] = "FREE"
  BY Zenon, <1>1 DEF HeapInv, MarkInv, MarksTwice
<1>3. status' \in [Frame -> {"FREE", "FIXED"}] /\ loc[t] \in LocRecord
  BY <1>1, <1>2 DEF HeapInv, HeapType
<1>4. l \in {"newpage", "bigpage", "refpage"}
  <2>1. l # "idle"
    BY Zenon, <1>1 DEF HeapInv, CallInv
  <2> QED BY Zenon, <1>3, <2>1, LocFields
<1>5. l \in Where /\ l \notin {"spare", "spared", "getppages", "mark"}
  BY <1>4 DEF Where
<1>6. Moves(t, l, loc[t])
  BY Zenon, <1>1, MovesOnly DEF HeapInv
<1>7. pc'[t] = l /\ loc'[t] = loc[t] /\ ThreadsKept(t)
  BY Zenon, <1>3, <1>5, <1>6, MovesTo DEF HeapInv
<1>8. ~HasVa(t) /\ HasVa(t)'
  BY <1>1, <1>4, <1>7 DEF HasVa
<1>9. HasPrpage(t)' <=> HasPrpage(t)
  BY <1>1, <1>4, <1>7 DEF HasPrpage
<1>10. PanicsInv'
  BY Zenon, <1>1 DEF HeapInv, PanicsInv
<1>11. /\ HoldersInv' /\ MarkInv' => HeapInv'
       /\ \A x \in Holder : x = <<"va", t>> \/ Hold'[x] = Hold[x]
  <2>1. l \in {"getppages", "mark"} => loc[t].back # "idle"
    BY Zenon, <1>5
  <2>2. l \notin {"spare", "spared"}
    BY Zenon, <1>5
  <2> HIDE DEF l
  <2> QED BY Zenon, <1>1, <1>2, <1>3, <1>5, <1>6, <1>9, <1>10, <2>1, <2>2, QuietStep
<1>12. HoldersInv'
  <2>1. /\ <<"va", t>> \in Holder /\ Hold[<<"va", t>>] = NoFrame /\ Hold'[<<"va", t>>] = f
    BY Zenon, <1>7, <1>8, HoldOf
  <2>2. Held(Hold, status) /\ status \in [Frame -> {"FREE", "FIXED"}]
    BY Zenon DEF HeapInv, HoldersInv, HeapType
  <2> HIDE DEF f
  <2>3. Held(Hold', [status EXCEPT ![f] = "FIXED"])
    <3>1. f \in Frame /\ status[f] = "FREE"
      BY Zenon, <1>2
    <3>2. \A x \in Holder : x = <<"va", t>> \/ Hold'[x] = Hold[x]
      BY Zenon, <1>11
    <3> QED BY ZenonT(60), <2>1, <2>2, <3>1, <3>2, Taken
  <2> QED BY Zenon, <1>1, <2>3 DEF HoldersInv
<1>13. MarkInv'
  BY Zenon, <1>2, <1>7, MarkKept DEF HeapInv
<1> QED BY Zenon, <1>11, <1>12, <1>13

\* A thread gives the frame in va back.
LEMMA GiveBack ==
  ASSUME HeapInv, NEW t \in Thread, HasVa(t), ~HasVa(t)', ThreadsKept(t), pc'[t] # "mark",
         status' = [status EXCEPT ![loc[t].va] = "FREE"],
         \A x \in Holder : x = <<"va", t>> \/ Hold'[x] = Hold[x]
  PROVE  HoldersInv' /\ MarkInv' /\ status' \in [Frame -> {"FREE", "FIXED"}]
<1> DEFINE f == loc[t].va
<1>1. f \in Frame
  BY Zenon DEF HeapInv, CallInv
<1>2. Held(Hold, status) /\ status \in [Frame -> {"FREE", "FIXED"}]
  BY Zenon DEF HeapInv, HoldersInv, HeapType
<1>3. <<"va", t>> \in Holder /\ Hold[<<"va", t>>] = f /\ Hold'[<<"va", t>>] = NoFrame
  BY Zenon, HoldOf
<1>4. status' \in [Frame -> {"FREE", "FIXED"}]
  BY <1>1, <1>2
<1>5. Held(Hold', [status EXCEPT ![Hold[<<"va", t>>]] = "FREE"])
  BY Zenon, <1>1, <1>2, <1>3, Given
<1>6. HoldersInv'
  BY Zenon, <1>3, <1>5 DEF HoldersInv
<1>7. MarkInv'
  BY Zenon, MarkKept DEF HeapInv
<1> QED BY Zenon, <1>4, <1>6, <1>7

\* free_kpages takes the frame from the thread that holds it.
LEMMA FreeKpagesStep ==
  ASSUME HeapInv, NEW t \in Thread, FreeKpages(t)
  PROVE  HeapInv'
<1>1. /\ Quiet /\ pc[t] = "free_kpages" /\ Return(t) /\ UNCHANGED panicked
      /\ status' = [status EXCEPT ![loc[t].va] = "FREE"]
  BY Zenon DEF FreeKpages, Quiet
<1>2. /\ Moves(t, "idle", NoLocals) /\ pc'[t] = "idle" /\ ThreadsKept(t)
      /\ ~HasVa(t)' /\ ~HasPrpage(t)'
  BY Zenon, <1>1, MovesHome DEF HeapInv
<1>3. HasVa(t) /\ ~HasPrpage(t)
  BY <1>1 DEF HasVa, HasPrpage
<1>4. PanicsInv'
  BY Zenon, <1>1 DEF HeapInv, PanicsInv
<1>5. "idle" \in Where /\ "idle" \notin {"spare", "spared", "getppages", "mark"}
      /\ "idle" # "mark"
  BY DEF Where
<1>6. status' \in [Frame -> {"FREE", "FIXED"}]
  BY Zenon, <1>1 DEF HeapInv, HeapType
<1>7. "idle" \notin {"getppages", "mark"} /\ "idle" \notin {"spare", "spared"}
  OBVIOUS
<1>8. /\ HoldersInv' /\ MarkInv' => HeapInv'
      /\ \A x \in Holder : x = <<"va", t>> \/ Hold'[x] = Hold[x]
  BY Zenon, <1>1, <1>2, <1>3, <1>4, <1>5, <1>6, <1>7, Firsts, QuietStep
<1>9. HoldersInv' /\ MarkInv'
  BY Zenon, <1>1, <1>2, <1>3, <1>5, <1>8, GiveBack
<1> QED BY Zenon, <1>8, <1>9

\* A page of pagerefs that somebody else has allocated already goes back.
LEMMA FreeSpareStep ==
  ASSUME HeapInv, NEW t \in Thread, FreeSpare(t)
  PROVE  HeapInv'
<1>1. /\ Quiet /\ pc[t] = "spare" /\ Goto(t, "spared") /\ UNCHANGED loc /\ UNCHANGED panicked
      /\ status' = [status EXCEPT ![loc[t].va] = "FREE"]
  BY Zenon DEF FreeSpare, Quiet
<1>2. Moves(t, "spared", loc[t]) /\ loc[t] \in LocRecord
  BY Zenon, <1>1, MovesOnly DEF HeapInv, HeapType
<1>3. "spared" \in Where /\ "spared" \notin {"getppages", "mark"} /\ "spared" # "mark"
  BY DEF Where
<1>4. pc'[t] = "spared" /\ loc'[t] = loc[t] /\ ThreadsKept(t)
  BY ZenonT(60), <1>2, <1>3, MovesTo DEF HeapInv
<1>5. HasVa(t) /\ HasPrpage(t) /\ ~HasVa(t)' /\ HasPrpage(t)'
  BY <1>1, <1>4 DEF HasVa, HasPrpage
<1>6. PanicsInv'
  BY Zenon, <1>1 DEF HeapInv, PanicsInv
<1>7. status' \in [Frame -> {"FREE", "FIXED"}]
  BY Zenon, <1>1 DEF HeapInv, HeapType
<1>8. kheaproots[RootOf(loc[t].pr)].page # NoFrame
  BY Zenon, <1>1 DEF HeapInv, CallInv
<1>9. /\ HoldersInv' /\ MarkInv' => HeapInv'
      /\ \A x \in Holder : x = <<"va", t>> \/ Hold'[x] = Hold[x]
  BY Zenon, <1>1, <1>2, <1>3, <1>5, <1>6, <1>7, <1>8, QuietStep
<1>10. HoldersInv' /\ MarkInv'
  BY Zenon, <1>1, <1>3, <1>4, <1>5, <1>9, GiveBack
<1> QED BY Zenon, <1>9, <1>10

---------------------------------------------------------------------------
(* kmalloc.                                                                *)

\* A call that starts with alloc_kpages.
LEMMA CallStep ==
  ASSUME HeapInv, NEW t \in Thread, NEW b \in BlockType, NEW back \in {"newpage", "bigpage"},
         pc[t] = "idle", AllocKpages(t, Locals(b, NoFrame, <<0, 0>>, back)),
         Quiet, UNCHANGED <<status, panicked>>
  PROVE  HeapInv'
<1> DEFINE v == Locals(b, NoFrame, <<0, 0>>, back)
<1>1. Moves(t, "getppages", v)
  BY Zenon DEF AllocKpages, Moves, Goto
<1>2. back \in {"idle", "newpage", "bigpage", "refpage"} /\ back # "idle" /\ back # "refpage"
  BY Zenon
<1>3. v \in LocRecord /\ v.back = back
  <2>1. NoFrame \in Frame \cup {NoFrame} /\ <<0, 0>> \in Pageref
    BY Zenon, Firsts
  <2> QED BY <1>2, <2>1 DEF Locals, LocRecord
<1> HIDE DEF v
<1>4. "getppages" \in Where /\ "getppages" # "mark" /\ "getppages" \notin {"spare", "spared"}
  BY DEF Where
<1>5. pc'[t] = "getppages" /\ loc'[t] = v
  BY Zenon, <1>1, <1>3, <1>4, MovesTo DEF HeapInv
<1>6. ~HasVa(t) /\ ~HasVa(t)' /\ ~HasPrpage(t) /\ ~HasPrpage(t)'
  BY <1>2, <1>3, <1>5 DEF HasVa, HasPrpage
<1> QED BY Zenon, <1>1, <1>2, <1>3, <1>4, <1>6, QuietMove

\* kmalloc of a page calls alloc_kpages.
LEMMA KmallocPageStep ==
  ASSUME HeapInv, NEW t \in Thread, NEW sz \in Size, KmallocPage(t, sz)
  PROVE  HeapInv'
<1>1. /\ pc[t] = "idle" /\ AllocKpages(t, Locals(1, NoFrame, <<0, 0>>, "bigpage"))
      /\ Quiet /\ UNCHANGED <<status, panicked>>
  BY Zenon DEF KmallocPage, Quiet
<1>2. "bigpage" \in {"newpage", "bigpage"}
  OBVIOUS
<1> QED BY Zenon, <1>1, <1>2, Firsts, CallStep

\* kmalloc of a block takes one off a free list, or calls alloc_kpages.
LEMMA KmallocStep ==
  ASSUME HeapInv, NEW t \in Thread, NEW sz \in Size, Kmalloc(t, sz)
  PROVE  HeapInv'
<1> DEFINE b == blocktype(sz)
<1>1. pc[t] = "idle" /\ sz < LARGEST_SUBPAGE_SIZE /\ UNCHANGED status
  BY Zenon DEF Kmalloc
<1>2. b \in BlockType
  BY Zenon, <1>1, BlockTypes
<1>3. CASE Usable(b) # {}
  <2> DEFINE r == sizebases[b][Min(Usable(b))]
             q == WithFreelist(pr[r], Tail(pr[r].freelist), pr[r].nfree - 1)
             x == [page |-> pr[r].page, off |-> Head(pr[r].freelist)]
  <2>1. DoAlloc(t, r, pr[r]) /\ UNCHANGED <<kheaproots, inuse, sizebases, allbase, status>>
    BY Zenon, <1>1, <1>3 DEF Kmalloc
  <2>2. r \in Listed /\ pr[r].nfree > 0
    BY Zenon, <1>2, <1>3, UsableFirst DEF HeapInv
  <2> HIDE DEF r
  <2>3. /\ pr' = [pr EXCEPT ![r] = q] /\ held' = held \cup {x} /\ Return(t)
        /\ KASSERT((pr[r].nfree = 1) = (Len(pr[r].freelist) = 1), "doalloc: nfree")
    BY Zenon, <2>1 DEF DoAlloc
  <2>4. pr[r] \in PrRecord /\ pr[r].page \in Frame /\ Account(held, pr[r]) /\ held \in SUBSET Pointer
    BY Zenon, <2>2, BlocksBefore DEF HeapInv, HeapType
  <2>5. /\ q \in PrRecord /\ q.page = pr[r].page /\ q.blktype = pr[r].blktype
        /\ x \in Pointer \ held /\ x.page = pr[r].page
        /\ Account(held \cup {x}, q)
        /\ (pr[r].nfree = 1) = (Len(pr[r].freelist) = 1)
    BY Zenon, <2>2, <2>4, AccountTake
  <2>6. PanicsInv'
    BY Zenon, <2>3, <2>5 DEF KASSERT, PanicsInv
  <2> HIDE DEF q, x
  <2>7. x \in Pointer /\ Account(held', q)
    BY Zenon, <2>3, <2>5
  <2> QED BY Zenon, <1>1, <2>1, <2>2, <2>3, <2>5, <2>6, <2>7, BlockStep
<1>4. CASE Usable(b) = {}
  <2>1. /\ AllocKpages(t, Locals(b, NoFrame, <<0, 0>>, "newpage"))
        /\ UNCHANGED <<heap, held, panicked>>
    BY Zenon, <1>4 DEF Kmalloc
  <2>2. Quiet /\ UNCHANGED <<status, panicked>>
    BY Zenon, <1>1, <2>1 DEF Quiet
  <2>3. "newpage" \in {"newpage", "bigpage"}
    OBVIOUS
  <2> HIDE DEF b
  <2> QED BY Zenon, <1>1, <1>2, <2>1, <2>2, <2>3, CallStep
<1> QED BY Zenon, <1>3, <1>4

\* Without a pageref for it, the page goes back.
LEMMA NewPageFails ==
  ASSUME HeapInv, NEW t \in Thread, pc[t] = "newpage", Goto(t, "free_kpages"),
         UNCHANGED <<status, heap, loc, held, panicked>>
  PROVE  HeapInv'
<1>1. Quiet /\ UNCHANGED <<status, panicked>> /\ UNCHANGED loc
  BY Zenon DEF Quiet
<1>2. Moves(t, "free_kpages", loc[t]) /\ loc[t] \in LocRecord
  BY Zenon, <1>1, MovesOnly DEF HeapInv, HeapType
<1>3. "free_kpages" \in Where /\ "free_kpages" # "mark" /\ "free_kpages" # "getppages"
      /\ "free_kpages" \notin {"spare", "spared"}
  BY DEF Where
<1>4. pc'[t] = "free_kpages"
  BY ZenonT(60), <1>2, <1>3, MovesTo DEF HeapInv
<1>5. HasVa(t) /\ HasVa(t)' /\ ~HasPrpage(t) /\ ~HasPrpage(t)'
  BY <1>4 DEF HasVa, HasPrpage
<1> QED BY Zenon, <1>1, <1>2, <1>3, <1>5, QuietMove

\* allocpagerefpage finds that somebody else has allocated the page.
LEMMA RefPageSpare ==
  ASSUME HeapInv, NEW t \in Thread, pc[t] = "refpage", SomebodyElse(RootOf(loc[t].pr)),
         Goto(t, "spare"), UNCHANGED <<status, heap, loc, held, panicked>>
  PROVE  HeapInv'
<1>1. Quiet /\ UNCHANGED <<status, panicked>> /\ UNCHANGED loc
  BY Zenon DEF Quiet
<1>2. Moves(t, "spare", loc[t]) /\ loc[t] \in LocRecord
  BY Zenon, <1>1, MovesOnly DEF HeapInv, HeapType
<1>3. "spare" \in Where /\ "spare" # "mark" /\ "spare" # "getppages"
  BY DEF Where
<1>4. pc'[t] = "spare"
  BY ZenonT(60), <1>2, <1>3, MovesTo DEF HeapInv
<1>5. HasVa(t) /\ HasVa(t)' /\ HasPrpage(t) /\ HasPrpage(t)'
  BY <1>4 DEF HasVa, HasPrpage
<1>6. kheaproots[RootOf(loc[t].pr)].page # NoFrame
  BY Zenon DEF SomebodyElse
<1> QED BY Zenon, <1>1, <1>2, <1>3, <1>5, <1>6, QuietMove
=============================================================================
