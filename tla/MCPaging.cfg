\* Two frames for three pages, two slots, one TLB entry and a kernel page: evictions,
\* a full swap file and TLB replacement all happen.
SPECIFICATION FairSpec
CONSTANTS
  nRamFrames = 3
  firstFreeFrame = 1
  Pages = {p1, p2, p3}
  NoPage = NoPage
  Values = {v1, v2}
  Absent = Absent
  SWAPSLOTS = 2
  NUM_TLB = 1
  MaxKPages = 1
INVARIANTS
  TypeOK
  FrameTableConsistent
  SwapTableConsistent
  TlbCoherent
  KernelFramesPinned
  AssertionsHold
  NothingLeftBehind
PROPERTIES
  PagingIsInvisible
  AccessCompletes
