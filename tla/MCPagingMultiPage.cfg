SPECIFICATION Spec
CONSTANTS
  nRamFrames = 4
  firstFreeFrame = 2
  Pages = {p1, p2}
  NoPage = NoPage
  Values = {v1}
  Absent = Absent
  SWAPSLOTS = 2
  NUM_TLB = 2
  MaxKPages = 2
INVARIANT KernelFramesPrivate
