SPECIFICATION FairSpec
CONSTANTS
  nRamFrames = 2
  firstFreeFrame = 1
  Pages = {p1, p2}
  NoPage = NoPage
  Values = {v1}
  Absent = Absent
  SWAPSLOTS = 2
  NUM_TLB = 2
  MaxKPages = 1
PROPERTY EveryAccessCompletes
