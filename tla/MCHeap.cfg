\* Two pages of two pagerefs, so that a third page of blocks needs the second; two
\* sizes, two blocks to a page; the frames run out.
CONSTANTS
  Thread = {t1, t2}
  Frame <- MCFrame
  NoFrame = NoFrame
  Size = {1, 7, 8}
  PAGE_SIZE = 16
  sizes <- MCsizes
  NPAGEREFS_PER_PAGE = 2
  NUM_PAGEREFPAGES = 2
  MaxHeld = 2
SPECIFICATION Spec
INVARIANTS
  TypeOK
  HeldOnceUnlessRaced
  HeapAccounted
  AssertionsHold
SYMMETRY Symmetry
\* A panic stops the system.
CHECK_DEADLOCK FALSE
