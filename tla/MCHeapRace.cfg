\* The calls of getppages are not kept apart.
CONSTANTS
  Thread = {t1, t2}
  Frame <- MCFrame
  NoFrame = NoFrame
  Size = {1, 7, 8}
  PAGE_SIZE = 16
  sizes <- MCsizes
  NPAGEREFS_PER_PAGE = 2
  NUM_PAGEREFPAGES = 2
  MaxHeld = 2
SPECIFICATION Spec
INVARIANTS
  FrameHasOneHolder
CHECK_DEADLOCK FALSE
