CONSTANTS
  Thread = {t1, t2, t3}
  Name = {n1, n2}
  Block <- MCBlock
  DirPerBlock = 2
  DirBlocks = 1
  MaxFaults = 2
SPECIFICATION Spec
INVARIANTS
  LinkcountIsNames
  RefcountIsReferences
  BlocksHaveOneUse
  NoInconsistencyFound
SYMMETRY Symmetry
\* A panic stops the system.
CHECK_DEADLOCK FALSE
