SPECIFICATION FairSpec
CONSTANTS
  nRamFrames = 6
  firstFreeFrame = 2
  MaxVictims = 3
INVARIANTS
  TypeOK
  ScanMatchesRelation
  OneVictimIsEvictable
PROPERTY
  ScanTerminates
CHECK_DEADLOCK FALSE
