\* Three threads, so that a sleeper stays behind when one is woken; three
\* sectors of the four a word can name.
CONSTANTS
  Thread = {t1, t2, t3}
  NoThread = NoThread
  WORD = 4
  d_blocks = 3
  Request <- MCRequest
SPECIFICATION DiskSpec
INVARIANTS
  TypeOK
  LockHeldByOwner
  NoLostWakeup
  DiskServesItsCaller
  NoLostSemWakeup
PROPERTIES
  ImplementsMonitor
  DeviceIsGivenUp
\* Every thread may wait on the condition variable.
CHECK_DEADLOCK FALSE
