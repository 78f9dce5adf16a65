\* The instance of MCProcesses.cfg, for a program that cannot be forked or loaded.
CONSTANTS
  Proc = {p1, p2}
  kproc = kproc
  NULL = NULL
  Stray = Stray
  MINP = 2
  MAXP = 4
  OPEN_MAX = 5
  SYSTEM_OPEN_MAX = 2
  Vnode = {v1, v2}
  Status = {3, 259}
SPECIFICATION Spec
PROPERTIES
  FailedProgramIsDestroyed
CHECK_DEADLOCK FALSE
