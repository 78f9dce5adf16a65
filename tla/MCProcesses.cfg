\* Two pieces of memory for processes, so that one is used again after another;
\* one identifier for them; descriptors 3 and 4; more statuses than the low byte tells apart.
CONSTANTS
  Proc = {p1, p2}
  kproc = kproc
  NULL = NULL
  Stray = Stray
  MINP = 2
  MAXP = 4
  OPEN_MAX = 5
  SYSTEM_OPEN_MAX = 2
  Vnode = {v1, v2}
  Status = {3, 259}
SPECIFICATION Spec
INVARIANTS
  TypeOK
  ProcLivesWhileUsed
  MenuGetsExitStatus
  MenuSleepsAfterFailureOnly
  OpenFilesAccounted
PROPERTIES
  ExitReturnsToPrompt
\* A panic stops the system, and so does a menu that waits for good.
CHECK_DEADLOCK FALSE
