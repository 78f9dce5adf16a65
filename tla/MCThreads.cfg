\* Two processors, four threads, one channel.  Two threads on one run queue beside
\* the running one and an idle processor are what makes migration happen.
CONSTANTS
  lbolt = lbolt
  NoChannel = NoChannel
  NCPU = 2
  Thread = {t1, t2, t3, t4}
  Channel = {lbolt}
SPECIFICATION Spec
SYMMETRY ThreadSymmetry
INVARIANTS
  TypeOK
  ThreadInOnePlace
  NoSharedStack
  ThreadKnowsItsCpu
  IdleCpuWithWorkIsInterrupted
  MigrationHasVictims
