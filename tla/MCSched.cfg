CONSTANTS
  MaxTasks = 3
  MaxSleep = 2
  TtyCapacity = 2
SPECIFICATION BFairSpec
INVARIANTS
  IndInv
  NoLostWakeup
  HaltInterruptible
  BoundedBypass
PROPERTIES
  NoEarlyWake
  SleeperRuns
  KeyReachesReader
