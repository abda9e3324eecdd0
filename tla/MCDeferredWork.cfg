\* Two timers and one queued item can overflow a ring of two.
CONSTANTS
  Msgs = {m1, m2, m3}
  None = None
  TimerSlots = 2
  WorkSize = 2
  MaxRun = 1
  MaxDelay = 2
SPECIFICATION FairSpec
INVARIANTS
  OneHolder
PROPERTIES
  PollExact
  WorkIsFifo
  TimerFires
  WorkRuns
