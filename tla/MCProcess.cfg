\* Three processes, with fairness.
CONSTANTS
  Codes = {0, 7}
  MaxProcs = 3
  Shell = shell
  Sched = sched
  LoadFailed = load_failed
  NoProcess = no_process
  Nothing = nothing
SPECIFICATION FairSpec
INVARIANTS
  TableExact
  OneProgram
  WaitReports
PROPERTIES
  WaitReturns
