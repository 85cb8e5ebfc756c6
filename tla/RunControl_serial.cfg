SPECIFICATION FairSpec
CONSTANTS
  Daemon = {d1}
  Web = {w1}
  Cli = {}
  Run = {r1, r2}
  Account = {a1}
  SerialMax = 10
  MaxWorkers = 1
  MaxPolls = 1
  Wedgeable = {a1}
  MayPause = FALSE
  DiskMayFail = TRUE
  None = None
INVARIANTS LockIsHeldByItsRun StopFlagIsForHolder StateFileNamesTheScan
PROPERTIES OnlyAStoppedRunIsCancelled DaemonFreesLock
CHECK_DEADLOCK FALSE
