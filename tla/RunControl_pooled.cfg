SPECIFICATION FairSpec
CONSTANTS
  Daemon = {}
  Web = {w1}
  Cli = {c1}
  Run = {r1}
  Account = {a1, a2}
  SerialMax = 0
  MaxWorkers = 2
  MaxPolls = 0
  Wedgeable = {a1}
  MayPause = TRUE
  DiskMayFail = TRUE
  None = None
INVARIANTS IInv CancelledRunSaysSo
PROPERTIES SnapshotsUnderLock ImplementsRunLock RoundReleasesLock
CHECK_DEADLOCK FALSE
