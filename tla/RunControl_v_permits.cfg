SPECIFICATION FairSpec
CONSTANTS
  Daemon = {}
  Web = {w1}
  Cli = {}
  Run = {r1}
  Account = {a1, a2}
  SerialMax = 0
  MaxWorkers = 1
  MaxPolls = 0
  Wedgeable = {a1}
  MayPause = FALSE
  DiskMayFail = FALSE
  None = None
PROPERTY RoundReleasesLock
CHECK_DEADLOCK FALSE
