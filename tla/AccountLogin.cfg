SPECIFICATION Spec
CONSTANTS
  Password = {p1, p2}
  Verify = {v1, v2}
  Scan = {s1}
  MaxFailures = 2
  MaxStreak = 2
  MaxGen = 2
  MayOverlap = FALSE
  MayRestart = TRUE
  DiskMayFail = TRUE
  None = None
INVARIANTS IInv ReportsOnStoredPassword PauseMatchesStreak
SYMMETRY Symmetry
CHECK_DEADLOCK FALSE
