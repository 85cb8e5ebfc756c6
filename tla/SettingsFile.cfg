SPECIFICATION MCSpec
CONSTANTS
  Threads = {t1, t2}
  Plans = {"default", "evening"}
  Default = "default"
  Sizes = {1}
  HandContents <- MCHandContents
  Attempts = 2
  MaxVersions = 3
  MaxTick = 1
  MaxDeaths = 1
INVARIANT ReadIsFresh
PROPERTIES SavesKeepTheRest ScheduleFollows
CHECK_DEADLOCK FALSE
