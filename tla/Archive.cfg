SPECIFICATION Spec
CONSTANTS
  Reviews = {"registered"}
  Restores = 1
  Rounds = 2
  Dated = {"old1"}
  Readable = {2}
  MaxTicks = 2
  Certificates = FALSE
  None = None
INVARIANTS GoneIsMarked ArchivedHasCopy RecordedIsShown
PROPERTIES NothingIsLost NoStepBack
CHECK_DEADLOCK FALSE
