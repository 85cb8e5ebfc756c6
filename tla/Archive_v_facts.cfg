SPECIFICATION Spec
CONSTANTS
  Reviews = {"waiting", "correcting", "registered"}
  Restores = 1
  Rounds = 2
  Dated = {"old1"}
  Readable = {1, 2}
  MaxTicks = 3
  Certificates = FALSE
  None = None
PROPERTY FactsAreOfTheFile
CHECK_DEADLOCK FALSE
