SPECIFICATION Spec
CONSTANTS
  Reg = {r1, r2, r3}
  HasId = {r1, r2}
  Status = {reviewing, granted}
  r1 = r1 r2 = r2 r3 = r3 reviewing = reviewing granted = granted
  Initial <- Lists
  PageSize = 2
  Cap = {1, 3}
  ShrinkMin = 2
  MaxChanges = 1
  MaxScans = 2
  MaxCredit = 1
  None = None
INVARIANT PartialRemovesNothing
CHECK_DEADLOCK FALSE
