SPECIFICATION MCSpec
CONSTANTS
  User = {u1, u2}
  Env = env
  grp = grp
  Group = {grp}
  OwnGroup <- SharedOwnGroup
  Password = {p1, p2}
  Request = {t1, t2}
  MaxChanges = 2
  None = None
INVARIANT SessionsAreCurrent
PROPERTIES EndedStaysEnded LastAdminStays OwnChangeKnewTheOld DeletedGroupWasEmpty
SYMMETRY Interchangeable
CHECK_DEADLOCK FALSE
