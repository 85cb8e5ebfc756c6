SPECIFICATION MCSpec
CONSTANTS
  s1 = s1
  s2 = s2
  s3 = s3
  d = d
  w = w
  v = v
  u = u
  a = a
  b = b
  Scans = {s1, s2, s3}
  Processes = {d, w}
  Viewers = {v, u}
  Unrestricted = {u}
  Wide = {s1}
  Home <- MCHome
  Owner <- MCOwner
  Allowed <- MCAllowed
  RotateSize = 1
  Keep = 1
  QueueMax = 1
  MaxFiles = 3
INVARIANTS StreamInOrder PageIsWhole
PROPERTY StreamDelivers
CHECK_DEADLOCK FALSE
