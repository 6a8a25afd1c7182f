SPECIFICATION Spec
CONSTANTS
  t1 = t1
  t2 = t2
  u1 = u1
  u2 = u2
  Tab = {t1, t2}
  User = {u1, u2}
  Second = 2
  Idle = 1
  Absolute = 1
  MaxTime = 2
  MaxTokens = 3
  MaxInFlight = 2
  MaxSent = 4
  MaxTimeouts = 1
  Nothing = none
SYMMETRY Symmetry
INVARIANTS IInv
PROPERTIES WritesAreOwn RevocationIsComplete
CHECK_DEADLOCK FALSE
