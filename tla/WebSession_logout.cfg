SPECIFICATION Spec
CONSTANTS
  t1 = t1
  t2 = t2
  u1 = u1
  u2 = u2
  Tab = {t1, t2}
  User = {u1}
  Second = 2
  Idle = 1
  Absolute = 2
  MaxTime = 2
  MaxTokens = 3
  MaxInFlight = 2
  MaxSent = 5
  MaxTimeouts = 0
  Nothing = none
PROPERTIES LogoutIsFinal
CHECK_DEADLOCK FALSE
