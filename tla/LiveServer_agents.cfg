SPECIFICATION FairSpec
CONSTANTS
  a1 = a1
  a2 = a2
  s1 = s1
  Session = {s1}
  Agent = {a1, a2}
  MaxFaults = 1
  Nothing = none
INVARIANTS IInv WorkedOnce CanceledStaysFenced DecisionHeld NoExitWhileConnected
PROPERTIES UndeliveredKept DecisionAnswered
CHECK_DEADLOCK FALSE
