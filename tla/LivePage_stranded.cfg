SPECIFICATION BusySpec
CONSTANTS
  s1 = s1
  Session = {s1}
  MaxFaults = 1
  MaxDecisions = 0
  Nothing = none
PROPERTIES NeverStranded
CHECK_DEADLOCK FALSE
