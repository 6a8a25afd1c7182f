SPECIFICATION FairSpec
CONSTANTS
  s1 = s1
  Session = {s1}
  MaxFaults = 1
  MaxDecisions = 1
  Nothing = none
INVARIANTS IInv
PROPERTIES AcceptIsDurable StrandedRecovers SavingEnds
CHECK_DEADLOCK FALSE
