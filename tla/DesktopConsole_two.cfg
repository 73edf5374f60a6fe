SPECIFICATION FairSpec
CONSTANTS
  p1 = p1
  p2 = p2
  d1 = d1
  Actions <- TwoPhone
  PhoneTasks <- TwoPhone
  MaxCalls = 2
  MaxFailures = 0
CHECK_DEADLOCK FALSE
PROPERTIES
  OutcomeShown
