SPECIFICATION FairSpec
CONSTANTS
  p1 = p1
  p2 = p2
  d1 = d1
  Actions <- Mixed
  PhoneTasks <- OnePhone
  MaxCalls = 2
  MaxFailures = 1
CHECK_DEADLOCK FALSE
INVARIANTS
  ConsoleInv
  DecidesWhatItShows
  ReceiptNotOlder
PROPERTIES
  OutcomeShown
