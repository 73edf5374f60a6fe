SPECIFICATION Spec
CONSTANTS
  Tasks <- MCTasks
  ContentOf <- MCContentOf
  Foreign = "foreign"
  MaxOutside = 1
  MaxWriteFaults = 0
  MaxReadFaults = 0
  MaxCrashes = 0
CHECK_DEADLOCK FALSE
PROPERTIES
  RollbackSparesOthers
