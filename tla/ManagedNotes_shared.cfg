SPECIFICATION Spec
CONSTANTS
  Tasks <- MCPair
  ContentOf <- MCPairContentOf
  Foreign = "foreign"
  MaxOutside = 2
  MaxWriteFaults = 1
  MaxReadFaults = 1
  MaxCrashes = 1
CHECK_DEADLOCK FALSE
INVARIANTS
  NotesInv
  CreatedIsThere
  EndsLeaveNothing
PROPERTIES
  WritesOnlyOwn
  RemovesOnlyOwn
  RollbackSparesFound
