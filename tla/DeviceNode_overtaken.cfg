SPECIFICATION Spec
CONSTANTS
  editor = editor
  notes = notes
  Tasks <- MCTasks
  Lifetime = 1
  MaxTime = 1
  MaxEnvelopes = 2
  MaxDeliveries = 2
  MaxRestarts = 0
SYMMETRY Symmetric
CHECK_DEADLOCK FALSE
INVARIANTS
  ReplaysRejected
