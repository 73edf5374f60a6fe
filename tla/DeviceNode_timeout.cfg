SPECIFICATION Spec
CONSTANTS
  editor = editor
  notes = notes
  Tasks <- MCTasks
  Lifetime = 1
  MaxTime = 1
  MaxEnvelopes = 1
  MaxDeliveries = 1
  MaxRestarts = 0
SYMMETRY Symmetric
CHECK_DEADLOCK FALSE
INVARIANTS
  FailedClosed
