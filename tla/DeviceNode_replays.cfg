SPECIFICATION Spec
CONSTANTS
  editor = editor
  notes = notes
  Tasks <- MCTasks
  Lifetime = 1
  MaxTime = 1
  MaxEnvelopes = 3
  MaxDeliveries = 2
  MaxRestarts = 1
SYMMETRY Symmetric
CHECK_DEADLOCK FALSE
INVARIANTS
  DeviceInv
  AdmittedOnce
  UndoneStaysGone
  UndoCanReach
  NothingOutOfReach
PROPERTIES
  TerminatedByUndo
