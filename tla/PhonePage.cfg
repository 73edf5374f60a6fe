SPECIFICATION FairSpec
CONSTANTS
  Actions = {1, 2}
  Sessions = {"mine", "other"}
  Owner <- MCOwner
  MaxDevices = 2
  MaxCalls = 2
  MaxReloads = 1
CHECK_DEADLOCK FALSE
INVARIANTS
  PageInv
PROPERTIES
  LiveCardStays
  PairingKept
  PageCatchesUp
