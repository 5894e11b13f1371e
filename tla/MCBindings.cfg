SPECIFICATION Spec
CONSTANTS
  MaxRotations = 1
  MaxEdits = 2
  MaxFaults = 1
  None = None
INVARIANT WiredHasCredentials
PROPERTIES  BindingCatchesUp
CHECK_DEADLOCK FALSE
