SPECIFICATION Spec
CONSTANTS
  app = app
  admin = admin
  AppCreds = {app}
  Admin = admin
  Ops <- MCOps
  Projected = TRUE
  MaxEdits = 2
  MaxFaults = 2
  None = None
PROPERTIES  ConfigCatchesUp
CHECK_DEADLOCK FALSE
