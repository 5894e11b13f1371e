SPECIFICATION Spec
CONSTANTS
  n1 = n1
  n2 = n2
  Names = {n1, n2}
  Specs <- MCSpecs
  Requests <- MCRequests
  Limits <- MCLimits
  Rules <- MCRules
  Starts <- MCStarts
  MaxReplicas = 3
  MaxEdits = 2
  None = None
INVARIANTS AdmittedWasOffered
PROPERTIES AdmittedWithinQuota CatalogConverges
CHECK_DEADLOCK FALSE
