CONSTANTS
  Handlers = {h1, h2}
  CreateRequests <- MCCreateRequests
  DeleteRequests <- MCDeleteRequests
  Projects = {p1, p2}
  Tenants = {acme}
  TenantOf <- MCTenantOf
  Instances <- MCInstances
  MaxRequests = 4
  MaxFaults = 1
  None = None
  p1 = p1
  p2 = p2
  acme = acme
  web = web
  app = app
  shared = shared
  git = git
  c1 = c1
  c2 = c2
SPECIFICATION Spec
SYMMETRY HandlerSymmetry
CHECK_DEADLOCK FALSE
INVARIANTS AcknowledgedIsStored
PROPERTY InUseIsKept
