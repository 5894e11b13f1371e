SPECIFICATION Spec
CONSTANTS
  Nil = Nil
  root = root
  alice = alice
  g = g
  rl = rl
  bb = bb
  b = b
  local = local
  sso = sso
  dir = dir
  t1 = t1
  t2 = t2
  s1 = s1
  eg = eg
  Users = {root, alice}
  Groups = {g}
  Roles = {rl}
  RoleBindings = {bb, b}
  Providers = {local, sso, dir}
  Tenants = {t1, t2}
  Subjects = {s1}
  ExternalGroups = {eg}
  Owners <- MCOwners
  Bootstrap = root
  LocalProvider = local
  BootBinding = bb
  Initial <- MCInitial
  Requests <- MCRequests
  Browsers = {1, 2}
  h1 = h1
  h2 = h2
  Handlers = {h1, h2}
  BearerTokens <- MCBearerTokens
INVARIANTS
  
  
  
  CredentialsExist
  RotationPickedUp
  BrowserOwnsSession
SYMMETRY Symmetry
CHECK_DEADLOCK FALSE
