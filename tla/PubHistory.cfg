SPECIFICATION MixedSpec
CONSTANTS
  Ids = {p1, p2}
  Handlers = {h1, h2}
  Accounts = {t1}
  Screens = {s1}
  Workspaces = {w1, w2}
  Bodies = {b1, b2}
  Reasons = {}
  Keys = {k1}
  Types = {"ASSIGNMENT", "NOTICE"}
  Operations = {"create", "screenCreate", "restore", "certify", "screenUpdate", "screenRestore", "setWorkspace", "purge"}
  Statuses = {"PUBLISHED"}
  Patches = {{"body"}, {"body", "targets"}}
  Scope <- MCScope
  ScreenWorkspaces <- MCScreenWorkspaces
  MaxRevision = 3
  MaxCredential = 1
  Erased = Erased
  Null = Null
  p1 = p1
  p2 = p2
  h1 = h1
  h2 = h2
  t1 = t1
  t2 = t2
  s1 = s1
  w1 = w1
  w2 = w2
  b1 = b1
  b2 = b2
  k1 = k1
CHECK_DEADLOCK FALSE
SYMMETRY HandlerSymmetry
INVARIANTS ErasedIsHistory
PROPERTIES LogSpec ScreenNeverCertifies
