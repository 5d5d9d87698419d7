SPECIFICATION Spec
CONSTANTS
  Ids = {p1, p2}
  Handlers = {h1, h2}
  Accounts = {t1, t2}
  Screens = {s1}
  Workspaces = {w1, w2}
  Bodies = {b1}
  Reasons = {}
  Keys = {}
  Types = {"ASSIGNMENT"}
  Operations = {"create", "certify", "screenUpdate"}
  Statuses = {"PUBLISHED"}
  Patches = {{"body", "targets"}}
  Scope <- MCScope
  ScreenWorkspaces <- MCScreenWorkspaces
  MaxRevision = 2
  MaxCredential = 1
  Erased = Erased
  Null = Null
  p1 = p1
  p2 = p2
  h1 = h1
  h2 = h2
  t1 = t1
  t2 = t2
  s1 = s1
  w1 = w1
  w2 = w2
  b1 = b1
  b2 = b2
  k1 = k1
CHECK_DEADLOCK FALSE
SYMMETRY RowSymmetry
INVARIANTS HeadCertificationAgrees
