SPECIFICATION MixedSpec
CONSTANTS
  Ids = {p1, p2}
  Handlers = {h1, h2}
  Accounts = {t1}
  Screens = {s1}
  Workspaces = {w1, w2}
  Bodies = {b1}
  Reasons = {c1}
  Keys = {k1}
  Types = {"ASSIGNMENT"}
  Operations = {"create", "clone", "update", "restore", "withdraw", "screenCreate", "screenUpdate", "screenRestore", "rotateScreen", "setScreenActive"}
  Statuses = {"PUBLISHED", "DRAFT"}
  Patches = {{"status"}, {"targets"}, {"body", "targets"}}
  Scope <- MCPartScope
  ScreenWorkspaces <- MCScreenWorkspaces
  MaxRevision = 3
  MaxCredential = 2
  Erased = Erased
  Null = Null
  p1 = p1
  p2 = p2
  h1 = h1
  h2 = h2
  t1 = t1
  t2 = t2
  s1 = s1
  w1 = w1
  w2 = w2
  b1 = b1
  b2 = b2
  k1 = k1
  c1 = c1
CHECK_DEADLOCK FALSE
SYMMETRY HandlerSymmetry
INVARIANTS HeadSnapshotAgrees CertifiedInScope OnePublicationPerRequest
PROPERTIES PatchKeepsOtherFields WithdrawnUntilRestored RevokedScreenIsSilent
