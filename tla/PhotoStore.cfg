SPECIFICATION FairSpec
CONSTANTS
  Events = {e1}
  Contents = {x1, x2}
  Near <- MCNear
  Quota = 1
  Handlers = {h1, h2}
  Null = Null
  e1 = e1
  e2 = e2
  x1 = x1
  x2 = x2
  h1 = h1
  h2 = h2
CHECK_DEADLOCK FALSE
INVARIANTS BytesAreOwned DeletionStands
PROPERTIES BytesGo
