SPECIFICATION Spec
CONSTANTS
  Logins = {s1, s2}
  Workers = {w1, w2}
  MaxPin = 3
  MaxVersion = 3
  Browsers = {b1, b2}
  Attempts = {a1, a2}
  MaxFailures = 3
  MaxToken = 3
  MaxScreenVersion = 3
  Sockets = {k1}
  Credentials = {c1, c2}
  Rooms = {m1, m2}
  Broadcasts = {e1}
  MaxCounter = 2
  Null = Null
  s1 = s1
  s2 = s2
  w1 = w1
  w2 = w2
  b1 = b1
  b2 = b2
  a1 = a1
  a2 = a2
  k1 = k1
  c1 = c1
  c2 = c2
  m1 = m1
  m2 = m2
  e1 = e1
  j1 = j1
  j2 = j2
  j3 = j3
CHECK_DEADLOCK FALSE
INVARIANTS DeadStaysOut ReplacedPinOpensNothing EveryMissCounts TokenIsTheHolders LeaveStands
PROPERTIES EventForItsReader EveryJobAnswered
