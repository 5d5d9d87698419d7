SPECIFICATION Spec
CONSTANTS
  MaxRun = 3
  MaxEpoch = 3
  MaxSequence = 2
  MaxClock = 2
  Commands = {c1}
  MaxExchange = 3
  Plans = {p1, p2}
  MaxSession = 2
  MaxVersion = 2
  MaxSample = 3
  Classes = {k1, k2}
  Admins = {a1}
  Devices = {d1}
  Requests = {r1, r2, r3}
  Images = {i1}
  MaxRevision = 3
  MaxMove = 1
  Kept = 2
  Null = Null
  c1 = c1
  p1 = p1
  p2 = p2
  k1 = k1
  k2 = k2
  a1 = a1
  d1 = d1
  r1 = r1
  r2 = r2
  r3 = r3
  i1 = i1
CHECK_DEADLOCK FALSE
INVARIANTS CommandForItsHost PlanOutcomeIsTrue OneLiveGrant ReplacesWhatWasSeen
PROPERTIES NewestRunStands SeenMeansNewer ActualResultStays LedgerSpec
