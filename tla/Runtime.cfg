SPECIFICATION MixedSpec
CONSTANTS
  Operations = {o1, o2}
  Requests = {r1, r2, r3}
  Admins = {a1}
  Targets = {"EXAM", "DAILY"}
  Environment = {"restart", "policy", "authority", "age", "expire", "session"}
  MaxRun = 2
  MaxSession = 2
  MaxPolicy = 2
  MaxEvents = 2
  MaxAliases = 1
  Null = Null
  a1 = a1
  a2 = a2
  o1 = o1
  o2 = o2
  r1 = r1
  r2 = r2
  r3 = r3
CHECK_DEADLOCK FALSE
INVARIANTS OneOperationAtATime OutcomeIsEvidence RequestRunsOnce
PROPERTIES ResultsStay QueueMovesOn
