SPECIFICATION MixedSpec
CONSTANTS
  Screens = {b1}
  Classes = {c1, c2}
  Admins = {a1}
  Requests = {r1, r2}
  Tickets = {t1, t2}
  Devices = {d1, d2}
  Handlers = {h1, h2}
  Sources = {"ADMIN", "CLASS_APPLY", "SCREEN", "CLASS_PASSWORD"}
  Changes = {"access", "password", "authority", "cancel", "revoke", "lapseCode", "screen", "class", "lapse", "deployment"}
  HomeClass = c1
  MaxRevision = 3
  MaxEpoch = 2
  Null = Null
  a1 = a1
  a2 = a2
  b1 = b1
  b2 = b2
  c1 = c1
  c2 = c2
  r1 = r1
  r2 = r2
  t1 = t1
  t2 = t2
  d1 = d1
  d2 = d2
  h1 = h1
  h2 = h2
CHECK_DEADLOCK FALSE
SYMMETRY PairingSymmetry
INVARIANTS OneDevicePerScreen CodeAdmitsOnce DeviceFollowsScreen
PROPERTIES AdmissionStands ShutOutForGood
