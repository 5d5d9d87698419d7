SPECIFICATION TermSpec
CONSTANTS
  Terms = {t1, t2, t3}
  Screens = {s1}
  Managers = {m1, m2}
  Null = Null
  t1 = t1
  t2 = t2
  t3 = t3
  s1 = s1
  m1 = m1
  m2 = m2
CHECK_DEADLOCK FALSE
INVARIANTS OneActiveTerm
