SPECIFICATION Spec
CONSTANTS
  s1 = s1
  s2 = s2
  u1 = u1
  u2 = u2
  w1 = w1
  w2 = w2
  t1 = t1
  None = None
  Sessions = {s1}
  Users = {u1, u2}
  Workers = {w1, w2}
  Tables = {t1}
  Members <- MCMembers
  StaleInit = {FALSE, TRUE}
  MaxLogins = 2
  MaxRows = 2
PROPERTY OnlyRacesLose
PROPERTY ForgetsByBox
CHECK_DEADLOCK FALSE
