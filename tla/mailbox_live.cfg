SPECIFICATION FairSpec
CONSTANTS
  s1 = s1
  s2 = s2
  u1 = u1
  u2 = u2
  w1 = w1
  w2 = w2
  t1 = t1
  None = None
  Sessions = {s1, s2}
  Users = {u1, u2}
  Workers = {w1, w2}
  Tables = {t1}
  Members <- MCMembers
  StaleInit = {FALSE}
  MaxLogins = 1
  MaxRows = 1
 
INVARIANT OneMailbox
PROPERTY RaisedIsPolled
CHECK_DEADLOCK FALSE
