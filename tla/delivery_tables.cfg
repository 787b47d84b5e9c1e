SPECIFICATION Spec
CONSTANTS
  u1 = u1
  u2 = u2
  None = None
  Default = Default
  Nobody = Nobody
  Sessions = {s1}
  Users = {u1, u2}
  Workers = {w1}
  Texts = {hello}
  Old <- MCOld
  StaleInit = {FALSE}
  MaxLogins = 1
  MaxRows = 2
  MaxCont = 1
  MaxInserts = 2
SYMMETRY MCSymmetry
INVARIANT MessageArrives
CHECK_DEADLOCK FALSE
