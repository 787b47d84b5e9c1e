SPECIFICATION Spec
CONSTANTS
  u1 = u1
  u2 = u2
  hello = hello
  Default = Default
  Users = {u1, u2}
  Nobody = Nobody
  Texts = {hello}
  Workers = {w1}
  Old <- MCOld
  MaxCont = 1
  MaxInserts = 2
INVARIANT TextArrives
