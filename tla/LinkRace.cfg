\* Two posts of one verification at once.
SPECIFICATION Spec
CONSTANTS
  None = None
  User = {u1}
  Email = {e1}
  Person = {p1}
  Verification = {v1}
  Browser = {b1}
  Request = {r1, r2}
  MaxStamp = 0
CHECK_DEADLOCK FALSE
SYMMETRY IdSymmetry
INVARIANTS
  OneRowPerPerson
