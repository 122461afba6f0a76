\* Two accounts whose addresses change under a registration or a login.
SPECIFICATION Spec
CONSTANTS
  None = None
  User = {u1, u2}
  Email = {e1, e2}
  Person = {p1}
  Verification = {v1}
  Browser = {b1}
  Request = {r1, r2}
  MaxStamp = 1
CHECK_DEADLOCK FALSE
SYMMETRY IdSymmetry
INVARIANTS
  IdentifiedSessionIsLinked
PROPERTIES
  RowGoesToPoster
  FirstLinkIsFresh
