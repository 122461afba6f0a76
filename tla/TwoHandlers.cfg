\* Two requests at once for one account: two people, two verifications.
SPECIFICATION Spec
CONSTANTS
  None = None
  User = {u1}
  Email = {e1}
  Person = {p1, p2}
  Verification = {v1, v2}
  Browser = {b1}
  Request = {r1, r2}
  MaxStamp = 0
CHECK_DEADLOCK FALSE
SYMMETRY IdSymmetry
INVARIANTS
  RowsAreProven
PROPERTIES
  WalletSignInIsPresented
  ImplementsRegistry
