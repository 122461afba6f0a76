\* A result asked for in one browser is posted in another.
SPECIFICATION OriginsSpec
CONSTANTS
  None = None
  User = {u1}
  Email = {e1}
  Person = {p1}
  Verification = {v1}
  Browser = {b1, b2}
  Request = {r1}
  MaxStamp = 0
CHECK_DEADLOCK FALSE
INVARIANTS
  WalletSessionIsOfItsForm
