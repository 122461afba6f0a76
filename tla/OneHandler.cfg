\* One request at a time: two accounts, whose addresses change, retries, restarts,
\* fair scheduling (no symmetry: liveness).
SPECIFICATION FairSpec
CONSTANTS
  None = None
  User = {u1, u2}
  Email = {e1, e2}
  Person = {p1}
  Verification = {v1}
  Browser = {b1}
  Request = {r1}
  MaxStamp = 1
CHECK_DEADLOCK FALSE
INVARIANTS
  TypeOK
  OneRowPerPerson
PROPERTIES
  RequestIsAnswered
  ImplementsExclusiveRegistry
  ImplementsSessions
