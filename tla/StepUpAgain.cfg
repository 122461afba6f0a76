\* A session is refreshed before a step-up.
SPECIFICATION Spec
CONSTANTS
  None = None
  User = {u1}
  Browser = {b1}
  Flow = {f1}
  MaxAccountPages = 1
INVARIANTS
  StepUpIsEnough
