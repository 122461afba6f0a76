\* The button under fair scheduling, pressed twice.
SPECIFICATION FairSpec
CONSTANTS
  None = None
  Account = {a}
  Credential = {c1}
  LoginPage = {login}
  PasskeysPage = {manage}
  Flow = {f1, f2}
  MaxPresses = 2
  Request = {}
  Byte = {251, 255}
  MaxBytes = 3
INVARIANT PostedJsonIsNative
PROPERTY PressIsAnswered
