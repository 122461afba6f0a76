\* The button is pressed before the browser has said whether it has autofill.
SPECIFICATION Spec
CONSTANTS
  None = None
  Account = {a}
  Credential = {c1}
  LoginPage = {login}
  PasskeysPage = {}
  Flow = {f1, f2}
  MaxPresses = 1
  Request = {}
  Byte = {62, 251, 255}
  MaxBytes = 1
PROPERTY AbortIsUsers
