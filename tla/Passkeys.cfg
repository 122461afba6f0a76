\* A login tab and a tab with the Passkeys page, two accounts in one browser.
SPECIFICATION Spec
CONSTANTS
  None = None
  Account = {a, b}
  Credential = {c1}
  LoginPage = {login}
  PasskeysPage = {manage}
  Flow = {f1, f2}
  MaxPresses = 1
  Request = {r}
  Byte = {62, 251, 255}
  MaxBytes = 1
SYMMETRY PasskeySymmetry
INVARIANTS
  TypeOK
  CredentialMeetsCeremony
  PasskeyIsForItsOwner
PROPERTIES
  DenialNeedsUser
