\* Two pages of one account at once: two keys, two sets of two codes.
SPECIFICATION Spec
CONSTANTS
  None = None
  Browser = {b1}
  Request = {r1, r2}
  Key = {k1, k2}
  Code = {c1, c2, c3, c4}
  CodesPerSet = 2
SYMMETRY TwoFactorSymmetry
INVARIANTS
  TypeOK
  TwoFactorKeyIsProven
PROPERTIES
  RetiredCodesAreDead
  CodesNeedTwoFactor
  ImplementsSecondFactor
