\* Two accounts that use one browser in turn (no symmetry: liveness).
SPECIFICATION FairSpec
CONSTANTS
  None = None
  User = {u1, u2}
  Browser = {b1}
  Flow = {f1}
  MaxAccountPages = 1
INVARIANTS
  TypeOK
  ForecastIsEarned
  StepUpIsHonoured
  TokenVectorsAgree
  
PROPERTIES
  PasskeyEndsStepUp
