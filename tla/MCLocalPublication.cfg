CONSTANTS
  Ids = {g1}
  PowerFails = TRUE
SPECIFICATION Spec
CHECK_DEADLOCK FALSE
INVARIANTS
  CertifiedIsWhole
  ReturnedStaysVisible
  SecretsStayPrivate
