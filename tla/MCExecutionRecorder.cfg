CONSTANTS
  Experiments = {e1, e2}
  Artifacts = {a1}
  NoToken = NoToken
  MaxPhases = 4
SPECIFICATION RecorderSpec
SYMMETRY Symmetric
INVARIANTS
  OwnersWereObserved
  PublishedIsSettled
PROPERTY
  EvidenceIsFinal
CHECK_DEADLOCK FALSE
