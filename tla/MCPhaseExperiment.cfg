CONSTANTS
  Experiments = {c1, c2}
  Candidates = {r1}
  Artifacts = {}
  NoToken = NoToken
  NoCall = NoCall
  NoCandidate = NoCandidate
  MaxPhases = 6
  MaxParallel = 1
  GraceMayExpire = FALSE
  MaxSurvivors = 3
SPECIFICATION Spec
SYMMETRY Symmetric
INVARIANTS
  RecorderAccepts
  VerifiedIsBacked
  NoSessionOutlivesRun
PROPERTIES
  AbortedExperimentIsSilent
  KeepsPromise
