CONSTANTS
  Experiments = {c1}
  Candidates = {r1}
  Artifacts = {}
  NoToken = NoToken
  NoCall = NoCall
  NoCandidate = NoCandidate
  MaxPhases = 6
  MaxParallel = 1
  GraceMayExpire = TRUE
  MaxSurvivors = 1
  Reviewed = c1
  TileBatches = 1
  MaxRetries = 1
  MaxObservations = 1
  MaxReconciled = 1
  Limit = 2
  NoRequest = NoRequest
  Requests <- ReviewRequests
SPECIFICATION ReviewedSpec
INVARIANTS
  ObservesOwnLiveSession
  SlotsAreCounted
  AcceptedWasSeen
PROPERTIES
  RunEnds
  ReviewSettles
