CONSTANTS
  Candidates = {k1, k2, k3}
  Plans = {none, hover}
  NoCandidate = NoCandidate
  NoPlan = NoPlan
  Calls = {c1, c2}
  MaxCandidates = 2
  MaxExecutions = 2
  MaxAbsent = 2
  MaxSessions = 2
  MaxExperiments = 3
  MaxParallel = 1
SPECIFICATION Spec
SYMMETRY Symmetric
CHECK_DEADLOCK FALSE
INVARIANTS
  NumbersAreRanks
  ExecutionsAreBounded
PROPERTIES
  BootstrapIsNoLimit
