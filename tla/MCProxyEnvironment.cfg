CONSTANTS
  l1 = l1
  l2 = l2
  r1 = r1
  e1 = e1
  e2 = e2
  Lists = {l1, l2}
  Every = Every
  NoEdit = NoEdit
  ListOf <- MCListOf
  Rules = {r1}
  Edits = {e1, e2}
  MaxExperiments = 3
  Deadlines = FALSE
SPECIFICATION Spec
INVARIANTS
  PhaseRunsWhatItProves
  NoProxyOutlivesRun
  CompletedCleanupRestores
PROPERTY
  EvidenceSparesPhase
CHECK_DEADLOCK FALSE
