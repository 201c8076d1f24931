CONSTANTS
  Launches = {l1, l2, l3}
  Pages = {p1}
  Targets = {t1, t2}
  Reported = {t1}
  Environments = {e1, e2}
  Signals = {sigtrap, sigabrt}
  NoSignal = NoSignal
  NoSession = NoSession
  NoTarget = NoTarget
  MaxParallel = 1
  MaxOverdue = 1
SPECIFICATION Spec
SYMMETRY Symmetric
INVARIANTS
  NoBrowserOutlivesRun
PROPERTIES
  ExhaustionIsFinal
  LateLaunchIsSilent
