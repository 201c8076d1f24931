CONSTANTS
  Walls = {w1, w2}
  NoWall = NoWall
  MaxRejections = 2
  TotalMultiple = 2
  MaxTurns = 4
  MaxBatch = 2
SPECIFICATION FairSpec
INVARIANTS
  SettlementSeals
  StreakIsReal
  SlotBelongsToCall
PROPERTIES
  StoppedRunRequestsNothing
  RunSeals
