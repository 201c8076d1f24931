CONSTANTS
  clear = clear
  blank = blank
  wall = wall
  Images = {m1, m2}
  Views = {clear, blank, wall}
  Walls = {wall}
  Clear = clear
  Blank = blank
  Readings <- Glances
  Profiles = {p1}
  Credits = {"read back"}
  HasImport = TRUE
  MaxSessions = 1
  MaxCaptures = 1
  World <- Rough
  Signals = {}
  NoSignal = NoSignal
SPECIFICATION FairSpec
CHECK_DEADLOCK FALSE
PROPERTIES
  AdviceConverges
