CONSTANTS
  clear = clear
  blank = blank
  wall = wall
  Images = {m1}
  Views = {clear, blank, wall}
  Walls = {wall}
  Clear = clear
  Blank = blank
  Readings <- Sightings
  Profiles = {p1, p2}
  Credits = {"read back"}
  HasImport = TRUE
  MaxSessions = 2
  MaxCaptures = 2
  World <- Smooth
  Signals = {}
  NoSignal = NoSignal
SPECIFICATION UnadvisedSpec
SYMMETRY Symmetric
CHECK_DEADLOCK FALSE
INVARIANTS
  AcceptedClaimIsCarried
PROPERTIES
  AcceptanceIsStable
