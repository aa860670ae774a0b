SPECIFICATION Spec
CONSTANTS
  Leavers = {"controller", "display"}
  GivesUp = TRUE
INVARIANTS
  NoDrawingAway
  NoFrozenPlay
  CancelTakesHold
PROPERTIES
  Reunites
  Releases
