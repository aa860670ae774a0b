SPECIFICATION Spec
CONSTANTS
  Window = 2
  Interval <- EveryThreeFrames
  Limit <- ThreeFrames
  Games = {g1, g2}
  Inputs = {a}
  Capacity = 1
  Faulty = {}
  Leavers = {"controller", "display"}
  LinkMayFail = TRUE
  GivesUp = FALSE
INVARIANTS
  NeverStuck
PROPERTIES
  EndsTogether
