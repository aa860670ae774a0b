SPECIFICATION Spec
CONSTANTS
  Window = 2
  Interval <- EveryThreeFrames
  Limit <- FourFrames
  Games = {g1}
  Inputs = {a}
  Capacity = 2
  Faulty = {}
  Leavers = {"display"}
  LinkMayFail = FALSE
  GivesUp = FALSE
INVARIANTS
  AcknowledgedFramesRan
