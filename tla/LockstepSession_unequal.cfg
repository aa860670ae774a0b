SPECIFICATION Spec
CONSTANTS
  Window = 2
  Interval <- EveryThreeFrames
  Limit <- OnlyControllerStops
  Games = {g1}
  Inputs = {a, b}
  Capacity = 1
  Faulty = {}
  Leavers = {}
  LinkMayFail = FALSE
  GivesUp = FALSE
PROPERTIES
  DisagreementIsReported
