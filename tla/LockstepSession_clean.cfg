SPECIFICATION Spec
CONSTANTS
  Window = 2
  Interval <- EveryThreeFrames
  Limit <- FourFrames
  Games = {g1}
  Inputs = {a, b}
  Capacity = 1
  Faulty = {}
  Leavers = {}
  LinkMayFail = FALSE
  GivesUp = FALSE
INVARIANTS
  NoFalseAlarm
PROPERTIES
  Completes
