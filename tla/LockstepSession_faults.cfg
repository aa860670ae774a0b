SPECIFICATION Spec
CONSTANTS
  Window = 2
  Interval <- EveryThreeFrames
  Limit <- FourFrames
  Games = {g1, g2}
  Inputs = {a}
  Capacity = 2
  Faulty = {"controller", "display"}
  Leavers = {"display"}
  LinkMayFail = TRUE
  GivesUp = TRUE
INVARIANTS
  TypeOK
  LeadBounded
  InSequence
  StartsVerified
  VerdictIsTrue
PROPERTIES
  CheckpointBarrier
  Implements
  WorkRunsOut
