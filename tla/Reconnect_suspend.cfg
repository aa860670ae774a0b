SPECIFICATION Spec
CONSTANTS
  Leavers = {"display"}
  GivesUp = TRUE
INVARIANTS
  ClosedBeforeSuspension
