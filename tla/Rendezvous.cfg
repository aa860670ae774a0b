SPECIFICATION Spec
CONSTANTS
  Links = {l1, l2, l3}
INVARIANTS
  TypeOK
  OnlyTimeoutsOrphan
  LateAnswersAreIgnored
PROPERTIES
  Reunites
CHECK_DEADLOCK FALSE
