SPECIFICATION Spec
CONSTANTS
  Pages = {p1}
  Freelancers = {f1}
  MaxMilestones = 1
  MaxEscrows = 1
  None = None
CHECK_DEADLOCK FALSE
INVARIANT HeldWorkMovesOn
