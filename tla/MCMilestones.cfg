SPECIFICATION Spec
CONSTANTS
  Pages = {p1, p2}
  Freelancers = {f1, f2}
  MaxMilestones = 2
  MaxEscrows = 2
  None = None
SYMMETRY Symmetry
CONSTRAINT FirstPreviews
CONSTRAINT OneTrouble
CHECK_DEADLOCK FALSE
INVARIANT WorkInOrder
INVARIANT CompletedHoldsNothing
INVARIANT MoneyIsRecorded
PROPERTY OfferIsKept
