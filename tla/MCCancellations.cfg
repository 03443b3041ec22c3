SPECIFICATION CancelSpec
CONSTANTS
    p1 = p1
    p2 = p2
    Pages = {p1,p2}
    MaxRequests = 1
    None = None
SYMMETRY PageSymmetry
INVARIANTS
    NeverOverRefusal
    ConfirmedIsCancelled
CHECK_DEADLOCK FALSE
