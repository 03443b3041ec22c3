SPECIFICATION FairSpec
CONSTANTS
    None = None
    MaxOps = 2
    Pages = {p1}
    Requests = {r1, r2}
    MaxTxs = 2
    MaxLate = 1
CONSTRAINT OneTrouble
INVARIANTS
    AccessIsBacked
PROPERTY SubmittedIsSettled
CHECK_DEADLOCK FALSE
