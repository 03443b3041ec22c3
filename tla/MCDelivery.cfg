SPECIFICATION Spec
CONSTANTS
    Pages = {p1, p2}
    MaxSubmissions = 2
    MaxRequests = 2
    Limits = {1}
    None = None
SYMMETRY PageSymmetry
CONSTRAINT OneTrouble
INVARIANTS
    OnlyAcceptedIsAnchored
    AnchoredIsOnChain
    AnchoringIsExclusive
    RevisionsWithinQuota
CHECK_DEADLOCK FALSE
