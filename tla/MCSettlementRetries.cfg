SPECIFICATION Spec
CONSTANTS
    owner = owner
    admin = admin
    op1 = op1
    op2 = op2
    Owner <- owner
    External = External
    Unrecorded = {"submitted", "disputed"}
    None = None
    OtherAdmin = {}
    Ops <- MCOps
    Shares = {0, 5000}
    MaxRequests = 2
SYMMETRY MCSymmetry
INVARIANTS
    RecordsFollowTheChain
    NothingUnrecordedIsSubmitted
    FailedAttemptsAreDead
CONSTRAINT OneThingAtATime
CHECK_DEADLOCK FALSE
