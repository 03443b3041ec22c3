SPECIFICATION FairSpec
CONSTANTS
    owner = owner
    admin = admin
    op1 = op1
    op2 = op2
    Owner <- owner
    External = External
    Unrecorded = {"submitted"}
    None = None
    OtherAdmin <- MCOtherAdmin
    Ops = {op1}
    Shares = {5000}
    MaxRequests = 1
INVARIANTS
    PendingAttemptIsUniqueAndAssigned
PROPERTIES
    AttemptsAreHistory
    SettlementIsRecorded
CONSTRAINT OneThingAtATime
CHECK_DEADLOCK FALSE
