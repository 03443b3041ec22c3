SPECIFICATION Spec
CONSTANTS
    w1 = w1
    w2 = w2
    w3 = w3
    escrowContract = escrowContract
    xlm = xlm
    usdc = usdc
    NoAddress = NoAddress
    Account <- MCAccount
    Address <- MCAddress
    EscrowAddress <- escrowContract
    Asset <- MCAsset
    Amounts <- MCAmounts
    Ratings <- MCRatings
    Shares <- MCShares
    Claims <- MCClaims
    MaxEscrows = 2
    CounterMax = 9
    EarnedMax = 40006
    InitialBalance = 30000
CONSTRAINT OneThingAtATime
SYMMETRY MCSymmetry
INVARIANTS
    
    
    ResolutionIsFairAndComplete
    StatsMatchCompletions
    AllowlistCountIsExact
    HeldFundsHaveAnExit
PROPERTIES
    Lifecycle
    RecordsArePermanent
CHECK_DEADLOCK FALSE
