SPECIFICATION Spec
CONSTANTS
    Parties = {p1}
    Admins = {a1}
    Disputes = {d1, d2}
    MaxTx = 2
    None = None
SYMMETRY PageSymmetry
INVARIANTS
    MarkIsProven
    RetryIsSafeAlone
PROPERTY
    MarkIsFinal
CHECK_DEADLOCK FALSE
