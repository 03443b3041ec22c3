SPECIFICATION Spec
CONSTANTS
    Parties = {p1, p2}
    Admins = {}
    Disputes = {d1}
    MaxTx = 2
    None = None
SYMMETRY PageSymmetry
INVARIANT RetryIsSafe
CHECK_DEADLOCK FALSE
