SPECIFICATION Spec
SYMMETRY TabSymmetry
CONSTRAINT OneTrouble
CONSTANTS
    c1 = c1
    c2 = c2
    f1 = f1
    a1 = a1
    ClientTabs = {c1, c2}
    FreelancerTabs = {f1}
    AdminTabs = {a1}
    EscrowIds = {1, 2}
    None = None
    MaxLate = 1
INVARIANTS
    MirrorNeverAhead
    JobFollowsEscrow
    OneEscrowPerJob
    ReviewedOnceAndEarned
PROPERTIES
    SyncNeverSetsBack
    SyncRepairs
