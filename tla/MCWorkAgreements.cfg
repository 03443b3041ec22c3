SPECIFICATION Spec
CONSTANTS
    a1 = a1
    a2 = a2
    t1 = t1
    t2 = t2
    f1 = f1
    f2 = f2
    Agreements = {a1, a2}
    Texts = {t1, t2}
    Freelancers = {f1, f2}
    None = None
    MaxVersion = 2
SYMMETRY MCSymmetry
INVARIANTS
    OneActiveAgreement
    CommittedToTheSelected
    AcceptedCopiesAgree
PROPERTIES
    KeepsTheDeal
    ProofUnderOwnAgreement
CHECK_DEADLOCK FALSE
