SPECIFICATION Spec
CONSTANTS
    License = {l1, l2}
    Activation = {a1, a2}
    Machine = {m1, m2}
    Key = {k1, k2}
    Worker = {w1, w2}
    Limit = {1, 2}
    MaxTime = 1
    Null = Null
SYMMETRY MCSymmetry
CHECK_DEADLOCK FALSE
INVARIANTS
    TypeOK
    ActivationCountExact
    MachineActivatedOnce
    TokensVerify
PROPERTY
    ActivationWithinLicense
