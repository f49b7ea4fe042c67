SPECIFICATION Spec
CONSTANTS
    Keys = {k1, k2, k3}
    Operators = {o1, o2}
    NoKey = NoKey
SYMMETRY Symmetry
INVARIANTS RevokedStaysRejected NoStrayKey CurrentVerifies
CHECK_DEADLOCK FALSE
