SPECIFICATION Spec
CONSTANTS
    Connections = {c1, c2, c3}
    NoCon = NoCon
    Sweeps = {k1, k2, k3}
    Limit = 1
SYMMETRY Symmetry
INVARIANTS
    ListedOrClosed
    NobodySkipped
CHECK_DEADLOCK FALSE
