SPECIFICATION Spec
CONSTANTS
    Cons = {c1, c2}
    MaxDepth = 3
    MaxRoots = 2
INVARIANTS
    NoLockWhileWaiting
    CipherOrder
CHECK_DEADLOCK FALSE
