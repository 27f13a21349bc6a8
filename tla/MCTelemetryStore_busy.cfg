SPECIFICATION Spec
CONSTANTS
    Openers = {p1, p2}
INVARIANT ContentionIsWaitedOut
SYMMETRY OpenerSymmetry
CHECK_DEADLOCK FALSE
