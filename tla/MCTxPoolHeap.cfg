SPECIFICATION Spec
CHECK_DEADLOCK FALSE
CONSTANTS
    g = g
    a1 = a1
    a2 = a2
    b1 = b1
INVARIANT
    PricedCount
