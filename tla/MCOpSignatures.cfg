SPECIFICATION Spec
CONSTANTS
    None = None
    Callers = {c1, c2}
    Orders = {o1, o2}
    TTL = 1
    Margin = 1
    MaxCached = 0
    MinValid = 2
    Validity = 5
    HeldExpiries = {0, 3}
    Timeout = 2
    MaxTime = 3
SYMMETRY Symmetry
INVARIANTS TypeOK ValidOnReturn StalenessBounded MissingIsReal
PROPERTIES ExpiredBounded
CHECK_DEADLOCK FALSE
