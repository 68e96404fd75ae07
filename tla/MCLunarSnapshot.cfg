SPECIFICATION FairSpec
CONSTANTS
    c1 = c1
    c2 = c2
    p = p
    q = q
    r = r
    a = a
    b = b
    None = None
    Callers = {c1, c2}
    Pools = {p, q, r}
    Forks = {a, b}
    Chains <- MCChains
    Owners <- MCOwners
    Calls <- MCCalls
    MaxHeight = 2
    Capacity = 1
INVARIANTS TypeOK SnapshotIsPure ReuseIsRevalidated CacheBounded
PROPERTIES NeverBackwards CatchesUp
CHECK_DEADLOCK FALSE
