SPECIFICATION Spec
CONSTANTS
    None = None
    o1 = o1
    o2 = o2
    o3 = o3
    o4 = o4
    m1 = m1
    m2 = m2
    a = a
    b = b
    c = c
    s1 = s1
    s2 = s2
    Orders = {o1, o2, o3, o4}
    Makers = {m1, m2}
    Assets = {a, b, c}
    Ranking <- MCRanking
    Books <- MCBooks
    Worlds = {w1, w2}
    Original = w1
    Accounts = {s1, s2}
    Senders = {s1}
    AmountsIn = {1, 2, 4}
    AmountsOut = {1, 2, 4}
    BasisPoint = 2
    MaxSwaps = 2
INVARIANT ExactOutDelivered
CHECK_DEADLOCK FALSE
