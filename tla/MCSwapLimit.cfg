SPECIFICATION FairSpec
CONSTANTS
    Objects = {o1, o2}
    Original = o1
    a = a
    b = b
    Keys = {a, b}
    Threads = {t1, t2}
    Calls <- Mixed
    Amounts = {2}
    StartCells = 1
    MaxTrades = 3
    Kinds = {"inventory", "swapped"}
    None = None
INVARIANTS TypeOK NoOverdraw EveryTradeCounted SwappedCoversTrades
PROPERTIES BalancesIsolated UpdateReturns
CHECK_DEADLOCK FALSE
