SPECIFICATION Spec
CONSTANTS
    Objects = {o1}
    Original = o1
    a = a
    b = b
    Keys = {a, b}
    Threads = {t1, t2}
    Calls <- Small
    Amounts = {2}
    StartCells = 1
    MaxTrades = 2
    Kinds = {"allowed"}
    None = None
INVARIANT EveryTradeCounted
CHECK_DEADLOCK FALSE
