SPECIFICATION Spec
CONSTANTS
    Objects = {o1, o2}
    Original = o1
    a = a
    b = b
    Keys = {a, b}
    Threads = {t1}
    Calls <- Small
    Amounts = {2}
    StartCells = 1
    MaxTrades = 2
    Kinds = {"swapped"}
    None = None
PROPERTY SwappedIsolated
CHECK_DEADLOCK FALSE
