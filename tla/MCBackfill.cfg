SPECIFICATION FairSpec
CONSTANTS
    StartBlock = 1
    MaxBlockRangePerScan = 2
    Modulus = 16
    MaxBlock = 4
    MaxCrashes = 2
    None = None
INVARIANTS TypeOK CursorBehindStore DoneIsCaughtUp OnlyPoolsStored
PROPERTIES ImplementsDiscovery CursorNeverRewinds EventuallyStops
CHECK_DEADLOCK FALSE
