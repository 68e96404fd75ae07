SPECIFICATION Spec
CONSTANTS
    None = None
    Ticks = {1, 2, 3}
    Ranges <- MCRanges
    Event <- MCEvent
    MaxHeight = 2
INVARIANTS TypeOK TicksExact RevertHeals BlockNumberCurrent
CHECK_DEADLOCK FALSE
