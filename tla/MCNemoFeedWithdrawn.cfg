SPECIFICATION Spec
CONSTANTS
    Users = {u1, u2}
    MaxVersion = 3
    SettingsAt <- Rotations
    MaxSeq = 2
    None = None
INVARIANT WithdrawnStaysCleared
CHECK_DEADLOCK FALSE
