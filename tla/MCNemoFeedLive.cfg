SPECIFICATION FairSpec
CONSTANTS
    Users = {u1}
    MaxVersion = 2
    SettingsAt <- Rotations
    MaxSeq = 1
    None = None
PROPERTIES TokenReachesServer CloseStops
CHECK_DEADLOCK FALSE
