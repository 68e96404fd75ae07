SPECIFICATION Spec
CONSTANTS
    Users = {u1, u2}
    MaxVersion = 4
    SettingsAt <- Rotations
    MaxSeq = 2
    None = None
INVARIANTS TypeOK SnapshotShaped FreshestSettings
PROPERTIES NeverOlder
CHECK_DEADLOCK FALSE
