SPECIFICATION Spec
CONSTANTS
    Versions = {v1, v2}
    Unapproved = v9
    Calls = {c1, c2}
    Runs = {r1, r2}
    None = None
INVARIANTS
    StagingTypeOK
    ActiveServes
    InterruptionAccounted
PROPERTIES
    SwitchAnnounced
    RecoveryStays
