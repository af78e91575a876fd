SPECIFICATION Spec
CONSTANTS
    Files = {f, g}
    NParts = 2
    Tabs = {t}
    None = None
    MaxReloads = 2
    MaxPuts = 3
    MaxTries = 2
INVARIANTS
    ResumeTypeOK
    NoMixture
    WholeList
PROPERTIES
    TransferEnds
CHECK_DEADLOCK FALSE
