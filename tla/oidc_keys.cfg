SPECIFICATION FairSpec
CONSTANTS
    Kids = {k1, k2}
    Requests = {r1, r2}
    Fresh = 2
    Timeout = 1
    None = None
INVARIANT
    KeysTypeOK
PROPERTIES
    WithdrawnKeyEnds
    PublishedKeyKnown
    EveryRequestAnswered
