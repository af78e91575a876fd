SPECIFICATION Spec
CONSTANTS
    Attempts = {a1, a2, a3}
    Keys = {k1}
    Digests = {d1, d2}
    None = None
    ClaimTTL = 1
    Retention = 2
    MaxNow = 2
SYMMETRY Symmetric
CONSTRAINT SameScope
CHECK_DEADLOCK FALSE
INVARIANTS
    OneResourcePerKey
    AnswerIsOfThisRequest
    AnsweredUploadUsable
