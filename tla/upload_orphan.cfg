SPECIFICATION Spec
CONSTANTS
    Sessions = {s1}
    Slots = {k1}
    Target <- OneSlot
    Requests = {r1, r2}
    Digests = {d1}
    NoDigest = NoDigest
    NoSession = NoSession
INVARIANT FailedLeavesNothing
