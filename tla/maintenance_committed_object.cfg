SPECIFICATION MemorySpec
CONSTANTS
    Sessions = {s1}
    Slots = {k1}
    Target <- OneSlot
    Requests = {r1}
    Extra = {}
    Digests = {d1}
    NoDigest = NoDigest
    NoSession = NoSession
    Workers = {w1}
INVARIANT CommittedObjectPresent
