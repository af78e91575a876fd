SPECIFICATION FairMaintenance
CONSTANTS
    Sessions = {s1}
    Slots = {k1}
    Target <- OneSlot
    Requests = {r1, r2}
    Extra = {r2}
    Digests = {d1, d2}
    NoDigest = NoDigest
    NoSession = NoSession
    Workers = {w1}
INVARIANTS
    VerifiedFileKept
    AckedIsCommitted
    CommittedObjectPresent
PROPERTIES
    ImplementsUploadLifecycle
    TerminalKept
    
    
