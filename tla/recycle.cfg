SPECIFICATION FairMaintenance
CONSTANTS
    Nodes = {root, n1}
    Root = root
    Names = {x}
    Actors = {a, v, w}
    Workers = {v, w}
    Ops = {"mkdir", "commit", "update", "recycle", "restore", "purge"}
    None = None
    MaxRevision = 3
    MaxFaults = 2
INVARIANTS
    ClaimHolds
PROPERTIES
    EntriesEnd
