SPECIFICATION Spec
CONSTANTS
    Nodes = {root, n1, n2}
    Root = root
    Names = {x, y}
    Actors = {a, b}
    Ops = {"mkdir", "commit", "update", "recycle", "restore", "purge"}
    None = None
    MaxRevision = 3
CONSTRAINT StaleAlone
SYMMETRY Symmetric
INVARIANTS
    ContentKept
    PurgeComplete
    AppliedAsSeen
PROPERTIES
    ImplementsDriveTree
