SPECIFICATION Spec
CONSTANTS
    Nodes = {root, n1, n2}
    Root = root
    Names = {x, y}
    Uploads = {u}
    Digests = {d, e}
    NoDigest = NoDigest
    None = None
    MaxRevision = 3
SYMMETRY Symmetric
CHECK_DEADLOCK FALSE
INVARIANTS
    MemoryTypeOK
    DownloadFindsContent
PROPERTIES
    
    MemoryImplementsLifecycle
