SPECIFICATION FairSpec
CONSTANTS
    Principals = {o, p}
    Seeds = {o}
    SeedRole <- Owners
    Invitations = {i}
    Offered = {"owner", "admin", "editor"}
    Requests = {r1, r2}
    Groups = {g}
    GroupNames = {x}
    root = root
    dir = dir
    Nodes = {root, dir}
    Parent <- Tree
    Grantees = {p, g}
    Grants = {3}
    None = None
INVARIANTS
    AccessTypeOK
    NothingOutlives
    AuthorizersAgree
PROPERTIES
    OwnerStays
    AdmittedOnce
    LocksReleased
    RightsFromManagers
