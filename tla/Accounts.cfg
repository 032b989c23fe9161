SPECIFICATION Spec
CONSTANTS
    ann = ann
    bob = bob
    cat = cat
    Users = {ann, bob, cat}
    StartRole <- MCStartRole
    Asked = {"owner", "member"}
    Requests = {r1, r2}
    MaxRequests = 3
    MaxFaults = 1
SYMMETRY Symmetry
INVARIANTS
    TypeOK
    OwnerKept
    OwnersMadeByOwners
    ResetEndsSessions
    InviteNotWasted
PROPERTY
    OwnerTouchedByOwners
CHECK_DEADLOCK FALSE
