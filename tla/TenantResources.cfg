SPECIFICATION FairSpec
CONSTANTS
    Subdomains = {s1, s2}
    Hosts = {h1}
    InstanceLimit = 1
    DomainLimit = 1
    Requests = {r1, r2}
    MaxRequests = 4
    MaxChanges = 3
    MaxFaults = 1
INVARIANTS
    TypeOK
    OvershootBounded
    OnlyNewestKeys
    VerifiedWasProven
    VerifiedKept
PROPERTY
    VanishedReverts
CHECK_DEADLOCK FALSE
