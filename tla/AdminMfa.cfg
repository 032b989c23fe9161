SPECIFICATION Spec
CONSTANTS
    Replicas = {p1, p2}
    Requests = {r1, r2}
    NonceSteps = 4
    MaxLag = 1
    Limit = 2
    MaxClock = 5
    MaxFaults = 1
SYMMETRY Symmetry
INVARIANTS
    TypeOK
    OneSessionPerCode
    EnrolledIsConfirmed
PROPERTY
    EnrolmentKept
CHECK_DEADLOCK FALSE
