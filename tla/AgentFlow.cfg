SPECIFICATION FairSpec
CONSTANTS
    Agents = {a1}
    Keys = {k1, k2}
    Files = {f1, f2, f3}
    Bodies = {b1}
    None = None
    MaxPolls = 1
    MaxCalls = 2
    MaxRetries = 1
    MaxFaults = 1
INVARIANTS
    TypeOK
    OwnLink
    OneLinkPerCall
PROPERTY
    ToolReturns
CHECK_DEADLOCK FALSE
