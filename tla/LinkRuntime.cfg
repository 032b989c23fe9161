SPECIFICATION Spec
CONSTANTS
  Visitors = {v1, v2}
  Files = {page, image}
  Active = {page}
  Policies <- MCPolicies
  Lifetimes = {1}
  FileExpiries = {1, 9}
  Unset = Unset
  Second = 2
  Window = 1
  Hour = 1
  MaxTime = 2
  MaxRequests = 2
  MaxOps = 1
SYMMETRY Symmetry
CHECK_DEADLOCK FALSE
INVARIANTS TypeOK AdmittedAtOneInstant CapHoldsPerLife
PROPERTY LockTakesHold
