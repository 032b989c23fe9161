SPECIFICATION Spec
CONSTANTS
  Files = {f1}
  NoFile = NoFile
  Texts = {f1}
  Requests = {r1}
  Sizes = {1}
  MaxSize = 1
  Limit = 1
  MaxDeleteAttempts = 1
  MaxRequests = 1
  MaxFaults = 0
SYMMETRY Symmetry
CHECK_DEADLOCK FALSE
INVARIANT ReadyWasRead
