SPECIFICATION Spec
CONSTANTS
  Files = {f1, f2}
  NoFile = NoFile
  Texts = {}
  Requests = {r1, r2}
  Sizes = {1, 2}
  MaxSize = 2
  Limit = 1
  MaxDeleteAttempts = 1
  MaxRequests = 2
  MaxFaults = 0
SYMMETRY Symmetry
CHECK_DEADLOCK FALSE
INVARIANT QuotaOvershootBounded
