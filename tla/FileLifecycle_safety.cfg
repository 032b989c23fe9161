SPECIFICATION Spec
CONSTANTS
  Files = {f1}
  NoFile = NoFile
  Texts = {f1}
  Requests = {r1, r2}
  Sizes = {1}
  MaxSize = 1
  Limit = 1
  MaxDeleteAttempts = 1
  MaxRequests = 3
  MaxFaults = 1
SYMMETRY Symmetry
CHECK_DEADLOCK FALSE
INVARIANTS TypeOK CleanupTracked ReadyHasBytes ReadyWasScanned
PROPERTY ImplementsFileService
