SPECIFICATION FairSpec
CONSTANTS
  Files = {f1}
  NoFile = NoFile
  Texts = {}
  Requests = {r1, r2}
  Sizes = {1}
  MaxSize = 1
  Limit = 1
  MaxDeleteAttempts = 2
  MaxRequests = 2
  MaxFaults = 1
CHECK_DEADLOCK FALSE
PROPERTIES EventuallyDead EventuallyClean
