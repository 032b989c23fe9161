SPECIFICATION FairSpec
CONSTANTS
  Keys = {k1, k2}
  NoKey = NoKey
  Servers = {s1, s2}
  MaxBytes = 2
  MaxServed = 4
  MaxFaults = 2
CHECK_DEADLOCK FALSE
INVARIANTS TypeOK Conservation BufferReachable DailyWithinTotal
PROPERTY EventuallyFlushed
