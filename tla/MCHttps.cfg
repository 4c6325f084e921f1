SPECIFICATION MCSpec
CONSTANTS
  Sessions = {s1, s2}
  Requests = {p1, p2}
  None = None
  MaxFaults = 1
  MaxCalls = 2
  MaxMessages = 2
INVARIANTS
  PoolIsSound
  SingleIsSound
PROPERTIES
  Answered
  AcquireReturns
  SingleEndsOrConnects
CHECK_DEADLOCK FALSE
