SPECIFICATION MCSpec
CONSTANTS
  Threads = {t1, t2, t3}
  Allocators = {t1}
  Blocks = {b1, b2, b3}
  Null = Null
  Data = Data
  Pairs = {"a", "b"}
  MaxEvents = 3
INVARIANTS
  PoolInv
  BusLifetimes
PROPERTIES
  BusReturned
