SPECIFICATION Spec
CONSTANTS
  Threads = {t1, t2}
  Allocators = {t1, t2}
  Blocks = {b1, b2, b3}
  Null = Null
  Data = Data
INVARIANTS
  OneObjectPerBlock
CHECK_DEADLOCK FALSE
