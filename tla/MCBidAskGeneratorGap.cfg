SPECIFICATION Spec
CONSTANTS
  FirstId = 1
  MaxId = 7
  MaxBatch = 2
INVARIANT
  Contiguous
