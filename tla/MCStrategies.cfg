SPECIFICATION MCSpec
CONSTANTS
  Pairs = {"p", "q"}
  WorkingPair <- MCWorkingPair
  Configurations <- MCConfigurations
  Prices = {1, 2}
  PriceRange = 8
  PoolSize = 3
  KeeperPoolSize = 4
  QueueCap = 2
  MaxUpdates = 3
  Keys = {"a", "b"}
  Added <- MCAdded
  KnownPairs = {"a", "b"}
  BBOs <- MCBBOs
  Invalid = 20
  Threads = 2
  MaxBBOs = 3
INVARIANTS
  CrossBBOIsTop
  SignalsMirrorBBO
  WaitingSignalsOwnBlocks
  Hedged
  CyclicNothingLeftOpen
PROPERTIES
  StrategiesCatchUp
CHECK_DEADLOCK FALSE
