SPECIFICATION MCSpec
CONSTANTS
  FirstId = 1
  MaxId = 7
  MaxBatch = 2
  BybitFirstId = 1
  BybitMaxId = 5
  MaxLost = 1
  MaxOdd = 1
  MaxStops = 1
  Files <- HistoryFiles
  NoPath = NoPath
  Capacity = 2
  Bulk = 2
INVARIANTS
  GapOnlyAfterLateSnapshot
  RecoversWhenCalm
  BybitLossIsKnown
  ReplayIsWhole
PROPERTIES
  NeverRollsBack
  FeedUnlessLate
  BybitLossIsRepaired
  BybitImplementsFeed
  ReplayEnds
