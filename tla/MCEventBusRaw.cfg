SPECIFICATION BusSpec
CONSTANTS
  Pairs = {"a", "b"}
  MaxEvents = 4
INVARIANT RequestOutlivesHandler
CHECK_DEADLOCK FALSE
