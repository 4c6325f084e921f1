SPECIFICATION MCSpec
CONSTANTS
  Exchanges = {"kBinance", "kBybit"}
  Kept = {"kBinance"}
  Pairs = {"p"}
  Prices = {6, 12}
  Qtys = {1, 2, 3}
  PriceInvalid = 100
  MaxPosition = 4
  MaxEvents = 5
  Markets = {"kSpot", "kFutures"}
  BookPairs = {"p", "q"}
  Info = {"p"}
  Cycles <- MCCycles
  MaxAdds = 2
  MaxArrivals = 2
  MaxReports = 1
INVARIANTS
  OneSided
  PandaShowsWhatHappened
PROPERTIES
  ImplementsLedger
  PandaLastIsShown
CHECK_DEADLOCK FALSE
