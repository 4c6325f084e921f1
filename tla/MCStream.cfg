SPECIFICATION MCSpec
CONSTANTS
  Pairs = {"BTCUSDT", "ETHUSDT"}
  Depths = {1, 5001}
  MaxRequests = 2
  MaxDocs = 2
  Sessions = {s1, s2}
  None = None
INVARIANTS
  RequestsAreAccepted
  WssIsSound
PROPERTIES
  WssDelivered
  WssEveryAddressConnects
CHECK_DEADLOCK FALSE
