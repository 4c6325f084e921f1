SPECIFICATION MCSpec
CONSTANTS
  MaxOrders = 2
  MaxQty = 2
  Truncated <- NothingTruncated
  WalletOrders = 2
  WalletQty = 2
  Deposit = 4
  BasePerQuote = 2
INVARIANTS
  OneActiveOrderPerSide
  SlotStateIsTrue
  ResponseMatchesOrder
  WalletOverstatesOnlyMisposted
  WalletReservedForeverOnlyIfUnanswered
