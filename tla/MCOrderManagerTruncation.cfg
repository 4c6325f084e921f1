SPECIFICATION Spec
CONSTANTS
  MaxOrders = 2
  MaxQty = 3
  Truncated <- TenthsTruncated
INVARIANT
  OneActiveOrderPerSide
