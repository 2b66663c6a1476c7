CONSTANTS
  Goods <- MCGoods
  Scarce <- MCScarce
  Scale = 3
  Wanted = 1
  Other = 2
  Price <- MCPrice
  Gold = 3
  Pack = 1
  Want = 2
  Attempts = 2
  Sales = 1
  MaxTrades = 1
  Wrap = 2
SPECIFICATION Spec
INVARIANT PaysItsPrice
INVARIANT VerifiedMeansGained
INVARIANT BoundedOverbuy
PROPERTY PurchaseEnds
CHECK_DEADLOCK FALSE
