SPECIFICATION FairSpec
CONSTANTS
  CountSize = 2
  Depth = 1
  WireDepth = 1
  Lots <- MCLots
  MaxOrders = 2
  MaxMoves = 2
INVARIANTS TypeOK SalesWereOrdered AsksOneLotAhead
PROPERTY OrdersSettleInTheZone
