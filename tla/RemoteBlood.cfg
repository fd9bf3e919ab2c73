SPECIFICATION FairSpec
CONSTANTS
  CountSize = 2
  Depth = 1
  WireDepth = 1
  HpLevels <- MCHpLevels
  FullHp = 400
  MaxOrders = 2
  MaxBlows = 2
PROPERTIES KeepsContract TotalsConverge
