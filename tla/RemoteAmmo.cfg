SPECIFICATION FairSpec
CONSTANTS
  CountSize = 3
  Depth = 2
  WireDepth = 2
  MaxOrders = 5
INVARIANT AtMostOneUnseenGrant
PROPERTIES KeepsContract TotalsConverge
