\* A move of five passes (the trees in use: ten times the passes of a second)
\* and a robot that counts as stuck in the third pass (trees: the eleventh).
SPECIFICATION EscSpec
CONSTANTS
  Threshold = 2
  CountSize = 5
INVARIANTS
  EscTypeOK
  MovesAreWhole
PROPERTY
  TriesThreeWays
