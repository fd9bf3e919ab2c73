SPECIFICATION Spec
CONSTANTS
  Commands <- MCTarget
  MissionGoals <- MCGoals
  CountSize = 2
  Depth = 1
  MaxPresses = 1
  MaxGames = 2
INVARIANTS NewGameIsFree
