SPECIFICATION FairSpec
CONSTANTS
  Commands <- MCCommands
  MissionGoals <- MCGoals
  CountSize = 2
  Depth = 2
  MaxPresses = 2
  MaxGames = 2
INVARIANT CommandedGoal
PROPERTIES ForceMoveEnds QuitEnds
