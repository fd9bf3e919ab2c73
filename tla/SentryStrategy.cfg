SPECIFICATION FairSpec
CONSTANTS
  RobotOrder <- MCTwoRobots
  Priority <- MCTwoRobots
  DefaultChasing = TRUE
  LostDelay = 2
  DogThreshold = 2
  BloodReports <- MCReports
  None = None
INVARIANTS TypeOK ChasesTheForcedRobot ChaseIsFresh WaitHoldsATarget
PROPERTY LostWaitEnds
