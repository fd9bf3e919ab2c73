SPECIFICATION Spec
CONSTANTS
  Goals <- MCGoals
  Cancels = {"p2", "q1"}
  NavOf <- MCNavOf
  TreeOf <- MCTreeOf
  Default = "default"
  Loadable = {"default", "other"}
  Failing = {"other"}
INVARIANTS TypeOK OpenGoalsAreHeld MuxerIsHeldByARunner BoardIsTheGoal
PROPERTIES KeepsContract CancelEnds
