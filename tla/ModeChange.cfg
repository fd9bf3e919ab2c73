SPECIFICATION Spec
CONSTANTS
  Orders <- MCOrders
  Goals = {g1}
  Origin = origin
  CountSize = 3
INVARIANTS TypeOK ServersSuitTheChassis OldGoalIsDropped
PROPERTIES WaitIsLongEnough WaitEnds
