SPECIFICATION FlowSpec
CONSTANTS
  NumShards = 2
  RatePerMin = 20
  IntervalSec = 5
  MinPercent = 40
  Slowed = {40, 60}
  Threshold = 2
  Cooldown = 1
  Cap = 1
  BudgetTTL = 1
  MaxWaiting = 2
  MaxJoins = 3
INVARIANTS TypeOK PlanExact RateHeld
PROPERTIES StopsWhenDown Drains
