SPECIFICATION LadderSpec
CONSTANTS
  Tokens = {1, 2, 3}
  Jtis = {j1}
  NoJti = NoJti
  Draws = {0}
  LotteryBand = 1
  MaxSeq = 1
  MaxAttempts = 1
  MinDwell = 0
  MinBeats = 0
  StaleAfter = 1
  Grace = 1
  SweepBatch = 2
  UserTTL = 1
  EvictedTTL = 1
  EntryTTL = 1
  BudgetTTL = 1
  Cap = 2
  Grants = {1}
INVARIANT Placement
PROPERTIES AdmissionOrder ImplementsLine
