SPECIFICATION Spec
CONSTANTS
  Tokens = {1}
  Jtis = {j1, j2}
  NoJti = NoJti
  Draws = {0}
  LotteryBand = 1
  MaxSeq = 2
  MaxAttempts = 1
  MinDwell = 1
  MinBeats = 1
  StaleAfter = 1
  Grace = 1
  SweepBatch = 1
  UserTTL = 5
  EvictedTTL = 3
  EntryTTL = 3
  BudgetTTL = 2
  Cap = 2
  Grants = {1}
SYMMETRY JtiSymmetry
INVARIANTS TypeOK Placement EntryBacked
PROPERTIES EntryOnce ImplementsLine
