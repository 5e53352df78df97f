SPECIFICATION DrainSpec
CONSTANTS
  Tokens = {1, 2, 3}
  Silent = {1}
  Patient = {2}
  Jtis = {j1, j2}
  NoJti = NoJti
  Draws = {0}
  LotteryBand = 1
  MaxSeq = 2
  MaxAttempts = 1
  MinDwell = 1
  MinBeats = 1
  StaleAfter = 1
  Grace = 1
  SweepBatch = 1
  UserTTL = 3
  EvictedTTL = 1
  EntryTTL = 1
  BudgetTTL = 2
  Cap = 1
  Grants = {1}
INVARIANT GraceHonoured
PROPERTIES PatientGetIn AbandonedLeave
