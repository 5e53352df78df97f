SPECIFICATION Spec
CONSTANTS
  Tokens = {t1}
  Nonces = {n1, n2}
  Requests = {r1, r2}
  Gates = {"g1", "g2"}
  Ahead <- MCAhead
  Skew = 1
  TTL = 1
  BaseDifficulty = 8
  MaxDifficulty = 11
  Bump = 2
  RechallengeMax = 1
  MaxSuspicion = 2
  MaxRounds = 3
INVARIANTS TypeOK StillGood
PROPERTIES OnceOnly PaidInFull Returns
