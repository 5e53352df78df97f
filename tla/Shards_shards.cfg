SPECIFICATION Spec
CONSTANTS
  Gates = {g1, g2}
  Hashes = {0, 5}
  ShardCount = 1
  MaxShardCount = 2
  ShardSize = 2
  ReregisterAfter = 1
  RoundTrip = 1
  MaxPeople = 3
  MaxLosses = 1
INVARIANTS TypeOK NewcomersFound
PROPERTIES Relisted KeepsUp
