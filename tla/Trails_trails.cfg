SPECIFICATION TrailsSpec
CONSTANTS
  Processes = {"gate", "queue"}
  BufferSize = 1
  BatchSize = 2
  MaxEvents <- MCMaxEvents
  MaxLog = 3
  MaxRestarts = 1
  AuditBuffer = 2
  AuditBatch = 2
  MaxRecords = 4
INVARIANTS Accounted NoOvertaking LossBounded TrailAccounted
PROPERTIES LogIsRead LeavesProducer TrailSettles
CHECK_DEADLOCK FALSE
