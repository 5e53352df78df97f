SPECIFICATION CalmSpec
CONSTANTS
  Processes = {"gate", "queue"}
  BufferSize = 1
  BatchSize = 2
  MaxEvents <- MCMaxEvents
  MaxLog = 3
  MaxRestarts = 0
  AuditBuffer = 2
  AuditBatch = 2
  MaxRecords = 4
INVARIANT EvidenceKept
CHECK_DEADLOCK FALSE
