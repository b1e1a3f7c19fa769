\* A bulk request and a stream write the same notice through two workers;
\* messages carry it once or twice, and run again after a crash.
SPECIFICATION Spec
CONSTANTS
  Bulks = {"bulk"}
  Streams = {"stream"}
  Recs = {r1}
  Broken = {}
  MaxBatch = 2
  ChunkSize = 3
  Concurrency = 2
  Attempts = 1
  MaxStalled = 1
  MaxMsgs = 2
INVARIANTS
  TypeOK
  BulkJobReported
PROPERTIES
  OrderKept
  RemovedStaysRemoved
CHECK_DEADLOCK FALSE
