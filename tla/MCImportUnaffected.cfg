\* One bulk request with a record the table refuses next to a sound one.
SPECIFICATION Spec
CONSTANTS
  Bulks = {"bulk"}
  Streams = {}
  Recs = {r1, r2}
  Broken = {r2}
  MaxBatch = 2
  ChunkSize = 3
  Concurrency = 5
  Attempts = 3
  MaxStalled = 1
  MaxMsgs = 1
INVARIANTS
  UnaffectedComplete
CHECK_DEADLOCK FALSE
