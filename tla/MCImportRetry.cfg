\* Two bulk requests of up to two records through one worker, the second
\* behind the first, with two attempts each and one re-run after a crash.
SPECIFICATION FairSpec
CONSTANTS
  Bulks = {"first", "second"}
  Streams = {}
  Recs = {r1, r2}
  Broken = {r2}
  MaxBatch = 2
  ChunkSize = 3
  Concurrency = 1
  Attempts = 2
  MaxStalled = 1
  MaxMsgs = 2
INVARIANTS
  BulkJobTruth
PROPERTIES
  EveryMessageSettles
CHECK_DEADLOCK FALSE
