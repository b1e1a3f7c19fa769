\* One dataset in depth: every kind of version, with and without the ordering
\* field, pages and batches out of step, a seeded cursor or none, one fault.
SPECIFICATION FairSpec
CONSTANTS
  Sources = {"SECOP_II"}
  Recs = {r1, r2}
  Kinds = {"live", "dead", "invalid"}
  Cycles = {c1}
  PageSize = 2
  BatchSize = 2
  Since = 0
  MaxNotice = 1
  Ties = FALSE
  Undated = {r1}
  MaxTime = 3
  MaxFaults = 1
  FailureCap = 1
INVARIANTS
  TypeOK
  CursorCovers
  CompletedStreamHandedOver
PROPERTIES
  ImplementsFeed
  CycleEnds
  EventuallyQueued
