\* A dataset that stamps two records alike, read page by page.
SPECIFICATION Spec
CONSTANTS
  Sources = {"SECOP_II"}
  Recs = {r1, r2}
  Kinds = {"live"}
  Cycles = {c1}
  PageSize = 1
  BatchSize = 2
  Since = 0
  MaxNotice = 0
  Ties = TRUE
  Undated = {}
  MaxTime = 2
  MaxFaults = 0
  FailureCap = 3
INVARIANTS
  CursorCovers
