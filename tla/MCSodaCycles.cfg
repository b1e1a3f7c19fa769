\* Two datasets, two triggers that can overlap, streams that succeed, fail on
\* a refused record or fail by a fault.
SPECIFICATION Spec
CONSTANTS
  Sources = {"SECOP_I", "SECOP_II"}
  Recs = {r1}
  Kinds = {"live", "invalid"}
  Cycles = {c1, c2}
  PageSize = 1
  BatchSize = 2
  Since = 0
  MaxNotice = 0
  Ties = FALSE
  Undated = {}
  MaxTime = 2
  MaxFaults = 1
  FailureCap = 3
INVARIANTS
  SingleCycle
PROPERTIES
  CursorMonotone
  FailureAccounting
SYMMETRY Symmetry
