\* One record that lacks the ordering field, and pages of one record.
SPECIFICATION FairSpec
CONSTANTS
  Sources = {"SECOP_II"}
  Recs = {r1}
  Kinds = {"live"}
  Cycles = {c1}
  PageSize = 1
  BatchSize = 2
  Since = 0
  MaxNotice = 0
  Ties = FALSE
  Undated = {r1}
  MaxTime = 1
  MaxFaults = 0
  FailureCap = 3
PROPERTIES
  CycleRunsAgain
