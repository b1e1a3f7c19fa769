\* Two jobs over one company and two notices, one request at a time on
\* companies, one fault or crash.
SPECIFICATION Spec
CONSTANTS
  Companies = {c1}
  Nits = {n1}
  Calls = {q1}
  Notices = {a, b}
  MaxJobs = 2
  Attempts = 2
  MaxStalled = 1
  MaxFaults = 1
SYMMETRY Symmetry
INVARIANTS
  TypeOK
  OneResultPerPair
  CompletedMeansScored
  LogAgrees
PROPERTIES
  ResultsMoveForward
  AnswerCoherent
CHECK_DEADLOCK FALSE
