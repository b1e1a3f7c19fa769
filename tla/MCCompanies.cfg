\* Three requests in flight on two companies and two tax numbers.
SPECIFICATION CompaniesSpec
CONSTANTS
  Companies = {c1, c2}
  Nits = {n1, n2}
  Calls = {q1, q2, q3}
SYMMETRY Symmetry
INVARIANTS
  CompaniesTypeOK
  UniqueNit
  ConflictOnlyWithAnother
PROPERTIES
  ReturnsOnlyByUpdate
