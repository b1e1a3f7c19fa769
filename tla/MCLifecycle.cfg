\* Two calls in flight, with imports, scoring and removal.
SPECIFICATION Spec
CONSTANTS
  Calls = {q1, q2}
  Ops = {"update", "transition", "classify", "dispatch", "import", "remove"}
  Given = {"PENDING"}
  Titles = {t1}
SYMMETRY Symmetry
INVARIANTS
  TypeOK
  StagesInOrder
PROPERTIES
  DecisionStands
