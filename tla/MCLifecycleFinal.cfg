\* Two lifecycle requests for one notice, no import and no scoring.
SPECIFICATION Spec
CONSTANTS
  Calls = {q1, q2}
  Ops = {"transition"}
  Given = {"PENDING"}
  Titles = {t1}
PROPERTIES
  TerminalIsFinal
CHECK_DEADLOCK FALSE
