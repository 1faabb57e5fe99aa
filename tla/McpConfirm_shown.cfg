SPECIFICATION Spec
CONSTANTS
  Requests = {r1, r2}
  Editor = Editor
  None = None
SYMMETRY RequestSymmetry
INVARIANTS
  ShownAsConfirmedRuns
CHECK_DEADLOCK FALSE
