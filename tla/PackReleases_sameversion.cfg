SPECIFICATION Spec
CONSTANTS
  Seeded = TRUE
  MaxSeed = 1
  Edits = {e1}
  MaxEdits = 1
  Breaking = {e1}
  Skipped = {}
  Keep = 2
  MaxTime = 0
  PerSecond = 1
  MaxRuns = 2
  MaxOps = 0
PROPERTIES
  SameVersionKeepsEdits
CHECK_DEADLOCK FALSE
