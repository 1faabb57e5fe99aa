SPECIFICATION Spec
CONSTANTS
  Seeded = FALSE
  MaxSeed = 1
  Edits = {}
  MaxEdits = 1
  Breaking = {}
  Skipped = {}
  Keep = 2
  MaxTime = 2
  PerSecond = 1
  MaxRuns = 1
  MaxOps = 4
INVARIANTS
  TargetKept
CHECK_DEADLOCK FALSE
