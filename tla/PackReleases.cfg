SPECIFICATION Spec
CONSTANTS
  Seeded = TRUE
  MaxSeed = 2
  Edits = {e1, n1}
  MaxEdits = 1
  Breaking = {}
  Skipped = {n1}
  Keep = 2
  MaxTime = 1
  PerSecond = 3
  MaxRuns = 2
  MaxOps = 2
INVARIANTS
  TypeOK
  ListIsSound
PROPERTIES
  EditsSavedUnlessFailed
  ChoiceIsKept
  ReleaseImmutable
CHECK_DEADLOCK FALSE
