SPECIFICATION Spec
CONSTANTS
  Threads = {t1}
  Turns = {u1, u2, u3}
  SyncTurns = {u3}
  NoTurn = NoTurn
SYMMETRY TurnSymmetry
INVARIANTS
  StoppedOnlyByUserOrNewer
CHECK_DEADLOCK FALSE
