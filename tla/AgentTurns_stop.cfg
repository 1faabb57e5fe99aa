SPECIFICATION Spec
CONSTANTS
  Threads = {t1}
  Turns = {u1, u2, u3}
  SyncTurns = {u3}
  NoTurn = NoTurn
SYMMETRY TurnSymmetry
INVARIANTS
  StopReachesLiveTurn
CHECK_DEADLOCK FALSE
