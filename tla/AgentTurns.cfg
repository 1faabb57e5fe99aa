SPECIFICATION FairSpecOfOneThread
CONSTANTS
  Threads = {t1, t2}
  Turns = {u1, u2}
  SyncTurns = {u2}
  NoTurn = NoTurn
INVARIANTS
  TypeOK
  EntryIsAlive
  ReachableUnlessOverlapped
  StoppedHasCause
PROPERTIES
  WaitingIsFinal
  EveryTurnReports
CHECK_DEADLOCK FALSE
