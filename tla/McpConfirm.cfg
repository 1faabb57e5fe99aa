SPECIFICATION LiveSpec
CONSTANTS
  Requests = {r1, r2, r3}
  Editor = Editor
  None = None
INVARIANTS
  TypeOK
  GateExact
  RunsOnlyIfApproved
  DialogsAreSerial
PROPERTIES
  ImplementsOneShot
  EveryAwaitReturns
CHECK_DEADLOCK FALSE
