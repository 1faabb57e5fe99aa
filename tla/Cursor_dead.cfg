SPECIFICATION CursorSpec
CONSTANTS
  Threads = {a}
  Prompts = {p1}
  Calls = {k}
  NoThread = NoThread
  NoPrompt = NoPrompt
INVARIANT AliveMeansRunning
CHECK_DEADLOCK FALSE
