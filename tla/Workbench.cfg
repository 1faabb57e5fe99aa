SPECIFICATION FairSpec
CONSTANTS
  Threads = {a, b}
  Prompts = {p1, p2}
  Calls = {k}
  NoThread = NoThread
  NoPrompt = NoPrompt
  Lines = {1, 2, 3}
  TailCount = 2
  Streams = {1}
  MaxWrites = 3
  MaxChunks = 2
  Old = old
  New = new
  Pages = {1, 2}
  Requests = {r1, r2}
  MaxEdits = 1
  Gone = Gone
  None = None
  NoNote = NoNote
  Off = Off
  Slots = {i1, i2}
  Reads = {g1}
  MaxTexts = 2
  MaxAsked = 2
  Tabs = {t1, t2}
  MaxSessions = 4
  Closers = {c1, c2}
  MaxHandlers = 3
  MaxPanes = 2
  MaxStored = 1
  Folders = {f, g}
  Apis = {q}
  Commands = {d1, d2}
  Top = Top
  Absent = Absent
  NoCommand = NoCommand
  MaxAnswers = 1
  MaxCommands = 3
INVARIANTS WorkbenchTypeOK CursorSafe LogFollowSafe UpdateSafe TableSafe NotebookSafe TabsSafe TreeSafe
PROPERTY WorkbenchProgress
CHECK_DEADLOCK FALSE
