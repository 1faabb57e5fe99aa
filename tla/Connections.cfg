SPECIFICATION FairSpec
CONSTANTS
  Shells = {s1}
  Readers = {r1}
  MaxLines = 5
  TailLines = 3
  PageLines = 1
  Retries = 1
  MaxSeconds = 2
  Callers = {c1, c2}
  Databases = {a, b}
  DefaultDb = a
  MaxHandles = 4
  MaxCalls = 3
  Forwards = {f1, f2}
  Ports = {p, q}
  Conns = {k1, k2}
  Tasks = {t1, t2}
  Folders = {t1}
  MaxConcurrent = 1
  MaxWire = 2
  MaxRemotes = 2
  MaxStored = 2
  Dirs = {d, e}
  Jobs = {j1, j2}
  Closers = {w1, w2}
  MaxTexts = 1
  MaxClicks = 3
  Nil = Nil
  Items = {x, y}
  Slots = {i1, i2}
  MaxInputs = 3
  None = None
  Torn = Torn
INVARIANTS ConnTypeOK TerminalsSafe DbSessionsSafe ForwardsSafe TransfersSafe PanesSafe WorkspaceSafe
PROPERTY ConnProgress
CHECK_DEADLOCK FALSE
