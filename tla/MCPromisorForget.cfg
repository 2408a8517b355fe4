SPECIFICATION Spec
CONSTANTS
  d = d
  r = r
  a = a
  b = b
  v = v
  e = e
  Promises = {d, a, b}
  Values = {v, e}
  Errors = {e}
  Args = {v}
  None = None
  Junk = Junk
  Generator = Generator
  AlreadyRunning = AlreadyRunning
  Kind <- MCKind
  Liberties = {"forget", "reforget"}
  MaxDepth = 2
  MaxHandlers = 2
SYMMETRY Symmetric
INVARIANT DrainedWhenSettled
PROPERTY KeepsContract
PROPERTY WokenByAwaited
CHECK_DEADLOCK FALSE
