SPECIFICATION Spec
CONSTANTS
  d = d
  r = r
  a = a
  b = b
  v = v
  e = e
  Promises = {d, a}
  Values = {v, e}
  Errors = {e}
  Args = {v}
  None = None
  Junk = Junk
  Generator = Generator
  AlreadyRunning = AlreadyRunning
  Kind <- MCKind
  Liberties = {"resettle", "recancel", "rechain"}
  MaxDepth = 3
  MaxHandlers = 2
INVARIANT TypeOK
INVARIANT StackDiscipline
INVARIANT NoLostWakeup
CHECK_DEADLOCK FALSE
