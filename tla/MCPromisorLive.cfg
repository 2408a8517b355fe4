SPECIFICATION FairSpec
CONSTANTS
  d = d
  r = r
  a = a
  b = b
  v = v
  e = e
  Promises = {d, a, b}
  Values = {e}
  Errors = {e}
  Args = {e}
  None = None
  Junk = Junk
  Generator = Generator
  AlreadyRunning = AlreadyRunning
  Kind <- MCKind
  Liberties = {"forget"}
  MaxDepth = 2
  MaxHandlers = 1
INVARIANT NoCrash
PROPERTY WaitEnds
CHECK_DEADLOCK FALSE
