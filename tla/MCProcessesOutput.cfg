\* A command that writes and exits, beside nothing else.
SPECIFICATION Spec
CONSTANTS
  w1 = w1
  w2 = w2
  e1 = e1
  f1 = f1
  Workers = {w1}
  Execs = {e1}
  Forks = {}
  Main = main
  Liberties <- MCLiberties
  MaxQueue = 1
  PipeSize = 1
  MaxOthers = 1
CHECK_DEADLOCK FALSE
INVARIANTS
  OutputComplete
