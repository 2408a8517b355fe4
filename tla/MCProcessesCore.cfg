\* An honest worker beside a restarted, stopped and late one, a command and a fork().
SPECIFICATION FairSpec
CONSTANTS
  w1 = w1
  w2 = w2
  e1 = e1
  f1 = f1
  Workers = {w1, w2}
  Execs = {e1}
  Forks = {f1}
  Main = main
  Liberties <- MCLiberties
  MaxQueue = 2
  PipeSize = 1
  MaxOthers = 1
CHECK_DEADLOCK FALSE
INVARIANTS
  QueueArmed
  OneProcess
  Tracked
  Told
  Truthful
PROPERTIES
  EveryChildReaped
  EveryStartServed
