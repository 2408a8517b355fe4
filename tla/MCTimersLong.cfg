SPECIFICATION Spec
CONSTANTS
  n = n
  five = five
  Timers = {t1, t2, t3}
  Names = {n, five}
  Numeric = {five}
  None = None
  Programs <- MCPrograms
  Times = {27, 99}
  Fine = 2
  Unit = 10
  IntMax = 31
  MaxDepth = 2
INVARIANT TimeKept
\* Every timer may have run out.
CHECK_DEADLOCK FALSE
