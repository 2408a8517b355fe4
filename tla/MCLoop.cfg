SPECIFICATION LoopSpec
CONSTANTS
 Conns = {c1, c2}  MaxCalls = 3
 n = n  five = five
 Timers = {t1, t2, t3}  Names = {n, five}  Numeric = {five}  None = None
 Programs <- MCPrograms
 Times = {27}  Fine = 2  Unit = 10  IntMax = 31
 MaxDepth = 2
INVARIANTS NoCrash TableExact ArmedWhileLive
PROPERTIES Welcomed AwaitEnds IntervalTicks
\* The listener may be shut down, every timer have run out.
CHECK_DEADLOCK FALSE
