SPECIFICATION Spec
CONSTANTS
  d1 = d1
  d2 = d2
  Deferreds = {d1, d2}
  None = None
  Text = Text
  Token = Token
  Origins = {"dialed", "pair"}
  Lengths = {1, 2}
  Sizes = {2}
  Liberties = {"force", "disable"}
  MaxIn = 2
  MaxOut = 1
  MaxDepth = 2
SYMMETRY Symmetric
INVARIANT FlushedIsEmpty
INVARIANT ClosedAnnounced
INVARIANT NoOverdueRead
INVARIANT NoReadPastEOF
INVARIANT IncomingHasData
CHECK_DEADLOCK FALSE
