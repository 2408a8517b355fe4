SPECIFICATION Spec
CONSTANTS
  d1 = d1
  d2 = d2
  Deferreds = {d1, d2}
  None = None
  Text = Text
  Token = Token
  Origins = {"accepted", "dialed"}
  Lengths = {1, 2}
  Sizes = {0, 2}
  Liberties = {"refill"}
  MaxIn = 2
  MaxOut = 2
  MaxDepth = 2
SYMMETRY Symmetric
INVARIANT FlushedIsEmpty
CHECK_DEADLOCK FALSE
