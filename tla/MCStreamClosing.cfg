SPECIFICATION Spec
CONSTANTS
  d1 = d1
  d2 = d2
  Deferreds = {d1, d2}
  None = None
  Text = Text
  Token = Token
  Origins = {"named", "pair"}
  Lengths = {1}
  Sizes = {0}
  Liberties = {"late", "take", "resize", "append", "cancel"}
  MaxIn = 1
  MaxOut = 2
  MaxDepth = 2
SYMMETRY Symmetric
INVARIANT NoOrphan
INVARIANT NothingCutOff
CHECK_DEADLOCK FALSE
