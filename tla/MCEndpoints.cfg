SPECIFICATION EndpointsSpec
CONSTANTS
 one = one  two = two  m0 = m0  m2 = m2
 Ends = {one, two}
 Messages = {m0, m2}
 Size <- MCSize
 Null = Null  Freed = Freed  Junk = Junk
 MaxSent <- MCMaxSent
 d1 = d1  d2 = d2
 Deferreds = {d1, d2}
 None = None  Text = Text  Token = Token
 Origins = {"accepted"}
 Lengths = {1}  Sizes = {0}
 Liberties = {}
 MaxIn = 1  MaxOut = 2
 MaxDepth = 2
PROPERTIES IsChannel Served OutputEnds
\* Every message may have been sent, the stream closed.
CHECK_DEADLOCK FALSE
