SPECIFICATION ObjectsSpec
CONSTANTS
 Roots = {s, t}  Releasable = {t}  Thens = {h}  Coroutines = {s}
 Outsiders = {w, v}  Yielders = {w}
 Copies = {c1, c2, c3, c4, c5, c6}
 MaxCalls = 2  MaxMoves = 3  MaxDepth = 3
 NoObject = NoObject  Junk = Junk
 a = a  b = b  len = len
 Cookie = Cookie  cookie = cookie  length = length  encoding = encoding
 Atoms = {a, b, len, chunked}  Lower <- MCLower  Camel <- MCCamel
 LengthHeader = length  EncodingHeader = encoding  TheLength = len  Chunked = chunked
 Lists <- MCLists
 Methods = {get, put}  Get = get
 Versions = {v10, v11}  DefaultVersion = v11
 Statuses = {100, 404}  Reasons <- MCReasons  Phrases = {phrase}
 Bodies <- MCBodies
 Targets <- MCTargets  Uris <- MCUris  Slash <- MCSlash
 Foreign <- MCForeign
 PipeSize = 10  MaxEdits = 3
 Texts <- MCTexts  Ports = {7, 80, 100, 8080, 65535, 65616}
 None = None  Anonymous = FALSE  MaxSteps = 2
 Domains = {name, number}  Immediate = {number}
 Lookups = {l1, l2}  NoLookup = nolookup  MaxHolds = 2
 Paths = {p1, p2}  Watchers = {w1, w2}  NoWatcher = nowatcher
 Reads = {r1}  MaxSize = 3  MaxFiles = 1
INVARIANTS HeardOnce HeldOnce ReleasedWhenIdle UriReadBack HttpReadBack PipeFits LookupsShared FilesExact
\* Every call may have been made, every request answered.
CHECK_DEADLOCK FALSE
