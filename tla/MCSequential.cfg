CONSTANTS
  Sockets = {1, 2, 3, 4}
  Ports = {0, 23, 2323}
  IPPORT_RESERVED = 1024
  Invalid = Invalid
  MaxAddresses = 2
  MaxInterfaces = 2
  MaxEntries = 3
  Lists = {l1, l2}
  Blocks = {b1, b2, b3}
  Phrases = {x, e}
  Blank = e
  MaxTokens = 2
  KnownCells = TRUE
  InitRecovers = FALSE
  Chars = {"a", "A", "b"}
  Rank <- MCRank
  Names <- MCNames
  Queries <- MCQueries
  MaxSections = 4
  MaxSame = 2
  LZH_N_CHAR = 6
  MAX_FREQ = 13
  Literals = 2
  Space = 0
  LZH_STRBUF_SZ = 16
  LZH_LOOKAHD_SZ = 6
  LZH_THRESHOLD = 2
  LowBits = 2
  PeekBits = 3
  OutSizes = {2, 16}
  MaxLen = 10
  Bytes = {nul, x}
  Nul = nul
  Uninitialized = u
  NULL = NULL
  SIZE_MAX = 8
  STBUF_OFFSET = 2
  MaxInsert = 3
  Parts = {"a", "A", "b"}
  Keys = {"k", "m"}
  Values = {"", "x", " x"}
  Empty = ""
  MaxLines = 4
SPECIFICATION MCSpec
CHECK_DEADLOCK FALSE
SYMMETRY MCSymmetry
VIEW MCState
INVARIANT SocketsAccounted
INVARIANT StringsAccounted
INVARIANT LookupsExact
INVARIANT TreesWellFormed
INVARIANT DecodesText
INVARIANT MatchIsLongest
INVARIANT HoldsWhatWasPut
INVARIANT ReadersAgree
PROPERTY ActsOnStore
