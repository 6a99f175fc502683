CONSTANTS
  Lists = {l1}
  Blocks = {b1, b2, b3}
  Texts = {x}
  Blank = x
  MaxTokens = 2
  KnownCells = FALSE
  InitRecovers = FALSE
  Null = NULL
SPECIFICATION Spec
INVARIANT StringsAccounted
