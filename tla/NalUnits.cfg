SPECIFICATION Spec
CONSTANTS
  NULL = NULL
  Alphabets <- MCVideoAlphabet
  MaxOffset = 957
  KeyLen = 2
  From <- MCFrom
  To <- MCTo
  Schemes <- MCSchemes
  Marker = "proxy"
  Bases <- MCBases
  Cycle <- MCVideoCycle
  Leader = 2
  Shortest = 3
  Stride = 3
INVARIANT
  UnencryptedKept
CHECK_DEADLOCK FALSE
