SPECIFICATION Spec
CONSTANTS
  NULL = NULL
  Alphabets <- MCAlphabets
  MaxOffset = 957
  KeyLen = 2
  From <- MCFrom
  To <- MCTo
  Schemes <- MCSchemes
  Marker = "proxy"
  Bases <- MCBases
  Cycle <- MCCycle
  Leader = 2
  Shortest = 3
  Stride = 3
INVARIANTS
  NumbersExact
  AttributesExact
  ReplacedAll
  AddressResolved
  UnitsRestored
  FramesRestored
CHECK_DEADLOCK FALSE
