SPECIFICATION PlaylistSpec
CONSTANTS
  NULL = NULL
  NoNumber = NoNumber
  a = a  b = b  k1 = k1  k2 = k2  s1 = s1
  Dialects <- MCDialects
  MaxInt = 2
  MaxOffset = 4
  MasterLines <- MCMasterLines
  MaxMasterLines = 5
INVARIANTS
  InForce
  Counted
  OwnRangeAndDuration
  RejectedIffIllegal
  ListsOfLines
CHECK_DEADLOCK FALSE
