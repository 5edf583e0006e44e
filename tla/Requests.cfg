SPECIFICATION RequestsSpec
CONSTANTS
  NULL = NULL
  Zero = Zero
  u1 = u1  u2 = u2  u3 = u3  k1 = k1  k2 = k2  given = given
  Urls <- MCUrls
  Keys <- MCKeys
  OptionKeys <- MCOptionKeys
  Asked <- MCAsked
  NumSegments = 4
  MaxChanges = 2
  Noise = Noise
  Requested <- MCRequested
  Resources <- MCResources
  KeyLen = 2
  IntMax = 5
  Cover = 3
  MaxRetries = 1
INVARIANTS
  KeysCached
  AnswerWhole
  RoomForAnswer
CHECK_DEADLOCK FALSE
