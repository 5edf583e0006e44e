SPECIFICATION Safety
CONSTANTS
  NULL = NULL
  MaxSeq = 3
  SegmentDownloadRetries = 1
  LiveStartOffsetMs = 3
  LiveDurationMs = 4
  DurationMs <- MCDurationMs
INVARIANTS
  IInv
  ListIntact
  SpliceSafe
  RecordedInOrder
  EverySegmentAccounted
  CleanFinishComplete
  DurationLimit
