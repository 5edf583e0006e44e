SPECIFICATION Safety
CONSTANTS
  NULL = NULL
  MaxSeq = 2
  SegmentDownloadRetries = 1
  LiveStartOffsetMs = 2
  LiveDurationMs = 0
  DurationMs <- MCDurationMs
INVARIANT
  NewestAdopted
