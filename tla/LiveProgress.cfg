SPECIFICATION Spec
CONSTANTS
  NULL = NULL
  MaxSeq = 2
  SegmentDownloadRetries = 0
  LiveStartOffsetMs = 2
  LiveDurationMs = 2
  DurationMs <- MCDurationMs
PROPERTIES
  ShutdownCompletes
  EndIsNoticed
  ListedIsHandled
  ImplementsRecording
