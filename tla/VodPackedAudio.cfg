SPECIFICATION Spec
CONSTANTS
  NULL = NULL
  m1 = m1  m2 = m2  m3 = m3  t1 = t1
  mp4 = mp4  mp4other = mp4other  ts = ts
  Maps <- MCMaps
  Contents <- MCContents
  MapBytes <- MCMapBytes
  TsContents <- MCTsContents
  NumSegments = 2
  SegmentDownloadRetries = 0
INVARIANT
  AudioIsRecorded
