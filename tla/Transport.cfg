SPECIFICATION TransportSpec
CONSTANTS
  NULL = NULL
  Payload = 12
  PesHeader = 1
  Counters = 4
  MapPid = 16
  Maps <- MCMaps
  Packets <- MCPackets
  MaxPackets = 5
  PAT = 0
  OtherSections = {1, 2, 8191}
  PidSpace = 8192
  MaxComponents = 10
  Room = 4
  VideoSegments <- MCVideoSegments
  AudioSegments <- MCAudioSegments
  NumSegments = 2
INVARIANTS
  Restored
  Fits
  VideoKept
  AudioKept
  MapAhead
  Interleaved
CHECK_DEADLOCK FALSE
