SPECIFICATION MCSpec
CONSTANTS
  SessionLimit = 1
  NoOutput = "none"
  UploadRequest = {"q1", "q2"}
  RtmpStream = {"s0", "s1"}
  ZeroStream = "s0"
  ConfiguredOutput = "configured"
  RtmpOutput = "rtmp"
  MaxSlots = 3
  MaxStarted = 3
INVARIANTS
  BridgeTypeOK
  PlaylistsFollowRequests
  SessionsFollowRequests
PROPERTY DepartedAreDropped
CHECK_DEADLOCK FALSE
