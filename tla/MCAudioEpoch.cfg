SPECIFICATION MCSpec
CONSTANTS
  Peer = {"udp", "local"}
  UdpPeer = {"udp"}
  LocalPeer = "local"
  Request = {"r1", "r2"}
  Key = {"a", "b", "c"}
  Configured = {"a", "b"}
  Offered <- MCOffered
  Completions <- MCCompletions
  QueueCapacity = 1
  MeshCapacity = 1
  WorkerQueueCapacity = 1
  MinUnits = 2
  MaxGroups = 3
  MaxWorkers = 3
  None = None
INVARIANTS
  PlaneTypeOK
  OneTaskPerRendition
  GaugesAgree
  PartsAreContinuous
  OneStreamAtATime
  ShutdownLosesNothing
PROPERTIES
  KeepsOrder
  PlaneShutdownCompletes
CHECK_DEADLOCK FALSE
