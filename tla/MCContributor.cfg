SPECIFICATION MCSpec
CONSTANTS
  WindowBits = 3
  Sequence <- MCSequence
  NoWindow = NoWindow
  Publisher = {"p1", "p2"}
  SourceCount = 2
  RepairCount = 1
  Deadlines = {1, 2, 3}
  MaxTime = 3
  Hold = 2
  MaxObjects = 2
  Caller = {"c1", "c2"}
  Sizes = {3, 5}
  Limits = {1, 2, 9}
  NoLimit = NoLimit
  SymbolSize = 2
  Overhead = 1
  RepairSymbols = 1
  LegacySymbols = 2
  MaxPayload = 4
  MaxSource = 3
  MaxSymbol = 7
  MaxDatagrams = 5
  IdSpace = 16
  MaxForwarded = 2
  NoPart = NoPart
  Rungs = 2
  InputCapacity = 2
  MaxUnits = 4
  NoFrame = NoFrame
  ElementaryStream = {"h264", "adts"}
  PesLimit = 2
  FrameTicks = 3
  MaxPackets = 4
  Timer = {"t1", "t2"}
  Durations = {1, 2, 3}
  Bounds = {1, 2}
  Percentile = 50
  MaxTimed = 3
  Recorder = {"t1", "t2"}
  Observed = {"o1"}
  StaleAfter = 0
  AlertLimit = 1
  MaxRecords = 2
  MaxReports = 1
  MaxClock = 2
  Expected = 4
  Depth = 2
  ReconnectLimit = 2
  Aggregate = 2
  EdgeKeeps = 2
  MaxPart = 5
INVARIANTS
  ContributorTypeOK
  MaskIsHistory
  VerdictsAreTrue
  WireNamesOneSlot
  LadderInStep
  UnitsAreWhole
  ReportsAreTrue
  WindowIsRead
PROPERTY ImplementsAtMostOnce
CHECK_DEADLOCK FALSE
