SPECIFICATION Spec
CONSTANTS
  Segmenter = {"first", "second"}
  Task = {"bridge"}
  TaskOf <- OneTask
  Config = {"a", "b"}
  Lanes <- BothLanes
  MaxLive = 2
  MaxParts = 3
  None = None
INVARIANTS
  TypeOK
  OwnInitializationInSuccession
  BundleIsDependency
PROPERTY InSequence
CHECK_DEADLOCK FALSE
