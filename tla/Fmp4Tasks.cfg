SPECIFICATION Spec
CONSTANTS
  Segmenter = {"first", "second"}
  Task = {"first", "second"}
  TaskOf <- TwoTasks
  Config = {"a", "b"}
  Lanes <- BothLanes
  MaxLive = 2
  MaxParts = 3
  None = None
INVARIANTS
  SequenceNamesOnePart
  DependencySentFirst
CHECK_DEADLOCK FALSE
