SPECIFICATION Spec
CONSTANTS
  Config <- MCConfig
  Resolution <- MCResolution
  AudioSig = {"aac"}
  Timed = {"aac"}
  AudioTarget = 2
  MaxPending = 2
  MaxUnits = 2
  None = None
INVARIANT ConfiguredBeforePublish
