\* a handle with room for two of each; the counts go past everything behind it
CONSTANTS
  MaxIo = 2
  MaxCount = 6
  ScrfdOutputs = 2
  YoloOutputs = 1
  Runs = 1
SPECIFICATION NsSpec
INVARIANT
  NpuFailureReleases
CHECK_DEADLOCK FALSE
