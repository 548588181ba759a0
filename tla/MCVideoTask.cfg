SPECIFICATION TaskSpec
CONSTANTS
  NumBufs = 3
  Buffers = {1, 2, 3}
  Frames = {f1, f2}
  NoBuf = 0
  NoFrame = NoFrame
  Formats = {"H26x", "JPEG"}
INVARIANTS
  DeadIsTidy
PROPERTIES
  KeepsContract
  StopEndsThread
  RecordAnswered
  ForceEnds
\* The thread ends.
CHECK_DEADLOCK FALSE
