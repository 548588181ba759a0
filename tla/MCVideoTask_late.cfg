SPECIFICATION TaskSafety
CONSTANTS
  NumBufs = 3
  Buffers = {1, 2, 3}
  Frames = {f1, f2}
  NoBuf = 0
  NoFrame = NoFrame
  Formats = {"H26x", "JPEG"}
INVARIANT
  NoDoubleRelease
CHECK_DEADLOCK FALSE
