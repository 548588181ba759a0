SPECIFICATION ChannelSpec
CONSTANTS
  Buffers = {b1, b2, b3}
  Frames = {f1, f2}
  NoBuf = NoBuf
  NoFrame = NoFrame
  Formats = {"H26x", "JPEG"}
INVARIANTS
  BuffersConserved
  NoDoubleRelease
  FramesPrivate
  NoFrameLeaked
PROPERTY
  ImplementsFrameLoan
