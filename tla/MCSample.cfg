\* nn: everything there is.  Recording: one channel of each kind, files of three
\* frames.  Restart: three buffers over two slots, three lives.
CONSTANTS
  Shots = {v0, v2}
  OnDemand = v0
  Streams = {v1}
  NoChannel = NoChannel
  FrameLen = 3
  NumBufs = 3
  Slots = 2
  Lives = 3
SPECIFICATION Spec
INVARIANTS
  InferenceHasModel
  IdleHoldsNothing
  RunningIsServed
  OneRecorder
  CardInOrder
  BufferBelongs
  QueuesSound
PROPERTIES
  StopUnloads
  StartDecided
  RecordingEnds
  RequestTaken
  StopEnds
\* The thread that restarts comes to the end of its last life.
CHECK_DEADLOCK FALSE
