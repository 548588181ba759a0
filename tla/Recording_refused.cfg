SPECIFICATION RecSpec
CONSTANTS
  Shots = {v0, v2}
  OnDemand = v0
  Streams = {v1}
  NoChannel = NoChannel
  FrameLen = 3
PROPERTY
  RefusedMeansBusy
