SPECIFICATION RestartSpec
CONSTANTS
  NumBufs = 3
  Slots = 2
  Lives = 2
PROPERTY
  RecoveryIsReached
CHECK_DEADLOCK FALSE
