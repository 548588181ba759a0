\* two callers of the disk, three of the flash, four pins on three controllers,
\* words of four bits
CONSTANTS
  SdClients = {s1, s2}
  SdMaxOrphans = 1
  GpioPins <- gpioPinsDef
  PinUse = 3
  FlashClients = {f1, f2, f3}
  FlashIsrs = 2
  MaxIo = 2
  MaxCount = 6
  ScrfdOutputs = 2
  YoloOutputs = 1
  Runs = 2
  Word = 16
  Headers = 3
  Align = 4
  DetClasses = 2
  DetScores = {1, 2}
  MaxCandidates = 3
  DetSeen = 4
SPECIFICATION Spec
INVARIANTS
  SdNoEarlyWake
  SdSuccessIsReal
  SdOkMeansReady
  GpioFiresItsCause
  FlashOneAtATime
  NpuFailureLeavesNothing
  NpuRunsReady
  NsRunsTakeTurns
  DetReportsTheBest
  LdCopyIsTheFile
PROPERTIES
  SdCallsReturn
  FlashCallsReturn
  NsRunEnds
\* After a leaked flash semaphore, or at the end of a suppression, nothing runs.
CHECK_DEADLOCK FALSE
