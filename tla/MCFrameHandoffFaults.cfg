CONSTANTS
  OutputCount = 2
  PixelsPerOutput = 2
  Configs <- AllConfigs
  Config0 <- OneOne
  WaitTries = 1
  PsGap = 3
  BootFrames = 2
  SeqMod = 4
  ReadFaults = TRUE
SPECIFICATION Spec
INVARIANTS NoOverlap NeverRejected
PROPERTY ErrorStopsFrames
