CONSTANTS
  OutputCount = 2
  PixelsPerOutput = 2
  Configs <- JustOneOne
  Config0 <- OneOne
  WaitTries = 1
  PsGap = 3
  BootFrames = 2
  SeqMod = 4
  ReadFaults = FALSE
SPECIFICATION Spec
INVARIANTS WholeFrames
PROPERTIES NoFrameSkipped FrameEventuallySent
