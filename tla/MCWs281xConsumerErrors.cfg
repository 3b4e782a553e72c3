CONSTANTS
    OutputCount = 2
    PixelsPerOutput = 3
    PixelCycles = 7
    ResetCycles = 2
    ReadErrors = TRUE
    Quiet = Quiet
    Failure = Failure
    Configs <- MCConfigs
SPECIFICATION Spec
INVARIANTS LineRight ReadsLit
PROPERTIES FrameEnds
