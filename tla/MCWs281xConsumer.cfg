CONSTANTS
    OutputCount = 3
    PixelsPerOutput = 3
    PixelCycles = 14
    ResetCycles = 2
    ReadErrors = FALSE
    Quiet = Quiet
    Failure = Failure
    Configs <- MCConfigs
SPECIFICATION Spec
INVARIANTS NeverGivenUp
PROPERTIES StrandSpec
