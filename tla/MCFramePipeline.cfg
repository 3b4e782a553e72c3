SPECIFICATION Spec
CONSTANTS
    OutputCount = 3
    PixelsPerOutput = 2
    SlotsPerUniverse = 6
    Configs <- AnyShape
    Sender = {s1}
    Black = Black
    Junk = Junk
    Reconfigures = FALSE
INVARIANTS SweepCovers PixelsInPlace
