SPECIFICATION Spec
CONSTANTS
    OutputCount = 2
    PixelsPerOutput = 2
    SlotsPerUniverse = 6
    Configs <- FirstEmpty
    Sender = {s1}
    Black = Black
    Junk = Junk
    Reconfigures = TRUE
INVARIANTS FailsOnlyOnError
