SPECIFICATION Spec
CONSTANTS
    OutputCount = 2
    PixelsPerOutput = 1
    SlotsPerUniverse = 3
    Configs <- FirstLit
    Sender = {s1}
    Black = Black
    Junk = Junk
    Reconfigures = TRUE
INVARIANTS BuffersFollowBanks FailsOnlyOnError
PROPERTIES GivenUpDark
