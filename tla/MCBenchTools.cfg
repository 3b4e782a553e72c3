SPECIFICATION MCSpec
CONSTANTS
    Matrix <- MCMatrix
    MatrixKeys <- MCMatrixKeys
    Sanity <- MCSanity
    CommandLines <- MCCommandLines
    OldPixels = {50}
    OldCounts = {1}
    MaxSent = 1
    MaxStatus = 1
    WireCap = 1
    Runs = 2
    Ports = {1, 2, 3}
    Score <- MCScore
    BoardPort = 1
    Users = {"logs", "capture"}
    MaxChanges = 1
    Targets = {30, 33, 60, 67}
    Lengths = {500, 1024}
    Duration = 10
    Slack = {0, 3, 7, 16, 35, 300}
    Writes = {100, 5000, 9000}
INVARIANTS RowIsOfItsCell JtagRunIsClean RightPort VerdictIsSound
PROPERTIES ToolsEnd
CHECK_DEADLOCK FALSE
