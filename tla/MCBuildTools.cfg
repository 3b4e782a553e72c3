SPECIFICATION MCSpec
CONSTANTS
    Configs <- MCConfigs
    Layouts = {"map"}
    Literals = {"E131_PORT"}
    Strays = {"leftover"}
    MaxEdits = 2
    MaxInterrupts = 1
    Outputs = {1, 30, 31, 32, 33}
    Pixels = {0, 1, 3, 1024}
    Banks = {1, 2, 3}
    ControlRanges = {0, 256, 4096}
    RamEntries = {2, 8192, 65536}
    RamWidths = {16, 32}
    Rooms = {30, 33}
    Strides = {4, 8}
    MaxWidth = 30
    MaxFiles = 2
    MaxLines = 1
    Envs = {"defaults", "pool2048"}
    MaxBuildEdits = 1
    MaxMakes = 2
    Known = {"current", "pool2048"}
    Cells <- MCCells
    GuardCell = "50@30"
    Ceiling <- MCCeiling
    Orders <- MCOrders
    SweepVerdicts = {"stable", "broken"}
    MaxRate = 1
    MaxCampaigns = 1
INVARIANTS WrittenIsCurrent OnlyAcceptedIsCopied PassMeansFresh ChecksAreSound BuildIsCurrent
PROPERTIES CampaignIsSound
CHECK_DEADLOCK FALSE
