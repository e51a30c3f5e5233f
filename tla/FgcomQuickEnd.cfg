\* The server ends the call within 100 ms of its dialling
SPECIFICATION FairSpec
CONSTANTS
    Frequencies <- MCFrequencies
    Special <- MCSpecial
    Positions <- MCPositions
    Origin = "sea"
    Airports <- MCAirports
    icaobypos <- MCicaobypos
    Keys = {0}
    Radios = 2
    nCalls = 2
    SleepDrains = TRUE
    QuickEnd = TRUE
    MaxEnds = 1
    MaxPending = 3
    MaxIncoming = 0
PROPERTIES
    AutoReconnect
