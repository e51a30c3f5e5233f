\* Slow callbacks, an incoming call, and a server slower than 100 ms
SPECIFICATION FairSpec
CONSTANTS
    Frequencies <- MCFrequencies
    Special <- MCSpecial
    Positions <- MCPositions
    Origin = "sea"
    Airports <- MCAirports
    icaobypos <- MCicaobypos
    Keys = {0}
    Radios = 2
    nCalls = 2
    SleepDrains = FALSE
    QuickEnd = FALSE
    MaxEnds = 2
    MaxPending = 2
    MaxIncoming = 1
PROPERTIES
    AutoReconnect
    NoCallOverwritten
