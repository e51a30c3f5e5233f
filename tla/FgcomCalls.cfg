\* The calls, whenever the server ends them: no second call, none off frequency
SPECIFICATION FairSpec
CONSTANTS
    Frequencies <- MCFrequencies
    Special <- MCSpecial
    Positions <- MCPositions
    Origin = "sea"
    Airports <- MCAirports
    icaobypos <- MCicaobypos
    Keys = {0, 1, 2}
    Radios = 2
    nCalls = 2
    SleepDrains = TRUE
    QuickEnd = TRUE
    MaxEnds = 2
    MaxPending = 3
    MaxIncoming = 0
INVARIANTS
    TypeOK
    OneCall
    OnFrequency
    CallIsSelected
    IdleMeansFree
    ListensWhenReleased
PROPERTIES
    HangsUpOutOfRange
