\* A scale of two for 20 ms
SPECIFICATION Spec
CONSTANTS
    N = 8
    Type <- MCType
    TS <- MCTS
    Full <- MCFull
    ms = 2
    interpl = 2
    HalfMod = 8
    Jump = 4
    IntMod = 16
    JB_HISTORY_SZ = 2
    JB_HISTORY_DROPPCT = 3
    JB_HISTORY_MAXBUF_SZ = 1
    JB_ADJUST_DELAY = 1
    ShrinkEmpty = 1
    ShrinkVoice = 2
    ShrinkSilent = 1
    target_extra = 1
    resync_threshold = 3
    MaxDiscont = 1
    JB_LONGMIN <- MCLongMin
    JB_LONGMAX = 1000
    MaxNow = 6
CHECK_DEADLOCK FALSE
INVARIANTS
    TypeOK
    Sorted
    EachOnce
    OnlyVoiceDropped
    CacheFresh
    StampsRight
PROPERTIES
    VoiceInOrder
