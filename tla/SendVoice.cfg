\* A scale of two for 20 ms, and two in place of ten; time enough for the upper
\* half of a timestamp to change once
SPECIFICATION Spec
CONSTANTS
    Frame = 2
    Window = 4
    Damp = 2
    Gap = 1
    FirstPing = 4
    PingEvery = 10
    Late = 3
    MaxElapsed = 46
    HalfMod = 34
    Jump = 18
    IntMod = 102
CHECK_DEADLOCK FALSE
INVARIANTS
    TypeOK
    Understood
PROPERTIES
    VoiceForward
