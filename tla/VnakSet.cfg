\* What a VNAK has sent again, with sequence numbers wrapping around
SPECIFICATION Spec
CONSTANTS
    Modulus = 8
    Window = 3
    Old = 2
CHECK_DEADLOCK FALSE
INVARIANTS
    ResendsUnacked
    AscendingUnwrapped
