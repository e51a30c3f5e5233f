\* No address is used again while a final frame points to it
SPECIFICATION Spec
CONSTANTS
    Addresses = {m1, m2, m3}
    NULL = NULL
    Appearances = {c1, c2}
    MaxSessions = 3
    Reuse = FALSE
SYMMETRY Symmetry
CHECK_DEADLOCK FALSE
INVARIANTS
    TypeOK
    PointersValid
    RetransmitsOnOwn
PROPERTIES
    NoneLeaked
