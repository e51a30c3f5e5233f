\* malloc may return any address that was freed
SPECIFICATION Spec
CONSTANTS
    Addresses = {m1, m2}
    NULL = NULL
    Appearances = {c1, c2}
    MaxSessions = 3
    Reuse = TRUE
SYMMETRY Symmetry
CHECK_DEADLOCK FALSE
PROPERTIES
    FinalDestroysItsOwn
