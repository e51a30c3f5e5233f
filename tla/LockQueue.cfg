\* Two threads, and a signal that may interrupt either; the program may exit
SPECIFICATION FairSpec
CONSTANTS
    Main = main
    Processing = processing
    Handler = quit
    NoOne = none
    Interruptible = {main, processing}
    Nodes = {n1, n2, n3, n4, n5, n6}
    Null = null
    event_queue = event_queue
    MaxEvents = 2
    QuitEvents = 1
    MaxSections = 3
CHECK_DEADLOCK FALSE
INVARIANTS
    TypeOK
    Exclusive
    NoCallbackInside
    CalledBackOnce
    LostOnlyByRace
PROPERTIES
    Drained
    QuitsFromOutside
