\* "Ctrl+C to exit the application", whatever the thread is doing
SPECIFICATION FairSpec
CONSTANTS
    Main = main
    Processing = processing
    Handler = quit
    NoOne = none
    Interruptible = {main, processing}
    Nodes = {n1, n2, n3, n4, n5, n6}
    Null = null
    event_queue = event_queue
    MaxEvents = 2
    QuitEvents = 1
    MaxSections = 3
CHECK_DEADLOCK FALSE
PROPERTIES
    CtrlCExits
