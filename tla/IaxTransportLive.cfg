\* Both sides send, frames of unknown type included, and the timers run: the link
\* it implements, and what eventually happens
SPECIFICATION FairSpec
CONSTANTS
    a = a
    b = b
    Peers <- MCPeers
    Payloads = {"command", "unknown"}
    Quiet = {"unknown"}
    SeqMod = 4
    Window = 2
    MaxRetries = 1
    SendA = 1
    SendB = 1
    MaxSend <- MCMaxSend
    MaxNet = 1
    Failing = {a}
CHECK_DEADLOCK FALSE
PROPERTIES
    ImplementsLink
    EventuallyAccepted
    PeerLearns
