\* One side sends more frames than there are sequence numbers
SPECIFICATION Spec
CONSTANTS
    a = a
    b = b
    Peers <- MCPeers
    Payloads = {"command"}
    Quiet = {}
    SeqMod = 4
    Window = 2
    MaxRetries = 1
    SendA = 5
    SendB = 0
    MaxSend <- MCMaxSend
    MaxNet = 2
    Failing <- MCPeers
CHECK_DEADLOCK FALSE
INVARIANTS
    TypeOK
    InOrder
    NoFrameForgotten
    AckSound
    SeqNosAgree
