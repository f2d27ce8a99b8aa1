SPECIFICATION FairSpec
CONSTANTS
    Files = {f1}
    ListHead = ListHead
    Events = {connected, mode}
    Connection = connected
    OpMode = mode
    NoEvent = NoEvent
    Workers = {w1, w2}
    Nowhere = Nowhere
    InHandler = InHandler
    BufSize = 4
    MaxRead = 2
    Rebind = FALSE
PROPERTY ImplementsQueues
CHECK_DEADLOCK FALSE
