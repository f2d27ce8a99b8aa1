SPECIFICATION FairSpec
CONSTANTS
    Files = {f1, f2}
    ListHead = ListHead
    Events = {connected, mode}
    Connection = connected
    OpMode = mode
    NoEvent = NoEvent
    Workers = {w1}
    Nowhere = Nowhere
    InHandler = InHandler
    BufSize = 2
    MaxRead = 1
    Rebind = FALSE
INVARIANTS
    TypeOK
    OpenFileServed
    ClientAlive
    CommandWhileActive
PROPERTY
    ReaderWoken
CHECK_DEADLOCK FALSE
