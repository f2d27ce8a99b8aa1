SPECIFICATION FairSpec
CONSTANTS
    Works = {w1, w2}
    NoWork = NoWork
    Rqids = {dtx, pwr}
    NoHandler = NoHandler
    Delayed = {pwr}
    Immediate = {}
    NumWorkers = 2
    Removable = FALSE
INVARIANTS
    TypeOK
    FreedAfterLastUse
    HandlerDataAlive
PROPERTIES
    EventFreed
    ClientRemoved
