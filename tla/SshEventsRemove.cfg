SPECIFICATION FairSpec
CONSTANTS
    Works = {w1, w2, w3}
    NoWork = NoWork
    Rqids = {dtx}
    NoHandler = NoHandler
    Delayed = {}
    Immediate = {dtx}
    NumWorkers = 2
    Removable = TRUE
INVARIANT SilentAfterClose
PROPERTY DriverRemoved
