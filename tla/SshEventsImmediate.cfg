SPECIFICATION Spec
CONSTANTS
    Works = {w1, w2}
    NoWork = NoWork
    Rqids = {vhf}
    NoHandler = NoHandler
    Delayed = {}
    Immediate = {vhf}
    NumWorkers = 2
    Removable = FALSE
INVARIANT HandlerDataAlive
