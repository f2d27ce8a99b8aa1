SPECIFICATION Spec
CONSTANTS
    Works = {w1, w2}
    NoWork = NoWork
    Rqids = {san}
    NoHandler = NoHandler
    Delayed = {san}
    Immediate = {}
    NumWorkers = 2
    Removable = TRUE
INVARIANT DestroyFlushesAll
