SPECIFICATION Spec
CONSTANTS
    Ids = {i1, i2}
    NoRqst = NoRqst
    PerfModes = {normal, battery}
    OpModes = {tablet, laptop}
    Tablet = tablet
    Laptop = laptop
    RqstRetry = 2
    AsIs = AsIs
    DtxWorkers = {w1, w2}
    MaxPending = 1
    Machines = {{"san", "dtx", w1}, {"san", "dtx", w2}, {"dtx", w1, w2}, {"sid"}}
INVARIANTS
    TypeOK
    FirmwareToldTruth
    ExitModeApplied
    ModeReported
SYMMETRY Symmetry
CHECK_DEADLOCK FALSE
