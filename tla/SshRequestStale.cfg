SPECIFICATION Spec
CONSTANTS
    Ids = {r1, r2}
    NoRqst = NoRqst
    NumRetry = 3
    SeqMod = 8
    EventMod = 2
    RqstMod = 8
    FifoCap = 4
    RspLen = 2
    WireCap = 2
    Quiet = FALSE
INVARIANT AcceptedIsForRequest
