SPECIFICATION TriesFairSpec
CONSTANTS
    Ids = {r1, r2}
    NoRqst = NoRqst
    NumRetry = 3
    SeqMod = 2
    EventMod = 2
    RqstMod = 2
    FifoCap = 2
    RspLen = 2
    WireCap = 2
    Quiet = TRUE
INVARIANTS
    TypeOK
    CompletionAssuresPacket
    RspStageReadsResponse
    FifoEmptyBetweenRequests
    AcceptedIsForRequest
    OutcomeTruthful
    ResponseIsNoEvent
    ReliableLineSucceeds
PROPERTIES
    ImplementsCommand
    CallsEnd
