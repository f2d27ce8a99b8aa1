SPECIFICATION FairSpec
CONSTANTS
    NumMsgs = 2
    CmdLens = {8, 10, 11}
    Defects = {"syn", "type", "ctrlcrc", "ter", "cmdtype", "pldcrc", "short", "noroom"}
    Cap = 20
    Chunks = {1, 7, 20}
    MaxResets = 1
CHECK_DEADLOCK FALSE
INVARIANTS
    TypeOK
    DeliveredGenuine
    ChecksumLimitsDamage
    NothingLeftBehind
PROPERTY StreamReadOrStuck
