SPECIFICATION Spec
CONSTANTS
    Events = {"power", "thermal", "vhf", "dtx"}
    Requesting = {"dtx"}
    Immediate = {"vhf"}
    NumBuffers = 2
    NumWorkers = 2
    Clients = {"san", "vhf", "dtx", "sid"}
    Machines = {{"san", "vhf"}, {"dtx", "sid"}}
INVARIANTS
    TypeOK
    RequestOnOpenDevice
    SleepingEcLeftAlone
    HandlerFindsItsData
    UnboundLeavesNothing
    FreedOnce
    LinkedDriverStays
CHECK_DEADLOCK FALSE
