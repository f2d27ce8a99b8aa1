SPECIFICATION FairSpec
CONSTANTS
    Events = {"dtx"}
    Requesting = {"dtx"}
    Immediate = {}
    NumBuffers = 1
    NumWorkers = 1
    Clients = {"dtx", "sid"}
    Machines = {{"dtx"}, {"sid"}}
PROPERTY ExitEndsOrStuck
CHECK_DEADLOCK FALSE
