SPECIFICATION FairSpec
CONSTANTS
    MaxBlocks = 4
    Flowgraphs <- Ending
    StreamCap = 2
    Clients = {}
    MaxRequests = 0
    Items = 3
    Burst = 2
    MaxCount = 5
INVARIANTS TypeOK StartTogether AllInitialized NothingLost ActiveExact ResultHonest
PROPERTIES EndsOk ErrorEnds
