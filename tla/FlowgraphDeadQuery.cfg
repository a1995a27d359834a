SPECIFICATION FairSpec
CONSTANTS
    MaxBlocks = 3
    Flowgraphs <- DeadQuery
    StreamCap = 2
    Clients = {1}
    MaxRequests = 1
    Items = 1
    Burst = 0
    MaxCount = 2
PROPERTIES RequestsAnswered
CHECK_DEADLOCK FALSE
