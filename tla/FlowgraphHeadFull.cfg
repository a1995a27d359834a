SPECIFICATION FairSpec
CONSTANTS
    MaxBlocks = 3
    Flowgraphs <- HeadFull
    StreamCap = 2
    Clients = {}
    MaxRequests = 0
    Items = 3
    Burst = 0
    MaxCount = 5
PROPERTIES EndsOk
CHECK_DEADLOCK FALSE
