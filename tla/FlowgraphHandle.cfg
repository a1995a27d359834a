SPECIFICATION FairSpec
CONSTANTS
    MaxBlocks = 2
    Flowgraphs <- Used
    StreamCap = 1
    Clients = {1, 2}
    MaxRequests = 2
    Items = 0
    Burst = 0
    MaxCount = 1
PROPERTIES TerminateEnds RequestsServed
CHECK_DEADLOCK FALSE
