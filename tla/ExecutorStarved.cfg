SPECIFICATION FairSpec
CONSTANTS
    timer = timer
    W = 2
    T = 2
    Home <- OneHome
    Threads = {timer}
    BlockCounts = {1}
    CoreCounts = {2}
PROPERTIES GlobalTasksRun
