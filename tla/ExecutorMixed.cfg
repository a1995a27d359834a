\* Two blocks on one of two workers; map_block() with up to nine blocks.
SPECIFICATION FairSpec
CONSTANTS
    timer = timer
    W = 2
    T = 3
    Home <- MixedHome
    Threads = {timer}
    BlockCounts = {0, 1, 2, 3, 4, 5, 6, 7, 8, 9}
    CoreCounts = {1, 2, 3, 4, 5}
INVARIANTS TypeOK SleepersConsistent TasksConserved LocalNotForgotten GlobalNotForgotten
PROPERTIES BlocksRun GlobalTasksRunAtRest
