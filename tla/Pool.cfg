SPECIFICATION LiveSpec
CONSTANTS
    N = 2
    MaxThreads = 3
    MaxGraphs = 3
    GraphWrap = 4
    PassedWrap = 2
    NoThread = NoThread
    NChunks = 4
    PerThread = 2
    Graphs <- Mixed
INVARIANTS QuietPool NoMissedWake
PROPERTIES Implements CallsReturn
CHECK_DEADLOCK FALSE
