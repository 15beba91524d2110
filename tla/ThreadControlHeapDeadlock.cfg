SPECIFICATION FairSpec
CONSTANTS
    m = m
    w1 = w1
    w2 = w2
    NoThread = NoThread
    Main = m
    Threads <- ThreeThreads
    Exiters <- NoExiters
    GrowsHeap = TRUE
    FreesLive = FALSE
    SpuriousWakeups = FALSE
PROPERTIES ControlGranted
CHECK_DEADLOCK FALSE
