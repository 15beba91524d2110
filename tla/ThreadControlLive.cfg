SPECIFICATION FairSpec
CONSTANTS
    m = m
    w1 = w1
    w2 = w2
    NoThread = NoThread
    Main = m
    Threads <- ThreeThreads
    Exiters <- MainExits
    GrowsHeap = FALSE
    FreesLive = FALSE
    SpuriousWakeups = TRUE
PROPERTIES ControlGranted BlockedResume ExitCompletes
