SPECIFICATION Spec
CONSTANTS
    m = m
    w1 = w1
    w2 = w2
    NoThread = NoThread
    Main = m
    Threads <- ThreeThreads
    Exiters <- NoExiters
    GrowsHeap = TRUE
    FreesLive = TRUE
    SpuriousWakeups = TRUE
SYMMETRY WorkerSymmetry
INVARIANTS IInv Exclusive NARthreadsExact QueueExact MasterExact
CHECK_DEADLOCK FALSE
