SPECIFICATION Spec
CONSTANTS
    m = m
    w1 = w1
    w2 = w2
    g1 = g1
    g2 = g2
    g3 = g3
    g4 = g4
    Null = Null
    Main = m
    First = g1
    Threads <- ThreeThreads
    Regions <- FourRegions
    Size <- Sizes
    Wants <- OneOrTwo
SYMMETRY HeapSymmetry
INVARIANTS ChainInv OneOwner
PROPERTIES ImplementsPool
