SPECIFICATION FairSpec
CONSTANTS
    s1 = s1
    s2 = s2
    r1 = r1
    r2 = r2
    a = a
    b = b
    NoValue = NoValue
    SpuriousWakeups = TRUE
    Senders <- TwoSenders
    Receivers <- TwoReceivers
    Values <- TwoValues
    Sends <- OwnValue
    InitMax = 3
    NewMax <- Lower
INVARIANTS QueueInv NoStandoff
PROPERTIES ImplementsChannel ReceiverServed DrainedServes
