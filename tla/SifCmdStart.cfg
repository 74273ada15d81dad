SPECIFICATION FairSpec
CONSTANTS
    Senders = {s1}
    QueueLen = 1
    Faults = FALSE
    StartFails = TRUE
    MaxSends = 2
    MaxOther = 0
    MaxProgs = 1
PROPERTY LatestServed
CHECK_DEADLOCK FALSE
