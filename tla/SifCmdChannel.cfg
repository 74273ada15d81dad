SPECIFICATION FairSpec
CONSTANTS
    Senders = {s1, s2}
    QueueLen = 2
    Faults = TRUE
    StartFails = TRUE
    MaxSends = 3
    MaxOther = 1
    MaxProgs = 2
INVARIANTS TypeOK ProgramTracked RunOnce
PROPERTY ServedUnlessDeaf
CHECK_DEADLOCK FALSE
