SPECIFICATION FairSpec
CONSTANTS
    Callers = {t1}
    Unmounters = {u1}
    Server = server
    Conns = {c1, c2}
    Nums = {n1, n2}
    NoSock = NoSock
    FixedOps = {}
    MaxLen = 1
    MaxReqs = 1
PROPERTIES CallsReturn UnmountCompletes
CHECK_DEADLOCK FALSE
