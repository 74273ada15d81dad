SPECIFICATION Spec
CONSTANTS
    Callers = {t1}
    Unmounters = {}
    Server = server
    Conns = {c1, c2}
    Nums = {n1, n2}
    NoSock = NoSock
    FixedOps = {"open"}
    MaxLen = 1
    MaxReqs = 1
PROPERTY WriteIsOneStream
CHECK_DEADLOCK FALSE
