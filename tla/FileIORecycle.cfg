SPECIFICATION Spec
CONSTANTS
    Callers = {t1}
    Unmounters = {}
    Server = server
    Conns = {c1, c2, c3}
    Nums = {n1, n2}
    NoSock = NoSock
    FixedOps = {"open"}
    MaxLen = 0
    MaxReqs = 1
SYMMETRY Symmetry
INVARIANT StreamCleanAlways
CHECK_DEADLOCK FALSE
