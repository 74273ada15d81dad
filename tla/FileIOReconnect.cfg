SPECIFICATION Spec
CONSTANTS
    Callers = {t1}
    Unmounters = {}
    Server = server
    Conns = {c1, c2, c3}
    Nums = {n1, n2}
    NoSock = NoSock
    FixedOps = {"open"}
    MaxLen = 1
    MaxReqs = 2
SYMMETRY Symmetry
INVARIANTS AckTruthful StreamClean NoOverwrite HandleNeverStale
CHECK_DEADLOCK FALSE
