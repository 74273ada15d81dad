SPECIFICATION Spec
CONSTANTS
    Callers = {t1, t2}
    Unmounters = {u1}
    Server = server
    Conns = {c1}
    Nums = {n1}
    NoSock = NoSock
    FixedOps = {}
    MaxLen = 0
    MaxReqs = 2
SYMMETRY Symmetry
INVARIANTS TypeOK SemaExclusion
PROPERTY ImplementsHostRPC
CHECK_DEADLOCK FALSE
