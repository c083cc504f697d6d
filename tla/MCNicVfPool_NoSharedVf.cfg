CONSTANTS
    p1 = p1
    p2 = p2
    v1 = v1
    v2 = v2
    Procs <- MCProcs
    Vfs <- MCVfs
    PoolOrder <- MCPoolOrder
    Requests <- MCRequests
    MaxCalls = 2
    Faults = FALSE

SPECIFICATION Spec
INVARIANT NoSharedVf
CHECK_DEADLOCK FALSE
