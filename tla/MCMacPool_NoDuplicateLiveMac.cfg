CONSTANTS
    p1 = p1
    p2 = p2
    a1 = a1
    a2 = a2
    a3 = a3
    Procs <- MCProcs
    Macs <- MCMacs
    RetryCount = 2
    MaxRuns = 2
    DestroyMayFail = TRUE
    NoMac = NoMac
    NoProc = NoProc

SPECIFICATION Spec
INVARIANT NoDuplicateLiveMac
CHECK_DEADLOCK FALSE
