CONSTANTS
    clean = clean
    deploy = deploy
    k0 = k0
    k1 = k1
    Names <- MCNames
    Clean = clean
    Kernels <- MCKernels
    Keywords = {"revert"}
    MaxCalls = 1
    MaxRuns = 1
    Faults = FALSE
    NoFile = NoFile

SPECIFICATION Spec
INVARIANT CleanupRestoresBaseline
CHECK_DEADLOCK FALSE
