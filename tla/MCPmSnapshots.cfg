CONSTANTS
    clean = clean
    deploy = deploy
    k0 = k0
    k1 = k1
    Names <- MCNames
    Clean = clean
    Kernels <- MCKernels
    Keywords = {"create", "revert", "recreate", "remove", "reboot", "install"}
    MaxCalls = 3
    MaxRuns = 2
    Faults = TRUE
    NoFile = NoFile

SPECIFICATION Spec
INVARIANT TypeOK
INVARIANT ReleasedMachineReservable
PROPERTY RevertBootsSnapshotKernel
CHECK_DEADLOCK FALSE
