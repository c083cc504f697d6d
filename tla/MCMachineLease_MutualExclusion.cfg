CONSTANTS
    p1 = p1
    p2 = p2
    m1 = m1
    m2 = m2
    Procs <- MCProcs
    Machines <- MCMachines
    MaxRuns = 2
    MaxInodes = 5
    Crashes = FALSE
    NoMachine = NoMachine
    NoHolder = NoHolder

SPECIFICATION Spec


CHECK_DEADLOCK FALSE
INVARIANT MutualExclusion
