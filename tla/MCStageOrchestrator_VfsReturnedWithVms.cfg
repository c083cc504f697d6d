CONSTANTS
    Provision = Provision
    Deploy = Deploy
    Verify = Verify
    Keywords <- MCKeywords
    Suites <- MCSuites
    MaxRuns = 3

SPECIFICATION Spec

CHECK_DEADLOCK FALSE
INVARIANT VfsReturnedWithVms
