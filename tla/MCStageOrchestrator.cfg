CONSTANTS
    Provision = Provision
    Deploy = Deploy
    Verify = Verify
    Keywords <- MCKeywords
    Suites <- MCSuites
    MaxRuns = 3

SPECIFICATION Spec

INVARIANT TypeOK
INVARIANT NonRecoverableNotRerun
PROPERTY CheckpointCursorExact
CHECK_DEADLOCK FALSE
