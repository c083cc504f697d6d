CONSTANTS
    r1 = r1
    r2 = r2
    ext = ext
    Repos <- MCRepos
    RepoOrder <- MCRepoOrder
    External = ext
    Tip = 1
    MaxModules = 2
    Faults = FALSE
    None = None
SPECIFICATION Spec
INVARIANT TaggedOnlyConsistent
\* The script ends: pc = "done" has no successor.
CHECK_DEADLOCK FALSE
