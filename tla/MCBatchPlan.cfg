\* Two workers, up to five items by scope, up to 25 without scopes.
SPECIFICATION Spec
CONSTANTS
    NumWorkers = 2
    MaxRestart = 0
    MaxItems = 5
    NoGroup = NoGroup
    Test <- MCTest
    Jobs <- MCJobs
    MCModes = {"load", "worksteal", "loadscope", "loadfile", "loadgroup"}
INVARIANTS
    Partitioned
    ScopesTogether
    NeighboursTogether
CHECK_DEADLOCK FALSE
