\* One forked and one spawned worker that may collect differently, up to three
\* crashes on a budget of one, spawns that may fail, scope teardowns that fail.
SPECIFICATION FairSpec
CONSTANTS
    NoGroup = NoGroup
    None = None
    Test <- MCTest
    Group <- MCGroup
    File <- MCOneFile
    NumWorkers = 2
    MaxRestart = 1
    NumTests = 2
    MaxFail = 0
    ReturnCode = 7
    MaxCrash = 3
    SpawnFails = TRUE
    Reorder = FALSE
    Mode = "loadfile"
    Forked = {1}
    Outcomes = {"pass"}
    TeardownFails = {FALSE}
    ScopeFails = {1}
    CollectChoices <- MCDiffer
INVARIANTS
    NothingLeftBehind
    MismatchRunsNothing
PROPERTIES
    SilentAfterAbort
    FailureSurfaces
    Termination
