\* Three tests in batches of two and one; one worker dies anywhere and the budget
\* allows one replacement.
SPECIFICATION Spec
CONSTANTS
    NoGroup = NoGroup
    None = None
    Test <- MCTest
    Group <- MCGroup
    File <- MCFile
    NumWorkers = 2
    MaxRestart = 1
    NumTests = 3
    MaxFail = 0
    ReturnCode = 7
    MaxCrash = 1
    SpawnFails = FALSE
    Reorder = FALSE
    Mode = "loadfile"
    Forked = {}
    Outcomes = {"pass"}
    TeardownFails = {FALSE}
    ScopeFails = {0}
    CollectChoices <- MCAgree
INVARIANTS
    TypeOK
    OneVerdict
    OkMeansAllRan
PROPERTIES
    ImplementsScheduler
