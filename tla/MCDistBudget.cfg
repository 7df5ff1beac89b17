\* One worker, two crashes, a budget of two: the replacement may die collecting.
SPECIFICATION Spec
CONSTANTS
    NoGroup = NoGroup
    None = None
    Test <- MCTest
    Group <- MCGroup
    File <- MCFile
    NumWorkers = 1
    MaxRestart = 2
    NumTests = 2
    MaxFail = 0
    ReturnCode = 7
    MaxCrash = 2
    SpawnFails = FALSE
    Reorder = FALSE
    Mode = "loadfile"
    Forked = {}
    Outcomes = {"pass"}
    TeardownFails = {FALSE}
    ScopeFails = {0}
    CollectChoices <- MCAgree
INVARIANTS
    ReplacedWhileBudgetLasts
