\* One worker; its test may raise pytest.exit(7).
SPECIFICATION Spec
CONSTANTS
    NoGroup = NoGroup
    None = None
    Test <- MCTest
    Group <- MCGroup
    File <- MCFile
    NumWorkers = 1
    MaxRestart = 1
    NumTests = 1
    MaxFail = 0
    ReturnCode = 7
    MaxCrash = 0
    SpawnFails = FALSE
    Reorder = FALSE
    Mode = "loadfile"
    Forked = {}
    Outcomes = {"pass", "exit"}
    TeardownFails = {FALSE}
    ScopeFails = {0}
    CollectChoices <- MCAgree
INVARIANTS
    ExitCodeKept
