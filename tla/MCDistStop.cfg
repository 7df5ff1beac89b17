\* Three batches of one test, each failing or raising pytest.exit(7), --maxfail=2:
\* the limit is reached by one worker or only by the two together.
SPECIFICATION FairSpec
CONSTANTS
    NoGroup = NoGroup
    None = None
    Test <- MCTest
    Group <- MCGroup
    File <- MCFile
    NumWorkers = 2
    MaxRestart = 1
    NumTests = 3
    MaxFail = 2
    ReturnCode = 7
    MaxCrash = 0
    SpawnFails = FALSE
    Reorder = FALSE
    Mode = "worksteal"
    Forked = {}
    Outcomes = {"fail", "exit"}
    TeardownFails = {FALSE}
    ScopeFails = {0}
    CollectChoices <- MCAgree
INVARIANTS
    NoRunAfterLeave
PROPERTIES
    InterruptHonoured
