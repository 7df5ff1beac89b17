\* --dist each with two workers and two tests.
SPECIFICATION Spec
CONSTANTS
    NumWorkers = 2
    MaxRestart = 0
    MaxItems = 2
    NoGroup = NoGroup
    Test <- MCTest
    Jobs <- MCJobs
    MCModes = {"each"}
INVARIANT EachEverywhere
CHECK_DEADLOCK FALSE
