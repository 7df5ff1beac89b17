SPECIFICATION Spec
CONSTANTS
    NumWorkers = 2
    MaxRestart = 2
    Test <- MCTest
    Plans <- MCPlans
INVARIANTS
    UniquePlace
    SettledOnce
    NothingLost
    AllSettled
    IndInv
PROPERTY NoBatchAfterStop
CHECK_DEADLOCK FALSE
