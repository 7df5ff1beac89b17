SPECIFICATION Spec
CONSTANTS
    Suites <- MCSuites
    Modes = {"local", "worker"}
    MaxFails = {0, 1}
    Stepwises = {TRUE, FALSE}
    Reruns = {0, 2}
    MaxFaults = 2
    MaxValue = 20
INVARIANTS
    TypeOK
    UsesLive
    OneValueAtATime
    AllTornDown
    LoopsOutliveFixtures
    HookSawFinal
    XunitReady
PROPERTIES
    Implements
    Finishes
CHECK_DEADLOCK FALSE
