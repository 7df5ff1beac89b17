SPECIFICATION Spec
CONSTANTS
    Suites <- MCStale
    Modes = {"worker"}
    MaxFails = {0}
    Stepwises = {FALSE}
    Reruns = {0}
    MaxFaults = 0
    MaxValue = 20
INVARIANTS
    UsesCurrent
CHECK_DEADLOCK FALSE
