CONSTANTS
    Scenarios <- MCScenarios
    MaxEvents = 7
SPECIFICATION Spec
INVARIANT TypeOK
INVARIANT ExitCodeHonest
INVARIANT LastFailedTrue
INVARIANT LfExact
INVARIANT StepwiseSkipsOnlyPassed
INVARIANT ReorderOK
INVARIANT SplitPartition
INVARIANT CleanEnd
INVARIANT MarkIdsUnique
INVARIANT PluginsOnce
