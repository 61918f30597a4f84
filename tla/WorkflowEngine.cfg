SPECIFICATION FairSpec
CONSTANTS
    Executions = {x1}
    Definitions <- MCDefinitions
    MaxRuns = 3
    MaxRecord = 4
    MaxCrashes = 1
INVARIANTS
    ConcurrencyBounded
    StoppedChildrenAreCancelled
    LosersAreCancelled
PROPERTIES
    MovesStand
    ExecutionsSettle
CHECK_DEADLOCK FALSE
