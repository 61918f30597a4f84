SPECIFICATION FairSpec

CONSTANTS
    MaxEvents = 2
    MaxConnections = 3
    MaxRevision = 2
    MaxLaunches = 1
    ServerRestarts = 1
    RunnerRestarts = 1

INVARIANTS
    EventsAccounted
PROPERTIES
    ImplementsEventLog
    EventsSettle
CHECK_DEADLOCK FALSE
