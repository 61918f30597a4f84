\* One attempt, three connections, a restart of either side.
CONSTANTS
    Attempts = {a1}
    MaxConnections = 3
    MaxRestarts = 1
SPECIFICATION Spec
INVARIANTS
    LaunchIsKept
PROPERTIES
    ImplementsLaunchOnce
    ChainsAreWorkedOff
\* The bounds are used up and everything is settled.
CHECK_DEADLOCK FALSE
