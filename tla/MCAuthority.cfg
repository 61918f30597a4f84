SPECIFICATION Spec

CONSTANTS
    r1 = r1
    r2 = r2
    c1 = c1
    Bystanders = {r3}
    Loners = {r4}
    Runs = {r1, r2, r3, r4}
    Records = {c1}
    RecordOf <- OnOneRecord
    MutatingRuns = {r1, r2, r3}
    ScheduledRuns = {r2}
    ConnectorRuns = {r1}
    MaximumAttempts = 1
    Deadline = 1
    PermitSeconds = 1
    SessionSeconds = 1
    GraceSeconds = 1
    OperationSeconds = 1
    Gates = {}
    Heads = {"base"}
    BaseHead = "base"
    DeliveredHeads = {}
    OperationKinds = {"MUTATE_GITHUB", "EXECUTE_LOCAL_GATE"}
    Removable = {"DISPATCHER"}
    RevocationKinds = {"DISPATCHER", "CONNECTOR", "RUNNER", "EXPOSURE"}
    RevocableRuns = {r1}
    Reported = {}
    AttemptEvents = {"LOST"}
    Observations = {}
    CheckpointReasons = {"RECOVERY"}
    Horizon = 1
    MaxFence = 2
    MaxRunnerFacts = 2
    MaxConnectorEpoch = 2
    MaxTouched = 1

CONSTRAINT FewTouched

INVARIANTS
    MutationGuarded
    GuardHeldForSomeone
    AuthorityEndsTogether
PROPERTIES
    ImplementsGuard
    OperationsWithinAuthority
CHECK_DEADLOCK FALSE
