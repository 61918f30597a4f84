SPECIFICATION Spec

CONSTANTS
    r1 = r1
    r2 = r2
    c1 = c1
    Bystanders = {}
    Loners = {}
    Runs = {r1}
    Records = {c1}
    RecordOf <- OnOneRecord
    MutatingRuns = {}
    ScheduledRuns = {}
    ConnectorRuns = {}
    MaximumAttempts = 2
    Deadline = 1
    PermitSeconds = 1
    SessionSeconds = 1
    GraceSeconds = 1
    OperationSeconds = 1
    Gates = {"unit"}
    Heads = {"base", "head"}
    BaseHead = "base"
    DeliveredHeads = {"head"}
    OperationKinds = {}
    Removable = {}
    RevocationKinds = {}
    RevocableRuns = {}
    Reported = {"DELIVERED", "ESCALATED"}
    AttemptEvents = {"ACKNOWLEDGED", "PROCESS_STARTED", "PROCESS_EXITED", "FAILED_TO_START", "TIMED_OUT", "CANCELLED", "LOST"}
    Observations = {"RUNNING", "ORPHAN_TERMINATED", "UNKNOWN"}
    CheckpointReasons = {"HUMAN_INPUT"}
    Horizon = 1
    MaxFence = 1
    MaxRunnerFacts = 1
    MaxConnectorEpoch = 1
    MaxTouched = 1

INVARIANTS
    AttemptsSequential
PROPERTIES
    CompletionIsEvidenced
    TerminalIsFinal
CHECK_DEADLOCK FALSE
