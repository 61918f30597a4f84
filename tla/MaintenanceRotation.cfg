SPECIFICATION FairSpec
CONSTANTS
    Slots = {1}
    MasterKeys = {x}
    ServerName = "master"
    CommandName = "key"
    Backups = {}
    Listed = {}
    Bound = {}
    Standing = {}
    OutlineSlots = {}
    MaximumBackups = 1
    MaxVersion = 3
    MaxRevision = 3
    MaxEpoch = 1
    MaxRestores = 0
    Workloads <- MCRotation
    None = None
PROPERTIES RotationCompletes
CHECK_DEADLOCK FALSE
