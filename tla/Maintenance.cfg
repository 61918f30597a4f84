SPECIFICATION Spec
CONSTANTS
    Slots = {1, 2}
    MasterKeys = {x, y}
    ServerName = "master"
    CommandName = "master"
    Backups = {1, 2, 3}
    Listed = {a}
    Bound = {g}
    Standing = {c}
    OutlineSlots = {1}
    MaximumBackups = 2
    MaxVersion = 4
    MaxRevision = 3
    MaxEpoch = 3
    MaxRestores = 2
    Workloads <- MCWorkloads
    None = None
INVARIANTS
    KeysOpenAll
    NothingReturns
PROPERTIES
    RevokedStays
    RetainsUsable
SYMMETRY Symmetry
CHECK_DEADLOCK FALSE
