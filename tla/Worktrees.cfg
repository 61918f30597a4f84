SPECIFICATION WorktreesSpec
CONSTANTS
    MaxCommit = 2
    MaxEdits = 2
    MaxRevision = 2
    MaxBranch = 2
    Claims = {c1, c2}
    Kinds = {"PUBLISH", "CLEANUP", "RETAINED_PUBLISH", "DISCARD"}
INVARIANTS
    WorkSurvives
PROPERTIES
    PushesWhatWasAuthorized
CHECK_DEADLOCK FALSE
