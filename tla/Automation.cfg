SPECIFICATION AutomationSpec
CONSTANTS
    None = None
    Presets = {p1}
    Recipes = {c1}
    Runs = {r1}
    MaxVersion = 2
    MaxFacts = 2
    Candidates <- MCCandidates
    Contexts <- MCContexts
    MaxCandidates = 4
    Clients = {m1, m2}
    Keys = {k1, k2}
    MaxSent = 2
    Events = {e1, e2}
    Evaluations = {v1, v2, v3}
    Sources = {s1, s2}
    Policies <- MCPolicies
    MaxAttempts = 2
    MaxAnonymous = 1
    Workloads = {
        {"PRESETS", "RECIPES", "EDIT", "ARCHIVE", "LAUNCH", "POLICY", "MAPPING", "REVOKE", "EXPOSURE"},
        {"PRESETS", "RECIPES", "EDIT", "ARCHIVE", "LAUNCH", "DEFAULT"},
        {"PRESETS", "RECIPES", "ARCHIVE", "LAUNCH", "PRESET"},
        {"DRAFT", "COPY", "RUN_TEMPLATE", "REMOVE"},
        {"WORKFLOW_TEMPLATE", "PROJECT", "REMOVE"},
        {"LOOP"},
        {"ASSEMBLE"}}
INVARIANTS
    KeptAsShown
    NothingWithdrawnIsStored
    EnvelopeFits
    RequestsCountOnce
    LoopCounts
CHECK_DEADLOCK FALSE
