SPECIFICATION ConnectorsSpec
CONSTANTS
    Members = {m}
    Attempts = {a}
    Keys = {k1, k2}
    Permits = {p}
    References = {r, s}
    Observations = {o1, o2}
    Clients = {c, d}
    Workloads = {
        {"MEMBER", "OBSERVE"},
        {"MEMBER", "REMOVE", "EPOCH", "RESTART"},
        {"ATTEMPT", "PERMIT", "EPOCH", "RESTART"},
        {"MEMBER", "RECOVER", "REMOVE", "EPOCH"},
        {"ATTEMPT", "RECOVER", "RESTART"},
        {p1, "SCAN", "CHANGE", "CRASH"},
        {p1, "SCAN", "CHANGE", "FAILURES"},
        {p1, "WEBHOOK", "FAILURES", "CRASH"},
        {p1, p2, "WEBHOOK", "CRASH"},
        {p1, "SCAN", "WEBHOOK", "CRASH"},
        {p1, "WEBHOOK", "CRASH", "EPOCH"},
        {p1, "SCAN", "CRASH", "EPOCH"}}
    MaxContent = 2
    MaxEpoch = 2
    Projects = {p1, p2}
    Items = {1, 2, 3}
    PageSize = 2
    Deliveries = {d1}
    MaxVersion = 2
    None = None
INVARIANTS
    ResultsAgree
    ScansAreTrue
PROPERTIES
    CommitsUnderItsAuthority
    NoLostUpdate
SYMMETRY Symmetry
CHECK_DEADLOCK FALSE
