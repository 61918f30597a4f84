SPECIFICATION FairSpec
CONSTANTS
    None = None
    Projects = {p1}
    Items = {1, 2}
    PageSize = 1
    Deliveries = {}
    MaxVersion = 2
    Workloads = {{p1, "SCAN", "CHANGE"}}
PROPERTY NotLeftStale
CHECK_DEADLOCK FALSE
