SPECIFICATION MembershipSpec
CONSTANTS
    Members = {o1, o2, n}
    Owners = {o1, o2}
    Sessions = {s1, s2, s3}
    Passkeys = {p1, p2, p3}
    Challenges = {x1, x2}
    Invitations = {i1, i2}
    Identities = {e1}
    Families = {f1}
    Codes = {k1}
    Keys = {r1}
    Runners = {r1, r2}
    Pairings = {q1, q2}
    Acknowledgements = {a1, a2}
    Exposures = {v1, v2}
    Launches = {l1}
    Tokens = {t1, t2}
    Proofs = {j1, j2}
    Clients = {a, b}
    Workloads = {
        {"ROLE", "REMOVE"},
        {"AUTHENTICATE", "REMOVE", "ROTATE", "REVOKE_PASSKEY"},
        {"BOOTSTRAP", "REGISTER", "LAPSE"},
        {"INVITE", "EXCHANGE", "REGISTER", "ACCEPT", "ACCEPT_PROVIDER", "REVOKE_INVITATION"},
        {"INVITE", "EXCHANGE", "ACCEPT_PROVIDER", "LINK", "REMOVE"},
        {"REGISTER", "GENERATE", "REDEEM", "REMOVE"},
        {"HOST_RECOVERY", "REGISTER"},
        {"DEVICE", "REMOVE"},
        {"DEVICE", "ROLE"},
        {"DEVICE", "LAPSE", "ROTATE"},
        {"PAIR", "CONSUME", "OFFBOARD", "REVOKE", "DEVICE"},
        {"PAIR", "CONSUME", "TIME"},
        {"RUNNER", "MAP", "EXPOSE", "POLICY"},
        {"RUNNER", "PROFILE", "EXPOSE", "POLICY"},
        {"RUNNER", "EXPOSE", "POLICY", "REVOKE", "OFFBOARD"},
        {"RUNNER", "EXPOSE", "POLICY", "LAUNCH", "ATTEMPT"},
        {"RUNNER", "MAP", "PROFILE", "LAUNCH", "ATTEMPT", "OFFBOARD"},
        {"RUNNER", "ACCESS", "HEARTBEAT", "TIME", "RESTART", "REVOKE", "OFFBOARD"},
        {"RUNNER", "ACCESS", "HEARTBEAT", "MAP"}}
    MaxGeneration = 2
    MaxRefreshes = 2
    MaxRevision = 2
    MaxPolicy = 3
    Horizon = 3
    None = None
INVARIANTS
    OwnerRemains
    RemovedHoldsNothing
    AcceptedOnce
    RevokedHoldsNothing
PROPERTIES
    StaysWithdrawn
    ConsumedIsAllowed
SYMMETRY Symmetry
CHECK_DEADLOCK FALSE
