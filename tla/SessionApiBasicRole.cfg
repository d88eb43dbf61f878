\* A Basic session's role is not the role of its account.
SPECIFICATION Spec
CONSTANTS
    SessionIds = {s1, s2}
    Users = {root, user}
    Clients = {ip}
    MaxSessions = 2
    InitTimeout = 0
    MinTimeout = 1
    MaxTimeout = 1
    MaxClock = 1
    ClockSteps <- ClockForward
    Requests = {r1, r2}
    Root = root
    Grantable = {}
    Timeouts = {0}
    Accounts0 <- RootAndReader
    Operations = {"get"}
INVARIANTS
    BasicRolePopulated
