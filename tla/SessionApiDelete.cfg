\* Logins, logouts and expiry, interleaved, under a clock that is also set back.
SPECIFICATION Spec
CONSTANTS
    SessionIds = {s1, s2}
    Users = {root, user}
    Clients = {ip}
    MaxSessions = 2
    InitTimeout = 0
    MinTimeout = 1
    MaxTimeout = 1
    MaxClock = 1
    ClockSteps <- ClockAdjusted
    Requests = {r1, r2}
    Root = root
    Grantable = {}
    Timeouts = {0, 1}
    Accounts0 <- RootAndLocked
    Operations = {"delete", "get", "list", "timeout"}
SYMMETRY ApiSymmetry
INVARIANTS
    ApiTypeOK
    DeletedIsGone
PROPERTIES
    EndsOnlyByDelete
    RemovedStaysRemoved
