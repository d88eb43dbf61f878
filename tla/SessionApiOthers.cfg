\* Who may end the session of another user.
SPECIFICATION Spec
CONSTANTS
    SessionIds = {s1, s2}
    Users = {root, user}
    Clients = {ip}
    MaxSessions = 2
    InitTimeout = 0
    MinTimeout = 1
    MaxTimeout = 1
    MaxClock = 0
    ClockSteps <- ClockForward
    Requests = {r1, r2}
    Root = root
    Grantable = {}
    Timeouts = {0}
    Accounts0 <- RootAndReader
    Operations = {"delete"}
SYMMETRY ApiSymmetry
PROPERTIES
    OnlyOwnOrUserAdmin
