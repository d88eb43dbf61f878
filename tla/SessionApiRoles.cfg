\* Logins against changes of the accounts they log in to; no time passes.
SPECIFICATION Spec
CONSTANTS
    SessionIds = {s1, s2}
    Users = {root, user}
    Clients = {ip}
    MaxSessions = 2
    InitTimeout = 0
    MinTimeout = 1
    MaxTimeout = 1
    MaxClock = 0
    ClockSteps <- ClockForward
    Requests = {r1, r2}
    Root = root
    Grantable = {"Operator"}
    Timeouts = {1}
    Accounts0 <- RootAndReader
    Operations = {"create", "patch", "remove", "timeout"}
SYMMETRY ApiSymmetry
INVARIANTS
    RoleWasHeld
    LoginRoleKept
    BasicIsReadOnly
PROPERTIES
    UsesStore
    OnlyForAdministrators
