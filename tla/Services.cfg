\* Each of the services in memory, every operation in every order; the sessions
\* as leases under a clock that only advances; and concurrent SimpleUpdate
\* requests and task deletions.
SPECIFICATION ServicesSpec
CONSTANTS
    SessionIds = {u1, u2, u3}
    Users = {n1, n2}
    Clients = {ip}
    MaxSessions = 2
    InitTimeout = 0
    MinTimeout = 1
    MaxTimeout = 2
    TaskIds = {u1, u2, u3, u4}
    MaxTasks = 2
    Retention = 1
    Percents = {0, 255}
    OperationIds = {u1, u2, u3}
    MaxConcurrentUpdates = 1
    Callers = {c1, c2}
    TriggerIds = {u1, u2, u3}
    NoText = NoText
    MaxClock = 3
    ClockSteps <- ClockAdjusted
SYMMETRY UuidSymmetry
INVARIANTS
    TypeOK
    CapacityRespected
    OneBasicSession
    TasksBounded
    ApiTypeOK
    LocationStays
    UpdatesForLife
    LocationLeadsToIt
    DeletedTriggerGone
PROPERTIES
    ImplementsLease
    UnfinishedKept
