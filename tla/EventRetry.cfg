\* One failed connection, and the event is given up.
SPECIFICATION HostSpec
CONSTANTS
    Uuids = {u1}
    Missing = Missing
    Torn = Torn
    Window = 1
    Buffer = 1
    MaxUp = 0
    MaxDown = 0
    SubscriptionIds = {s1}
    MaxSubscriptions = 1
    EventIds = {e1}
    Asked <- SomeTypes
    Submitted = {"StatusChange", "Unknown"}
    Attempts <- SomeAttempts
    Intervals <- SomeIntervals
    Callers = {c1}
    OperationIds = {o1}
    MaxConcurrentUpdates = 1
    MaxClock = 0
    ClockSteps <- ClockAdjusted
CHECK_DEADLOCK FALSE
PROPERTIES
    RetriedUntilArrived
