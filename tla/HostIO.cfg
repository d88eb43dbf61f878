\* Every kill, failed call and power cut at every point of a boot; one
\* connection, both directions, either end leaving at any time; subscriptions
\* that change under the events sent to them; and callers that race to start
\* updates.  A connection comes to rest with both ends closed, or when
\* everyone waits for a peer that neither sends nor reads.
SPECIFICATION HostSpec
CONSTANTS
    Uuids = {u1, u2, u3, u4}
    Missing = Missing
    Torn = Torn
    Window = 1
    Buffer = 2
    MaxUp = 3
    MaxDown = 4
    SubscriptionIds = {s1, s2}
    MaxSubscriptions = 1
    EventIds = {e1, e2}
    Asked <- SomeTypes
    Submitted = {"StatusChange", "Unknown"}
    Attempts <- SomeAttempts
    Intervals <- SomeIntervals
    Callers = {c1, c2, c3}
    OperationIds = {o1, o2, o3}
    MaxConcurrentUpdates = 1
    MaxClock = 2
    ClockSteps <- ClockAdjusted
CHECK_DEADLOCK FALSE
INVARIANTS
    NeverTorn
    ProxyTypeOK
    NothingLost
    EventTypeOK
    DeliveredAsAsked
    ActiveWithinRace
PROPERTIES
    StoredUuidKept
    UuidStableUnlessTorn
    ImplementsStreams
    InputArrives
    HandlerReturns
    ImplementsFanout
    OthersNotHeldUp
