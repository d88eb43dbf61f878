\* Two requests pass the limit's check before either is counted.
SPECIFICATION Spec
CONSTANTS
    TaskIds = {t1, t2, t3, t4}
    OperationIds = {o1, o2, o3}
    Callers = {r1, r2}
    MaxTasks = 3
    MaxConcurrentUpdates = 1
    Retention = 0
    Percents = {}
    MaxClock = 1
    ClockSteps <- ClockForward
SYMMETRY UpdateSymmetry
INVARIANTS
    ConcurrencyLimit
