SPECIFICATION Spec
CONSTANTS
    t1 = t1
    t2 = t2
    Thread = {t1, t2}
    NoThread = none
    Rate = 2
    Window = 5
    Interval = 2
    MaxTime = 14
SYMMETRY Threads
INVARIANTS WindowKept IInv
PROPERTIES ImplementsThrottle
CHECK_DEADLOCK FALSE
