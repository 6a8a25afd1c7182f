SPECIFICATION Spec
CONSTANTS
    p1 = p1
    p2 = p2
    p3 = p3
    Process = {p1, p2}
    Rate = 2
    Window = 4
    Interval = 1
    RedisFails = TRUE
    MaxTime = 8
    MaxCalls = 4
SYMMETRY Processes
INVARIANTS IInv
PROPERTIES RecordedIsThrottle
CHECK_DEADLOCK FALSE
