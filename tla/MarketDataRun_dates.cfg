SPECIFICATION Spec
CONSTANTS
    s1 = s1
    s2 = s2
    b1 = b1
    t1 = t1
    r1 = r1
    r2 = r2
    Run = {r1, r2}
    Scheduled = {s1, s2}
    Backfill = {b1}
    Retry = {}
    Target <- Dates
    NoAttempt = none
    Lease = 1
    InsertRace = {"DEADLOCK", "DUPLICATE_KEY"}
    MaxStarts = 1
    MaxRevision = 2
INVARIANTS SuccessIsVisible IInv
CHECK_DEADLOCK FALSE
