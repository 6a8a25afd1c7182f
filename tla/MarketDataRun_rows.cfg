SPECIFICATION Spec
CONSTANTS
    s1 = s1
    s2 = s2
    b1 = b1
    t1 = t1
    r1 = r1
    r2 = r2
    Run = {r1}
    Scheduled = {}
    Backfill = {b1}
    Retry = {t1}
    Target <- Day
    NoAttempt = none
    Lease = 1
    InsertRace = {"DEADLOCK"}
    MaxStarts = 1
    MaxRevision = 2
INVARIANTS RowsAreTheWinners
CHECK_DEADLOCK FALSE
