SPECIFICATION FairSpec
CONSTANTS
    s1 = s1
    s2 = s2
    b1 = b1
    t1 = t1
    r1 = r1
    r2 = r2
    Run = {r1}
    Scheduled = {}
    Backfill = {b1}
    Retry = {t1}
    Target <- Day
    NoAttempt = none
    Lease = 1
    InsertRace = {"DEADLOCK", "DUPLICATE_KEY"}
    MaxStarts = 2
    MaxRevision = 1
INVARIANTS OneOwnerPerRun WinnerAgrees
PROPERTIES SettledIsFinal TakeoverOnlyByLease ImplementsLedger OrphanTakenOver
CHECK_DEADLOCK FALSE
