SPECIFICATION FairSpec
CONSTANTS
    d1 = d1
    d2 = d2
    r1 = r1
    Daily = {d1, d2}
    Resend = {r1}
    Retries = 1
    InsertRace = {"DEADLOCK", "DUPLICATE_KEY"}
    MaxRevision = 1
INVARIANTS IInv OneSenderAtATime NotifiedIsNewestSuccess AutomaticOnceUnlessReopened
PROPERTIES SnapshotFrozen DailyRunsEnd
CHECK_DEADLOCK FALSE
