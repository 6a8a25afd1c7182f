SPECIFICATION FairSpec
CONSTANTS
    s1 = s1
    s2 = s2
    m1 = m1
    r1 = r1
    r2 = r2
    p1 = p1
    p2 = p2
    c1 = c1
    c2 = c2
    Run = {r1, r2}
    Scheduled = {s1, s2}
    Manual = {m1}
    Target <- OneRetry
    Security = {p1, p2}
    Code = {c1, c2}
    NoOne = none
    Lease = 1
INVARIANTS IInv AttemptsDistinct MappingAgrees SuccessIsInTheList
PROPERTIES IdentityStable TakeoverOnlyByLease OrphanTakenOver
CHECK_DEADLOCK FALSE
