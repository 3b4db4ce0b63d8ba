SPECIFICATION FairSpec
CONSTANTS
    s1 = s1
    r1 = r1
    r2 = r2
    r3 = r3
    quote = quote
    agreement = agreement
    nothing = nothing
    Subjects <- OneSubject
    Requests <- ThreeRequests
    Values <- MCValues
    Absent = nothing
    Shapes <- MixedShapes
    MaxAttempts = 2
    Horizon = 1
INVARIANTS ChainIntact LateStampsOrdered
PROPERTIES AtomicLedger RequestsEnd
\* Every request may have ended and the clock reached its horizon.
CHECK_DEADLOCK FALSE
