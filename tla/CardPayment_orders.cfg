SPECIFICATION OneMatches
CONSTANTS
    p1 = p1  a1 = a1  a2 = a2  o1 = o1  o2 = o2  w1 = w1
    None = None
    Stranger = Stranger
    Review = Review
    Sweep = Sweep
    Appt <- OneAppt
    Home <- Shared
    Request <- OneRequest
    Attempt <- OneAttempt
    Order <- TwoOrders
    MaxFaults = 0
INVARIANTS LedgerIsBacked
PROPERTIES ReferencesStay ChargeIsNoticed
CHECK_DEADLOCK FALSE
