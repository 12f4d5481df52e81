SPECIFICATION Spec
CONSTANTS
    p1 = p1  a1 = a1  a2 = a2  o1 = o1  o2 = o2  w1 = w1
    None = None
    Stranger = Stranger
    Review = Review
    Sweep = Sweep
    Appt <- OneAppt
    Home <- Shared
    Request <- OneRequest
    Attempt <- TwoAttempts
    Order <- OneOrder
    MaxFaults = 1
SYMMETRY Alike
INVARIANTS TypeOK OneWayToPay
PROPERTIES NoSecondCharge
CHECK_DEADLOCK FALSE
