SPECIFICATION Spec
CONSTANTS
    r1 = r1  r2 = r2  v1 = v1
    k1 = k1  k2 = k2
    email = email  sms = sms
    Nobody = Nobody
    Request <- TwoRequests
    Visit <- OneVisit
    Key <- OneKey
    Channel <- OneChannel
    MaxClaims = 3
    MaxFaults = 1
SYMMETRY Alike
INVARIANTS TypeOK OneSendAtATime ReceiptMatches ClosedMeansClosed DeletedIsQuiet
PROPERTIES OperationsOnlyAdvance
CHECK_DEADLOCK FALSE
