SPECIFICATION FairSpec
CONSTANTS
    r1 = r1  r2 = r2  v1 = v1
    k1 = k1  k2 = k2
    email = email  sms = sms
    Nobody = Nobody
    Request <- OneRequest
    Visit <- NoVisit
    Key <- OneKey
    Channel <- TwoChannels
    MaxClaims = 3
    MaxFaults = 2
INVARIANTS SettledHonestly
PROPERTIES KeepsPromise OperationsSettle
CHECK_DEADLOCK FALSE
