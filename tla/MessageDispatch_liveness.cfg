SPECIFICATION FairSpec
CONSTANTS
  w1 = w1
  w2 = w2
  Worker <- TwoWorkers
  MaxEvents = 1
  MaxAttempts = 2
  AttemptBound = 2
  MaxFaults = 1
  MaxDefers = 0
  Recipient = {TRUE}
CHECK_DEADLOCK FALSE
PROPERTY RowsSettle
PROPERTY AttemptsSettle
