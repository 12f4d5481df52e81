SPECIFICATION Spec
CONSTANTS
  w1 = w1
  w2 = w2
  Worker <- OneWorker
  MaxEvents = 1
  MaxAttempts = 3
  AttemptBound = 4
  MaxFaults = 1
  MaxDefers = 1
  Recipient = {TRUE}
CHECK_DEADLOCK FALSE
INVARIANT AcceptedOnce
