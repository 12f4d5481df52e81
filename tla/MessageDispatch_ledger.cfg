SPECIFICATION Spec
CONSTANTS
  w1 = w1
  w2 = w2
  Worker <- TwoWorkers
  MaxEvents = 2
  MaxAttempts = 2
  AttemptBound = 2
  MaxFaults = 1
  MaxDefers = 0
  Recipient = {TRUE}
SYMMETRY WorkerSymmetry
INVARIANT AtMostOneEffect
INVARIANT ProcessedIsQuiet
INVARIANT QueuedHasRow
CHECK_DEADLOCK FALSE
PROPERTY KeepsPromise
