SPECIFICATION Spec
CONSTANTS
  w1 = w1
  w2 = w2
  Worker <- TwoWorkers
  MaxEvents = 1
  MaxAttempts = 2
  AttemptBound = 3
  MaxFaults = 1
  MaxDefers = 1
  Recipient = {TRUE, FALSE}
SYMMETRY WorkerSymmetry
INVARIANT TypeOK
INVARIANT CallsOncePerAttempt
INVARIANT NoEffectAfterDeletion
INVARIANT LedgerIsHonest
INVARIANT SentIsSucceeded
INVARIANT AttemptsLeft
PROPERTY AttemptsOnlyAdvance
CHECK_DEADLOCK FALSE
