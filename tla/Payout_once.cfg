SPECIFICATION Spec
CONSTANTS
    j1 = j1  j2 = j2  m1 = m1  m2 = m2  f1 = f1  f2 = f2  c1 = c1  e1 = e1  e2 = e2  e3 = e3
    None = None
    Job <- OneJob
    Period <- TwoPeriods
    Fact <- OneFact
    Claim <- OneClaim
    Exec <- TwoExecs
    MaxFaults = 0
INVARIANT PaidOnce
