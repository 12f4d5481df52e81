------------------------------ MODULE MCPayout ------------------------------
(* Instances of Payout for TLC.                                             *)
EXTENDS Payout, TLC

CONSTANTS j1, j2, m1, m2, f1, f2, c1, e1, e2, e3

OneJob == {j1}
TwoJobs == {j1, j2}
OnePeriod == {m1}
TwoPeriods == {m1, m2}
OneFact == {f1}
TwoFacts == {f1, f2}
OneClaim == {c1}
TwoExecs == {e1, e2}
ThreeExecs == {e1, e2, e3}

\* Executions, weeks, facts and jobs are alike.
Alike == Permutations(Exec) \cup Permutations(Period) \cup Permutations(Fact)
         \cup Permutations(Job)
=============================================================================
