----------------------------- MODULE PayoutBooks -----------------------------
(***************************************************************************)
(* What the weekly payouts promise, as if every route were one step: jobs  *)
(* change only in weeks that are not finalized, a run that is locked takes *)
(* down the work of its week and the reimbursements filed for it as they   *)
(* are at that moment, and what is paid is exactly what it took down.      *)
(* The one thing the office cannot rely on is Reopen.                      *)
(***************************************************************************)
CONSTANTS Job, Period, Fact, Claim, None

VARIABLES
    work,     \* per job: the week and the facts of its completion
    run,      \* the run of a week
    lines,    \* what the run of a week took down
    claims,   \* reimbursements filed for a week
    paid      \* the work paid for a week

vars == <<work, run, lines, claims, paid>>

Work == [week : Period, fact : Fact]
Final == {"locked", "paid"}

Init ==
    /\ work = [j \in Job |-> None]
    /\ run = [p \in Period |-> "none"]
    /\ lines = [p \in Period |-> [work |-> {}, claims |-> {}]]
    /\ claims = [p \in Period |-> {}]
    /\ paid = [p \in Period |-> {}]

\* A job is completed, corrected or reopened, in a week that is not finalized;
\* a completed one does not move to another week.
Record(j, to) ==
    /\ work[j] # None \/ to # None
    /\ work[j] # None => run[work[j].week] \notin Final
    /\ to # None => run[to.week] \notin Final
    /\ work[j] # None /\ to # None => to.week = work[j].week
    /\ work' = [work EXCEPT ![j] = to]
    /\ UNCHANGED <<run, lines, claims, paid>>

\* A reschedule or a cancellation, which asks no run.
Reopen(j) ==
    /\ work' = [work EXCEPT ![j] = None]
    /\ UNCHANGED <<run, lines, claims, paid>>

Draft(p) ==
    /\ run[p] = "none"
    /\ run' = [run EXCEPT ![p] = "draft"]
    /\ UNCHANGED <<work, lines, claims, paid>>

\* A reimbursement is filed or withdrawn, in one week at a time.
File(p, filed) ==
    /\ run[p] = "draft"
    /\ \A q \in Period \ {p} : filed \cap claims[q] = {}
    /\ claims' = [claims EXCEPT ![p] = filed]
    /\ UNCHANGED <<work, run, lines, paid>>

WorkOf(p) == {w \in Job \X Fact : work[w[1]] = [week |-> p, fact |-> w[2]]}

Lock(p) ==
    /\ run[p] = "draft"
    /\ lines' = [lines EXCEPT ![p] = [work |-> WorkOf(p), claims |-> claims[p]]]
    /\ run' = [run EXCEPT ![p] = "locked"]
    /\ UNCHANGED <<work, claims, paid>>

Pay(p) ==
    /\ run[p] = "locked"
    /\ paid' = [paid EXCEPT ![p] = lines[p].work]
    /\ run' = [run EXCEPT ![p] = "paid"]
    /\ UNCHANGED <<work, lines, claims>>

Next ==
    \/ \E j \in Job : Reopen(j) \/ \E to \in Work \cup {None} : Record(j, to)
    \/ \E p \in Period : \/ Draft(p) \/ Lock(p) \/ Pay(p)
                         \/ \E filed \in SUBSET Claim : File(p, filed)

Spec == Init /\ [][Next]_vars
=============================================================================
