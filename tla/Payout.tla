------------------------------- MODULE Payout -------------------------------
(***************************************************************************)
(* Commissions and weekly payout runs (commissions.ts).  A completed job   *)
(* earns commissions in the week of its completion.  A run of that week is *)
(* created as a draft, takes reimbursements, is locked, which recalculates *)
(* every job of the week and writes the lines, and is paid, which books    *)
(* the payroll expense.  Job routes (status, final-total, sold-by) lock    *)
(* the job's row, then the week, and refuse a finalized week; listings and *)
(* settings recalculate outside of the week's lock; a reschedule, a        *)
(* calendar cancellation and a customer's reply take no lock of the week.  *)
(* Quotes are left out: one has no total, and the select of the route that *)
(* would convert it is refused by PostgreSQL (README.md, section 5).       *)
(*                                                                         *)
(* A fact stands for what the commissions of a completed job are computed  *)
(* from: total, crew and seller (the rates are constants of the code, and  *)
(* all recipients are active).  A completion time is its week; it matters  *)
(* only while the job is completed, and the time zone does not change.     *)
(* Versions a request states, its idempotency claim, the report's HTML and *)
(* the lock on the settings row, which every job route takes just before   *)
(* the week's, are left out; the locks of the report and of the run's row  *)
(* are taken with the week's and held as long, so one lock stands for the  *)
(* three.  Locks are not variables: who holds one shows in exec.           *)
(***************************************************************************)
EXTENDS Naturals, FiniteSets

CONSTANTS
    Job,        \* appointments
    Period,     \* payout weeks
    Fact,       \* what commissions are computed from
    Claim,      \* reimbursements
    Exec,       \* executions of a route
    None,       \* not completed; no row; no value
    MaxFaults   \* bound: executions that die

ASSUME NameAssumption == None \notin Job \cup Period \cup Fact
ASSUME FaultAssumption == MaxFaults \in Nat

Work == [week : Period, fact : Fact]
ASSUME WorkAssumption == None \notin Work

Status == {"none", "draft", "locked", "paid"}
Final == {"locked", "paid"}
Rows == [work : SUBSET (Job \X Fact), claims : SUBSET Claim]

VARIABLES
    work,       \* per job: week and facts while it is completed
    commission, \* appointment_commissions of a job: the fact they stand for
    run,        \* payout_runs.status of a week
    lines,      \* payout_run_lines of a week: the work and claims they add up
    claims,     \* payout_run_adjustments of a week
    expense,    \* the payroll expense of a week: the work it pays
    exec,       \* per execution: where it is and what it holds
    faults,     \* budget spent
    strays      \* history: jobs reopened in a finalized week, with the week

vars == <<work, commission, run, lines, claims, expense, exec, faults, strays>>

\* Save: a job route.  Close: lockPayoutRun.  Tally: recalculation outside of it.
Place == {"idle", "period", "commission", "read", "write", "end"}
Kind == {"none", "save", "close", "tally"}
Steps == [at : Place, kind : Kind, job : Job \cup {None}, to : Work \cup {None},
          week : Period \cup {None}, todo : SUBSET Job, held : SUBSET Job,
          got : [Job -> Fact \cup {None}]]
Free == [at |-> "idle", kind |-> "none", job |-> None, to |-> None, week |-> None,
         todo |-> {}, held |-> {}, got |-> [j \in Job |-> None]]

Init ==
    /\ work = [j \in Job |-> None]
    /\ commission = [j \in Job |-> None]
    /\ run = [p \in Period |-> "none"]
    /\ lines = [p \in Period |-> [work |-> {}, claims |-> {}]]
    /\ claims = [p \in Period |-> {}]
    /\ expense = [p \in Period |-> {}]
    /\ exec = [e \in Exec |-> Free]
    /\ faults = 0
    /\ strays = {}

books == <<run, lines, claims, expense>>

FactOf(j) == IF work[j] = None THEN None ELSE work[j].fact
WorkOf(p) == {j \in Job : work[j] # None /\ work[j].week = p}
At(e, place) == exec[e].at = place
In(e, kind, place) == exec[e].kind = kind /\ exec[e].at = place

-----------------------------------------------------------------------------
(* Locks.                                                                    *)

\* The week: a job route past its decision, and lockPayoutRun throughout.
PeriodHeldBy(e, p) ==
    exec[e].week = p /\ (In(e, "save", "commission") \/ exec[e].kind = "close")
PeriodHeld(p) == \E e \in Exec : PeriodHeldBy(e, p)

\* The row of a job, FOR UPDATE: a job route.
RowHeldBy(e, j) == exec[e].kind = "save" /\ exec[e].job = j
RowHeld(j) == \E e \in Exec : RowHeldBy(e, j)

\* The advisory lock of a job's commissions: kept until the transaction ends.
NoCommLock(e, j) == FALSE   \* mutant: a recalculation locks nothing
CommHeldBy(e, j) == j \in exec[e].held
CommHeld(j) == \E e \in Exec : CommHeldBy(e, j)

\* The share the foreign key of inserted commissions takes on the job's row.
Shared(j) ==
    \E e \in Exec : /\ exec[e].kind = "close" /\ j \in exec[e].held
                    /\ exec[e].got[j] # None
                    /\ ~(At(e, "write") /\ exec[e].job = j)

Become(e, x) == exec' = [exec EXCEPT ![e] = x]

-----------------------------------------------------------------------------
(* Job routes.                                                               *)

\* The week a change of the job counts in: that of its completion so far, or
\* of the completion being saved.
WeekOf(j, to) == IF work[j] # None THEN work[j].week ELSE to.week

\* The row is read under its lock.  A save that leaves the job open, or as it
\* is, changes no commission.
Save(e, j, to) ==
    /\ At(e, "idle")
    /\ ~RowHeld(j) /\ ~Shared(j)
    /\ to # work[j]
    /\ Become(e, [Free EXCEPT !.at = "period", !.kind = "save", !.job = j,
                              !.to = to, !.week = WeekOf(j, to)])
    /\ UNCHANGED <<work, commission, books, faults, strays>>

DecideAnyWeek(x) ==   \* mutant: a completed job moves to another week
    run[x.week] \notin Final

\* decideCompletedAppointmentPayoutPeriod, and the refusal to move a completed
\* job to another week.
Decide(x) ==
    /\ run[x.week] \notin Final
    /\ (work[x.job] # None /\ x.to # None) => x.to.week = x.week

SavePeriod(e) ==
    /\ In(e, "save", "period")
    /\ ~PeriodHeld(exec[e].week)
    /\ Become(e, IF Decide(exec[e]) THEN [exec[e] EXCEPT !.at = "commission"] ELSE Free)
    /\ UNCHANGED <<work, commission, books, faults, strays>>

\* The job is written, its commissions are recalculated, and all commits.
SaveCommit(e) ==
    LET j == exec[e].job  to == exec[e].to
    IN /\ In(e, "save", "commission")
       /\ ~CommHeld(j)
       /\ work' = [work EXCEPT ![j] = to]
       /\ commission' = [commission EXCEPT ![j] = IF to = None THEN None ELSE to.fact]
       /\ Become(e, Free)
       /\ UNCHANGED <<books, faults, strays>>

\* A reschedule, a cancelled calendar event, a reply of the customer read
\* before the completion: the status is set, whatever it was.
Reopen(j) ==
    /\ work[j] # None
    /\ ~RowHeld(j)
    /\ work' = [work EXCEPT ![j] = None]
    /\ strays' = strays \cup {<<j, p>> : p \in {q \in Period : q = work[j].week /\ run[q] \in Final}}
    /\ UNCHANGED <<commission, books, exec, faults>>

-----------------------------------------------------------------------------
(* Recalculation of a list of jobs.                                          *)

\* The next job of the list, or its end.
Turn(e, x) ==
    IF x.todo = {}
    THEN Become(e, [x EXCEPT !.at = "end", !.job = None])
    ELSE \E j \in x.todo : Become(e, [x EXCEPT !.at = "read", !.job = j, !.todo = @ \ {j}])

\* Under the lock of its commissions the job is read, without a lock.
Read(e) ==
    LET j == exec[e].job
    IN /\ At(e, "read")
       /\ ~CommHeld(j)
       /\ Become(e, [exec[e] EXCEPT !.at = "write", !.held = @ \cup {j},
                                    !.got[j] = FactOf(j)])
       /\ UNCHANGED <<work, commission, books, faults, strays>>

\* To insert commissions takes a share of the job's row; to delete them, none.
Writable(x) == x.got[x.job] # None => ~RowHeld(x.job)

\* Outside of lockPayoutRun each job commits on its own.
TallyWrite(e) ==
    LET x == exec[e]
    IN /\ In(e, "tally", "write")
       /\ Writable(x)
       /\ commission' = [commission EXCEPT ![x.job] = x.got[x.job]]
       /\ Turn(e, [x EXCEPT !.held = {}, !.got[x.job] = None])
       /\ UNCHANGED <<work, books, faults, strays>>

\* Within it all commit with the run.
CloseWrite(e) ==
    /\ In(e, "close", "write")
    /\ Writable(exec[e])
    /\ Turn(e, exec[e])
    /\ UNCHANGED <<work, commission, books, faults, strays>>

\* The completed jobs of the week: createOrGetCurrentPayoutRun when the week's
\* run is to be created, else the settings route and the payroll summary.
Tally(e, p, create) ==
    /\ At(e, "idle")
    /\ Turn(e, [Free EXCEPT !.kind = "tally", !.todo = WorkOf(p),
                            !.week = IF create THEN p ELSE None])
    /\ UNCHANGED <<work, commission, books, faults, strays>>

\* An override of the crew's share recalculates the jobs that start on its day.
Override(e, j) ==
    /\ At(e, "idle") /\ work[j] # None
    /\ Turn(e, [Free EXCEPT !.kind = "tally", !.todo = {j}])
    /\ UNCHANGED <<work, commission, books, faults, strays>>

TallyEnd(e) ==
    LET p == exec[e].week
    IN /\ In(e, "tally", "end")
       /\ p # None => ~PeriodHeld(p)
       /\ run' = [q \in Period |-> IF q = p /\ run[q] = "none" THEN "draft" ELSE run[q]]
       /\ Become(e, Free)
       /\ UNCHANGED <<work, commission, lines, claims, expense, faults, strays>>

-----------------------------------------------------------------------------
(* Payout runs.                                                              *)

\* decidePayoutRunTransition.
MayLock(p) == run[p] = "draft"
MayPay(p) == run[p] = "locked"
MayEdit(p) == run[p] = "draft"

Close(e, p) ==
    /\ At(e, "idle")
    /\ ~PeriodHeld(p)
    /\ MayLock(p)
    /\ Turn(e, [Free EXCEPT !.kind = "close", !.week = p, !.todo = WorkOf(p)])
    /\ UNCHANGED <<work, commission, books, faults, strays>>

\* Mutant: the run takes down its list, not the jobs as they are now.
EarnedFromList(e, p) ==
    {w \in Job \X Fact : w[1] \in exec[e].held /\ w[2] = exec[e].got[w[1]]}

\* The commissions of the jobs that are completed in the week now.
Earned(e, p) ==
    {w \in Job \X Fact : w[1] \in WorkOf(p) /\
        w[2] = IF w[1] \in exec[e].held THEN exec[e].got[w[1]] ELSE commission[w[1]]}

CloseCommit(e) ==
    LET p == exec[e].week  held == exec[e].held
    IN /\ In(e, "close", "end")
       /\ commission' = [j \in Job |-> IF j \in held THEN exec[e].got[j] ELSE commission[j]]
       /\ lines' = [lines EXCEPT ![p] = [work |-> Earned(e, p), claims |-> claims[p]]]
       /\ run' = [run EXCEPT ![p] = "locked"]
       /\ Become(e, Free)
       /\ UNCHANGED <<work, claims, expense, faults, strays>>

PayrollAndClaims(p) == lines[p].work \cup lines[p].claims   \* mutant: reimbursements booked twice

\* What of the lines is payroll: the reimbursements have expenses of their own.
Payroll(p) == lines[p].work

Pay(p) ==
    /\ ~PeriodHeld(p)
    /\ MayPay(p)
    /\ expense' = [expense EXCEPT ![p] = Payroll(p)]
    /\ run' = [run EXCEPT ![p] = "paid"]
    /\ UNCHANGED <<work, commission, lines, claims, exec, faults, strays>>

AddClaim(p, c) ==
    /\ ~PeriodHeld(p)
    /\ MayEdit(p)
    /\ \A q \in Period : c \notin claims[q]
    /\ claims' = [claims EXCEPT ![p] = @ \cup {c}]
    /\ UNCHANGED <<work, commission, run, lines, expense, exec, faults, strays>>

RemoveClaim(p, c) ==
    /\ ~PeriodHeld(p)
    /\ MayEdit(p)
    /\ c \in claims[p]
    /\ claims' = [claims EXCEPT ![p] = @ \ {c}]
    /\ UNCHANGED <<work, commission, run, lines, expense, exec, faults, strays>>

-----------------------------------------------------------------------------
(* What ends an execution early: its open transaction is rolled back.        *)

WaitsFor(e, f) ==
    \/ In(e, "save", "period") /\ PeriodHeldBy(f, exec[e].week)
    \/ In(e, "save", "commission") /\ CommHeldBy(f, exec[e].job)
    \/ At(e, "read") /\ CommHeldBy(f, exec[e].job)
    \/ At(e, "write") /\ exec[e].got[exec[e].job] # None /\ RowHeldBy(f, exec[e].job)
    \/ In(e, "tally", "end") /\ exec[e].week # None /\ PeriodHeldBy(f, exec[e].week)

\* Executions that wait for each other: PostgreSQL rolls one of them back.
InCircle(e) ==
    \E S \in SUBSET Exec :
        /\ e \in S
        /\ \A f \in S : (\E g \in S : WaitsFor(f, g)) /\ (\E g \in S : WaitsFor(g, f))

Victim(e) ==
    /\ InCircle(e)
    /\ Become(e, Free)
    /\ UNCHANGED <<work, commission, books, faults, strays>>

Die(e) ==
    /\ ~At(e, "idle") /\ faults < MaxFaults
    /\ faults' = faults + 1
    /\ Become(e, Free)
    /\ UNCHANGED <<work, commission, books, strays>>

-----------------------------------------------------------------------------
Next ==
    \/ \E e \in Exec, j \in Job : (\E to \in Work \cup {None} : Save(e, j, to)) \/ Override(e, j)
    \/ \E e \in Exec, p \in Period : (\E create \in BOOLEAN : Tally(e, p, create)) \/ Close(e, p)
    \/ \E e \in Exec : \/ SavePeriod(e) \/ SaveCommit(e) \/ Read(e) \/ TallyWrite(e)
                       \/ CloseWrite(e) \/ TallyEnd(e) \/ CloseCommit(e) \/ Victim(e) \/ Die(e)
    \/ \E j \in Job : Reopen(j)
    \/ \E p \in Period : Pay(p) \/ \E c \in Claim : AddClaim(p, c) \/ RemoveClaim(p, c)

Spec == Init /\ [][Next]_vars

-----------------------------------------------------------------------------
(* Properties.                                                               *)

\* Every variable has the values the columns and the code allow.
TypeOK ==
    /\ work \in [Job -> Work \cup {None}]
    /\ commission \in [Job -> Fact \cup {None}]
    /\ run \in [Period -> Status]
    /\ lines \in [Period -> Rows]
    /\ claims \in [Period -> SUBSET Claim]
    /\ expense \in [Period -> SUBSET (Job \X Fact)]
    /\ exec \in [Exec -> Steps]
    /\ faults \in 0 .. MaxFaults
    /\ strays \in SUBSET (Job \X Period)

\* The commissions of a completed job are those of its total and crew as they
\* are: a recalculation reads the job without a lock and may wait before it
\* writes, while the job is corrected, reopened or completed again.
CommissionsAreCurrent == \A j \in Job : work[j] # None => commission[j] = work[j].fact

\* A finalized run pays the work of its week as it stands, no more and no less,
\* whoever completes, corrects, reopens or recalculates jobs while it is locked,
\* unless a job was reopened after that; its lines carry the reimbursements on
\* file, and the payroll expense booked for it is the work of the lines.
FinalizedIsTrue ==
    \A p \in Period :
        /\ run[p] \in Final =>
             /\ \A j \in Job : <<j, p>> \notin strays =>
                  \A f \in Fact : <<j, f>> \in lines[p].work
                                    <=> work[j] = [week |-> p, fact |-> f]
             /\ lines[p].claims = claims[p]
        /\ expense[p] = IF run[p] = "paid" THEN lines[p].work ELSE {}

\* The books of a finalized week stay closed: its run only goes on from locked
\* to paid, and neither its lines nor its reimbursements nor what it paid
\* change, nor the commissions behind them, unless the job was reopened.
BooksStayClosed ==
    [][\A p \in Period : run[p] \in Final =>
         /\ run'[p] \in Final /\ (run[p] = "paid" => run'[p] = "paid")
         /\ lines'[p] = lines[p] /\ claims'[p] = claims[p]
         /\ run[p] = "paid" => expense'[p] = expense[p]
         /\ \A j \in Job : (\E f \in Fact : <<j, f>> \in lines[p].work) /\ <<j, p>> \notin strays'
              => commission'[j] = commission[j]]_vars

Books == INSTANCE PayoutBooks WITH paid <- expense

\* The books are kept as if every route were one step, though a completion, a
\* recalculation and the locking of a run are many steps under four kinds of
\* locks: above all, the lines of a run are the work of its week at one moment.
KeepsBooks == Books!Spec

\* appointments/[id]/status/route.ts:1229, "A completed job cannot be moved into
\* a different payout week through status correction": no job is paid in the
\* runs of two weeks.
PaidOnce ==
    \A p, q \in Period, j \in Job :
        (p # q /\ run[p] \in Final /\ run[q] \in Final) =>
            \A f, g \in Fact : ~(<<j, f>> \in lines[p].work /\ <<j, g>> \in lines[q].work)

\* commissions.ts:774, "Locks are intentionally ordered period -> report IDs ->
\* payout rows to avoid cross-route deadlocks": nobody waits in a circle.
NoCircle == \A e \in Exec : ~InCircle(e)
=============================================================================
