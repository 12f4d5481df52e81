# StonegateOS: specifications of its sends, payments and payouts

StonegateOS is the CRM of a local service business: a public site, a team console, and one API
(`src/apps/api`, Next.js on Postgres) with a worker process that drains an outbox table. What is
hard in it is one theme in many tables: **something outside the database is to happen once (a
message, a link, a charge, a payment of wages), the process may die or be overtaken at any point,
and the tables must neither lose it nor do it twice nor lie about it.** These modules model that
theme where the code is densest, check it with TLC and prove it with TLAPS.

    tlc -workers 2 -config MessageDispatch_safety.cfg MCMessageDispatch.tla
    tlapm MessageDispatchProofs.tla

`PROJECT.json` lists every component, run, mutant, theorem, hazard and finding, and the source
lines behind every definition.

## 1. The system

| Component | State it keeps | Operations | Interacts with |
|---|---|---|---|
| Outbox (`lib/outbox-processor.ts`, `scripts/outbox-worker.ts`, `api/admin/outbox/dispatch`) | `outbox_events`: attempts, next attempt, processed, quarantined | poll a batch, guard, handle, finalize, quarantine | every producer of events; runs in the worker *and* in the API server, with no lock on the rows it reads |
| Message dispatch ledger (`lib/external-message-dispatch.ts`) | `external_message_dispatches`, one row per outbox row and attempt | request, claim, settle, reconcile | message.send rows, the providers |
| Inbox routes (`threads/[id]/messages`, `messages/[id]/retry`) | `conversation_messages` | queue, retry by hand, send a draft | insert outbox rows under the contact's advisory lock |
| Contact deletion and restore | `contacts.deletedAt` | delete (refused while a send is unresolved), restore | quarantines rows, closes links and sessions |
| Delivery callbacks (`webhooks/twilio/sms`) | delivery status of a message | read, then write | races the dispatch ledger |
| Sales autopilot (`lib/sales-autopilot.ts`) | draft messages | send a draft by itself | second connection while the contact is locked |
| Partner access links (`partners/users`, `partners/request-link`, `partner-invite-*`) | `partner_invite_operations`, login tokens, sessions | invite, public link, sweep, review, deactivate | providers, contact deletion |
| Idempotency of team mutations (`lib/team-mutation-idempotency.ts`) | `team_mutation_idempotency` | claim, take over, extend, complete, settle | every mutating route of the console |
| Card payments (`lib/square-payments.ts`, `payments/square/*`, `webhooks/square`, `lib/payment-reconciliation-admin.ts`, `lib/appointment-payment-attempt-safety.ts`) | `payment_attempts`, `payments`, events of Square | launch, callback, webhook, sweep, owner's retry and dismissal, manual payment | a phone that charges on its own, Square, four processes that reconcile at once |
| Commissions and payouts (`lib/commissions.ts`, `appointments/[id]/status`, `final-total`, `sold-by`, `admin/commissions/*`) | `appointment_commissions`, `payout_runs`, lines, adjustments, the payroll expense | complete and correct a job, recalculate, create, lock and pay a run, reimburse | reschedules, calendar and customers reopen jobs without a word to it |

Components known and not modelled, with the reason or their place in the plan, are the
`not_modelled` entries of `PROJECT.json`: merges, calls, escalations, staff
notifications, scheduling, media, purge, agent approvals, ads, calendar, recordings,
staff sessions, the mutation boundary, inbox composition, intake, content, site, dashboard and
shared packages.

What is hard, and what makes each part correct:

* *Outbox*: two workers hold one row; a row's snapshot is stale when used; a death between effect
  and finalization. Correct when a row settles, settled rows stay so, and an effect is repeated
  only for a reason that may be named.
* *Dispatch ledger*: an answer later than its deadline; an attempt number that moves on. Correct
  when it records what the provider did, calls it once per attempt and once per message, and
  leaves nothing unsettled for ever.
* *Deletion*: must not commit between a check and a provider call. Correct when a deleted contact
  is quiet.
* *Locks and pool*: locks of two connections and five connections per program. Correct when a
  lock that is taken is returned; it is not always (section 5), and what is checked is that it fails to
  be in two known positions only.
* *Access links*: leases that end, a sweep that takes the slow for dead, deactivation in mid-send,
  two channels of which one fails. Correct when one send at a time is under way for a user, the
  receipt of a key is true, and a closed access has no way in.
* *Card payments*: the phone charges when it likes; each of four sides reads an attempt, asks Square
  outside of any transaction, and commits to whatever the attempt has become. Correct when the
  ledger stands for money that moved, no reference to it is forgotten, nobody is asked to pay while a
  charge is out, and no charge goes unnoticed.
* *Payouts*: a week is closed over jobs that others complete, correct, recalculate and reopen, under four
  kinds of locks taken in different orders. Correct when a finalized run pays the work of its week as it
  stands, once, and its books stay closed.

## 2. Modules

| Module | What it is |
|---|---|
| `OneDelivery` | abstract: what an outbound send promises (open, sending, sent, review) |
| `MessageDispatch` | one conversation message from its outbox row to the provider |
| `ScopedHandler` | the other contact-scoped rows: lock, second connection, effects, the autopilot's draft |
| `AccessLink` | login links of one portal user, under the idempotency keys of the invite route |
| `CardPayment` | payment attempts of appointments against the orders of Square and the ledger |
| `PayoutBooks` | abstract: what the weekly payouts promise, as if every route were one step |
| `Payout` | commissions of jobs and the weekly runs that pay them |
| `MC*` + `*.cfg` | instances for TLC |
| `*Proofs` | theorems |

`MessageDispatch` and each operation of `AccessLink` are shown to implement `OneDelivery`
(`KeepsPromise`), and `Payout` to implement `PayoutBooks` (`KeepsBooks`). `MessageDispatch` and `ScopedHandler` meet in the contact's lock and the
quarantine by deletion: the first holds the lock inside single transactions and so takes it as
atomic; the second is about the lock itself.

### MessageDispatch

One action is one transaction of the code (`Request` is `ensureMessageDispatchRequested`, the
`Claim*` actions are the outcomes of `claimMessageDispatch`, `SettleResult`/`SettleLate` are
`finalizeMessageDispatch`, `Finish` is the row's finalization); the provider call `Send` lies between
claim and settlement. A worker carries `at`, the row and attempt number of the snapshot it polled.
`Abandon` is a death or a transaction that fails; `GuardFail`, `ReadDefers`, `ReadThrows` are the
interruptions that consume an attempt number without sending, and the history variable `skipped` collects
the numbers they consumed (at most `MaxDefers`). `NoneSkipped` says there are none.

Abstractions. Times are flags: a row is due or not, the uncertainty window of a claim has passed
or not, and either may happen whenever it can. One message of one contact: rows of others share
nothing but the batch. Rows are named in creation order, as `createdAt` orders them. Policy and quiet
hours are a nondeterministic `ReadDefers`. `skipped` is written as processed. The address a worker
resolves is stored in the read step. The legacy path of messages without a contact is left out.

### ScopedHandler

Workers, senders (the retry route used on a draft) and office requests (DELETE, restore) each hold a
connection of their program's pool while in a transaction; a worker's handler that opens a
transaction takes a second. `contactLock` and `messageLock` are the advisory lock and the
draft's row lock; whoever cannot have one waits, holding its connection. What a handler does between
recheck and finalization depends on its type:

| Action | Code | Ends as |
|---|---|---|
| `HandleNothing` | nothing to do, not yet, a definite refusal, or an exception | processed or retry |
| `HandleOnce` | follow-ups (a row committed on another connection) and alerts that are not sent again | processed |
| `HandleText` | a reminder or a nudge that the provider accepts (`outbox-processor.ts:5232`, `5393`) | processed |
| `HandleUnanswered` | the same call with an answer that proves nothing, accepted or not (`isRetryableSendFailure`) | retry |
| `Note` | the audit record after either call; an insert that fails throws, which counts as processed | as before, or processed |
| `AutosendBegin/Commit` | the autopilot's own transaction | processed |

`told` is the set of nudges with the audit record "sent", which the next handling looks up; reminders look up
nothing. `doubts` counts the unanswered calls for a row. Finalization may fail, `ReconcileBegin/Reconcile` is the quarantine
the code then attempts, and that may fail as well (`RecoveryFails`).

Abstractions. Left out are the event types whose errors are retried, media imports (which converge by themselves), the
attempt counter (it ends the retries of a row after some number of them, so the model has more), and `lead.alert`, which
sends to a list of recipients and keeps the list in its row (sections 5 and 6). The
guard's failure and its update are one step. A draft that is sent by hand leaves the model when its
message is queued (from there it is `MessageDispatch`'s); `Deliver` says only that it may get sent.

### AccessLink

An execution of the invite route runs claim, extend, prepare, renew, mark, send, finalize, and after
the providers were called `recover`, `again` (the catch block); every repetition of a form, also a
double click, is another execution with the same key. A visit of the public route has the shorter
life without a key. Rows of `partner_invite_operations` are named by the execution that inserts them, as
`operationId` is drawn per execution. `Send` answers per channel: accepted, confirmed not sent, or
uncertain, where an uncertain link may have gone out or not. `Recover` is the worker's sweep,
`Review` the reconciliation route, `Deactivate/Activate` the switch, `Delete/Restore` the
organization's contact, `SignIn` token exchange and password login.

Abstractions. Leases and staleness may pass at any moment (`LeaseEnds`, `Recover`), which covers any
slowness. `stale` stands for the version header: writing the user invalidates every form issued
before. `partnerStatus` stays "partner"; tokens do not expire by time (they would only go earlier);
the idempotency keys of the switch and review routes are left out, as each of the two is one
transaction that checks a version. A reviewer may say anything the recorded evidence does not refute.

### CardPayment

An attempt is launched for an appointment, the phone answers (`Answer`: an order, canceled, unknown), Square
places and captures orders (`Place`, `Capture`, also late, doubled, of a wrong amount, or of nobody's:
`PlaceForeign`), and four kinds of process find out: the callback (`Prepare`/`TakeOver`, `Dispatch`), the webhook
(`Event`, `Record`), the sweep (`SweepExpire`, `SweepSelect`, `SweepVisit`, `SweepList`, `SweepImport`) and the
owner (`OwnerRetry`, `Dismiss`). All end in `Reconcile`, the steps of `reconcileSquareAttempt`: `Match`, `Begin`, `Ask` (the
read of Square, outside of any transaction), and a commit behind `Fence`. `Die` drops a process or fails a
read. `IndexAllows` is the unique index of active attempts.

Abstractions. An order holds one payment; whether it is the right one is membership in `exact`. The lease of an event's row and the
idempotency claim of the callback are left out: either may run any number of times and at once, which is more
than they do. The phone's answers that say "no charge" are taken as honest. The amount asked for is the whole
balance; what refunds do to the balance is left out (a refund comes in as an order first seen refunded). The
sweep's lookback of 48 hours is taken to reach every order.

### Payout

A job route (`Save`, `SavePeriod`, `SaveCommit`) locks the job's row, then the week, decides
(`decideCompletedAppointmentPayoutPeriod`), writes the job and its commissions. A recalculation goes through a list
of jobs (`Turn`, `Read`, then `TallyWrite` or `CloseWrite`): the lock of the job's commissions, an unlocked read of the job, and a write that
may wait for the row's share. Outside of the run each job commits on its own; inside `lockPayoutRun` (`Close` to
`CloseCommit`) all commit with the run, whose lines add up what was earned. `Pay`, `AddClaim`, `RemoveClaim` are single
transactions. `Reopen` is the reschedule route, the cancelled calendar event and the customer's reply: they
set the status without a lock of the week. `Victim` is PostgreSQL, which rolls back one of a circle of waiters; `Die` a death.

Abstractions. A *fact* is all that a job's commissions are computed from; the arithmetic of rates and splits, inactive
recipients, the management split and the report are left out. One lock stands for the week's, the report's
and the run's row. The time zone does not change (a change renames the weeks, and a finalized week would no longer be found). Runs
that history left twice are left out. Quotes are left out, see section 5.

## 3. Runs

| Run | Instance | Shows |
|---|---|---|
| `dispatch_safety` | 2 workers, 1 row, attempts to 3, 1 fault, 1 interruption, with and without recipient | one call per attempt, an honest ledger, quiet after deletion, sent means succeeded, a waiting row has attempts left, attempts only advance |
| `dispatch_ledger` | 2 workers, 2 rows (manual retry), 1 fault | one effect per message, processed rows leave nothing open, a queued message has its row, refinement of `OneDelivery` |
| `dispatch_liveness` | 2 workers, 1 row, 1 fault, fair | every row and every dispatched attempt comes to an end |
| `dispatch_resend` | 1 worker, 1 fault, 1 interruption | **violated**: the provider takes a message twice |
| `scoped_effects` | 2 workers in two programs, a follow-up and a nudge, an office request, pool of 3, 1 death, 2 losses, 2 unanswered calls (2,157,626 states) | a row takes effect once and once more for each death, loss and unanswered call; effects and deletion exclude each other |
| `scoped_draft` | 2 workers in two programs, the draft, a sender, an office request, pool of 3, 1 death, 1 loss, fair (35,416 states) | a draft is queued once and never for a deleted contact; a handler hangs on to the lock in two positions only |
| `access_safety` | 2 executions of one key, 1 visit, 1 channel, 3 claims, 1 fault | one send at a time, true receipts, closed means closed, deletion waits, operations only advance |
| `access_settles` | 1 execution, 2 channels, 3 claims, 2 faults, fair sweep | honest records with partial failure, refinement of `OneDelivery`, operations settle |
| `card_orders` | 1 attempt, 2 orders of which one matches, 1 request beside the sweep, fair (673,860 states) | the ledger is backed, references stay, every charge is noticed |
| `card_attempts` | 2 attempts of one appointment, 1 order, 1 request, 1 fault (1,872,008 states) | nobody is asked to pay while a charge may be out; of two ways to pay one has no charge and can get none |
| `payout_books` | 1 job, 2 weeks, 2 facts, 3 executions, 1 claim, 1 death (245,302 states) | finalized runs stay true, commissions current, refinement of `PayoutBooks`; nobody is stuck |
| `payout_once` | 1 job, 2 weeks, 2 executions | **violated**: a job is paid in two weeks |

**Bounds.** Two workers are what it takes to overtake, and every step of the ledger involves at most
two. One message suffices, since messages share no ledger row. Two outbox rows suffice for a manual retry beside
a running attempt; a third could only be created when both are closed. Attempt numbers go one past
the limit, to see that the limit is kept. One fault suffices for a death at every
point, two for a failed recovery of a failed finalization. `access_safety` needs two executions with one key
(takeover) and a visit (a rival under no key); its channel is one because partial failure is a question
about one operation, asked in `access_settles` with two. The three claims of the code are used as they
are. `dispatch_ledger` has no consumed attempts (`MaxDefers = 0`), so there `AtMostOneEffect` is
checked as the bound 1, against deaths, overtaking and retries; with a consumed number, `dispatch_resend`
shows that a message may be taken twice, and the theorem bounds the effects by one more for each such number.
`scoped_effects` has no sender, since a draft's rows are not its question, and `scoped_draft` has no other rows. Their pool is
scaled down from five to three, so that the worker and the two requests of one program exhaust it. `EffectOnce` counts a death or a
loss against every row and an unanswered call against its own; stricter readings fail (section 5). `LockReturnsOrStuck`
asks that a lock is returned or its holder is for ever in the position `Circled` (waiting for the draft's row, whose holder waits for
the contact) or `Starved` (waiting for a connection, all of them with those who wait for a lock): both are reached in
`scoped_draft`, and a handler that waits in any third way violates it.
The cards need two orders for one attempt (doubled charges; a wrong one beside a right one), and two attempts of one
appointment for a second collection; the request and the sweep are two processes, enough for one to commit on what the
other changed. The payouts need three executions for a circle of a save, a recalculation and a run; with two jobs
(two executions, no deaths: 1,890,851 states; one fact and a death: 780,710) the same properties hold.
Deadlock is checked in `payout_books`, where a week can always go on; elsewhere budgets run out and all work may be
done, so the instances really stop; where somebody must not be stuck there is a liveness property.

**Fairness.** `MessageDispatch`: weak fairness of each worker's step (a process that is alive carries
on and polls again; dying is bounded by the budget) and of the clock; none of the office, the callbacks
or interruptions. `ScopedHandler`: strong fairness of whoever waits for a connection or a lock, because the pool
and Postgres queue waiters in order; nobody has to start a request. `AccessLink`: weak fairness of the sweep per
operation only: executions may all die. `CardPayment`: weak fairness of the sweep's steps, and the half hour of an
attempt passes (`Loops`); callback and webhook may never come (`OnlineSpec`, for section 5, adds that Square
repeats its events). All these schedulers are in the code: the worker's loop with its
sleep, the pool's queue, the sweeps in `scripts/outbox-worker.ts`. `Payout` states none: nothing in it has to happen.

## 4. Proofs

TLC looks at these instances; TLAPS shows the following for every value of the constants (any number of
workers, rows, attempts, executions, keys, channels, orders, jobs, weeks, faults).

*`MessageDispatchProofs`* (`TypeCorrect`, `OneCallPerAttempt`, `HonestLedger`, `DeletedIsQuiet`,
`LedgerOnlyAdvances`, `SentMeansSucceeded`). The properties are not inductive: nothing in them says why
the worker that is about to call is the only one. `LedgerInv` adds it: the worker at "send" or "settle" for
an attempt is the one whose claim moved the row, a requested row has never been called, and a settler's
answer is true of `delivered`. `SentIsSucceeded` then needs that a succeeded row stays (from
`LedgerOnlyAdvances`) and that a callback only follows a provider id.

*`MessageDispatchOrderProofs`* (`OneEffectPerMessage`, `AcceptedFewTimes`, `AcceptedAtMostOnce`, `WaitingHasAttempts`,
`PromiseKept`, `PromiseKeptForGood`; `ProcessedRowsAreQuiet`, `QueuedMessagesHaveRows`, `AttemptsAreAttended`). `OrderInv`
follows the numbers of a row: an attempt is requested when every lower number was refused and is worth the next one, or
is in `skipped`; no two rows wait at once; within its row nothing follows the latest attempt unless that one is skipped
(`LatestIsLast`), and an earlier row holds an attempt that may take effect only beside a skipped number (`LeftBehind`). A
gap in the numbers is the one thing that breaks the order, so each effect but one can be charged to a skipped number
of its own (`ChargedOnce`): this is `AtMostOneEffect`, `1 + |skipped|`, for any number of interruptions. Without a skipped
number it is one, the ledger implements `OneDelivery` step by step, and `dispatch_resend` is the behaviour that uses the gap:
`AcceptedOnce` is proved of states that have `NoneSkipped`, and refuted of the others. `KeepsPromise` holds up to the
first skipped number; `PromiseKeptForGood` is `OneDelivery`'s own specification in a behaviour without any.
The last three hold for a message whose address is known when it is queued (`addressed`, a condition on the
initial state) and while `NoneSkipped`: `QuietInv` says who may still finish a row. Without an address, `QueuedHasRow`
fails (section 5). `AttemptsAreAttended` is as much of the liveness property `AttemptsSettle` as is a safety property.

*`ScopedHandlerProofs`* (`TypeCorrect`, `EffectsBeforeDeletion`, `DeletedStaysQuiet`, `RowsStaySettled`, `EffectsAreFew`,
`DraftsAreSentOnce`). `LockInv`: whoever is in a handler holds the contact's lock and the contact is not
deleted; only a holder's recheck leads there. `EffectInv` charges each effect of an unfinished row to a death, a
loss or an unanswered call: a handler whose effect is not one of these ends as processed, and its row is finished before the lock is
given up, unless a death or a loss prevents it. `DraftInv` ties the draft's state to its row. The type invariant includes that no program holds more
connections than its pool has.

*`AccessLinkProofs`* (`TypeCorrect`, `SendsAreSingle`, `ReceiptsAreTrue`, `RecordsAreHonest`,
`ClosedIsClosed`, `DeletionWaits`, `OperationsAdvance`, `PromiseKept`): every safety property the
runs check. The root is `OperationMoves`, the list of the moves an operation row can make and who may make
them, proved once over all actions. `OpInv` follows from it alone: who calls a provider has a row that
is dispatched or under review, and at most one row is unresolved. `HonestInv` adds that an execution that has not
called has no answer and that definite answers are true, and with it each step of each operation is
a step of `OneDelivery` or a stutter.

*`CardPaymentProofs`* (`TypeCorrect`, `LedgerIsTrue`, `ReferencesAreKept`, `NobodyPaysTwice`, `PaidOneWay`, `RevenueIsBookedOnce`). `LocalMoves` lists what a
process may come to know. `RefInv`: an attempt that was never launched has no order and no charge, and whoever
commits names the order the attempt names or will get. `BindInv`: an answer "verified" is still true at the commit, since captures and
notes are never undone, and so a row bound by it is backed. `ChargeInv`: an attempt that is closed for collection has no charge, because the
phone said so or nothing was ever placed for it, or it was dismissed without an order. Hence `OneWayToPay`: a launch or a
manual payment finds every other attempt without a charge and out of reach of one (`CollectableIsChargeless`), and an attempt
gets back into reach by a launch only. With the backed ledger it says that the revenue of an appointment is booked once.

*`PayoutProofs`* (`TypeCorrect`, `CommissionsCurrent`, `FinalizedRunsAreTrue`, `BooksClosed`, `PaidOnceUnlessReopened`, `BooksKept`).
`Inv` says what each execution knows wherever it is: a route past its decision has a week that is not
finalized, and it is the week its job counts in; the run that is being locked is a draft; and what was read under the lock of a job's commissions
is still so, unless the job was reopened (`HeldGood`), since no completion gets between. The locks of rows and weeks exclude each other. `NextMoves`
proves once that each step moves at most one execution and how; the books then need one lemma for each step that
writes them. `PaidOnceUnlessReopened` shows that reopening is the only way to what `payout_once` finds. `BooksKept` is the refinement of `PayoutBooks`: every commit of a route is one of its steps, with the
whole of a run's lines taken down at the one moment of `CloseCommit` (`CloseIsOneStep`), since under the run's locks what is
earned in the list of jobs is what was earned in the week; everything between commits is a stutter. A reimbursement is
in one week only (`FiledOnceAlways`).

*`OneDeliveryProofs`*: the promise itself never leaves open what was taken, nor shows as sent what was not.

Assumptions: the named ASSUMEs of the modules (disjoint sets of actors, naturals for bounds), no more.
`RowsStaySettled` and `BooksClosed` state action properties (`SettledForGood`, `BooksStayClosed`) that no run checks: `EffectOnce`
catches the same mistakes as the first, and the second follows from `KeepsBooks` with the two payout invariants.

**Only model-checked.** Liveness (`RowsSettle`, `AttemptsSettle`, `LockReturnsOrStuck`, `OperationsSettle`,
`ChargeIsNoticed`), whose fairness is stated with ENABLED, which is out of the prover's reach. Every other property of a passing run has its theorem.

## 5. Disagreements met while modelling

Two are the subject of runs and quoted in `PROJECT.json`: a message taken twice after an attempt
was consumed without being settled (`dispatch_resend`), and a job paid in two weeks because a reschedule, the
calendar or a customer's reply reopens it behind a finalized run (`payout_once`).

Others can be reproduced by giving an instance these values:

| What happens | Instance | Violated |
|---|---|---|
| The autopilot's handler holds the contact's lock and waits, on a second connection, for the draft's row, which the retry route holds while it waits for the contact (`sales-autopilot.ts:1766`); PostgreSQL does not see the circle | `ScopedHandler_draft` with `OneWorker`, `NoOne` as Office, no losses | `LockReturns` |
| Requests that wait for the contact's lock take the five connections its holder needs one of | `ScopedHandler_draft` with `OneWorker`, no sender, `FourOffices`, `InOne`, `Pool = 5`, no losses, no deaths | `LockReturns` |
| A handler whose finalization fails is run again, while the audit record says "redispatchPrevented" | `ScopedHandler_effects` with no death, 1 loss, no unanswered calls | `EffectOncePerDeath` |
| A reminder or nudge the provider did not answer for is texted again (`outbox-processor.ts:5263`, `5432`), while `docs/TEAM_CRM_10_10_REMEDIATION_PLAN.md:499` has "every uncertain already-dispatched effect is quarantined instead of automatically replayed" | `ScopedHandler_effects` with `OneWorker`, no office, no death, no losses | `UncertainIsNotReplayed` |
| A manual retry racing the failed mark of a message without address leaves it queued with no row | `MessageDispatch_ledger` with `OneWorker`, `Recipient = {FALSE}`, no faults | `QueuedHasRow` |
| An attempt expires before its good charge is confirmed; every commit then refuses it and the sweep stops on it (`square-payments.ts:735`; the runbook, line 779, says to wait for the sweep) | `CardPayment_orders` with `OnlineSpec`, `OneOrder` | `PendingSettles` |
| A run being locked and a job route wait for each other (`commissions.ts:774` says the order of locks avoids it); PostgreSQL rolls one back | `Payout_once` | `NoCircle` |

Readings of the code that no instance shows:

* `lead.alert` takes its list of recipients from the payload of the row as the batch read it (`outbox-processor.ts:4684`-`4741`): a
  worker with an older snapshot of a row that was put back to retry texts the first recipients again.
* A handler that throws at its last attempt number has its row marked processed (`outbox-processor.ts:279`), and the
  message stays queued, with nothing to send it, until somebody retries it by hand: `QueuedHasRow` asks for `NoneSkipped`.
* `appointments/[id]/convert/route.ts` selects with a left join of contacts `for("update")` without `of`. PostgreSQL refuses
  FOR UPDATE on the nullable side of an outer join, so a conversion fails as written. If it did not, the completion it may
  contain would bypass the week's lock, and the `refreshCommissions` field of its event is never read. Hence
  quotes are not in `Payout`.
* With `SQUARE_POS_ENABLED` off, the callback route answers 503 (`payments/square/return/route.ts`), while the
  runbook (lines 21, 294, 763) tells to leave the API callback running.
* A completed attempt that a callback regresses can expire; a dismissed attempt with an order blocks further collection.
* A death amid a webhook leaves its event "processing", and a redelivery within the ten minutes of its lease is answered 200.
* Some payment routes lock an attempt and then its appointment, others the appointment and then its attempts: PostgreSQL breaks the circle.

## 6. Plan

Done, in order of weight: `OneDelivery`, `MessageDispatch`, `ScopedHandler`, `AccessLink`, `CardPayment`,
`Payout` with `PayoutBooks`, their runs, and the proof of every safety property checked. Next:

1. `MergeQueue`: two contacts become one while rows of both are in flight; composed with the deletion model.
2. `CallOperation` (manual and escalation calls, then staff notifications): the `OneDelivery` shape with carrier callbacks; refinement.
3. `Scheduling`: concurrent bookings of one slot under the scheduling lock.
4. `CardPayment` with amounts: refunds against captures, partial payments. Theorem: never refund more than was captured.
5. `Payout` with quotes, once their conversion can run.
6. `lead.alert` in `ScopedHandler`: a list of recipients kept in the row, against the snapshots of two workers.
