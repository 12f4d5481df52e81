----------------------------- MODULE CardPayment -----------------------------
(***************************************************************************)
(* Card payments taken with Square: a collector launches an attempt for an *)
(* appointment, the point of sale on the phone charges the card, and the   *)
(* server finds out from four sides at once: the phone's callback          *)
(* (payments/square/return), the provider's webhook, the sweep of the      *)
(* worker and the owner (payment-reconciliation-admin.ts).  All four end   *)
(* in reconcileSquareAttempt of square-payments.ts, which reads the        *)
(* attempt, asks Square outside of any transaction and then commits under  *)
(* a lock to whatever the attempt has become.                              *)
(*                                                                         *)
(* An order of Square stands for the one payment it holds; an order whose  *)
(* amount, tender or place fails retrieveAndVerifySquarePayment is not in  *)
(* exact.  The lease of the webhook's event row and the idempotency claim  *)
(* of the callback are left out: either may run any number of times, and   *)
(* at once.  So are what refunds do to the balance, and the amount an attempt *)
(* asks for, which is always the whole balance.                            *)
(***************************************************************************)
EXTENDS Naturals, FiniteSets

CONSTANTS
    Appt,       \* appointments
    Attempt,    \* ids of payment attempts
    Home,       \* the appointment an attempt would be launched for
    Order,      \* orders of Square
    Request,    \* executions of the callback, the webhook or an owner's retry
    Sweep,      \* the reconciliation loop of the worker
    None,       \* no order; no row
    Stranger,   \* the note of an order that names no attempt
    Review,     \* a ledger row under review, of no attempt
    MaxFaults   \* bound: deaths, and provider reads that fail

ASSUME HomeAssumption == Home \in [Attempt -> Appt]
ASSUME NameAssumption ==
    /\ None \notin Attempt \cup Order
    /\ Stranger \notin Attempt \cup {None}
    /\ Review \notin Attempt \cup {None}
    /\ Sweep \notin Request
    /\ {"none", "canceled", "unknown"} \cap Order = {}
ASSUME FaultAssumption == MaxFaults \in Nat

Process == Request \cup {Sweep}
Active == {"launched", "pending_verification"}
Unresolved == {"expired", "needs_review"}
Status == {"none", "completed", "canceled", "retryable"} \cup Active \cup Unresolved
Said == {"none", "canceled", "unknown"} \cup Order
PC == {"idle", "record", "dispatch", "match", "begin", "ask", "confirm", "commit",
       "select", "attempts", "list", "payments"}

VARIABLES
    status,    \* payment_attempts.status
    order,     \* its providerOrderId; providerPaymentId is set along with it
    nonce,     \* its returnNonceHash is set
    op,        \* the phase of its squareReturnOperation
    opBy,      \* the execution that holds the operation
    lapsed,    \* attempts whose expiresAt is past
    dismissed, \* attempts the owner dismissed
    cash,      \* appointments with a manual payment
    payment,   \* the ledger row of an order's payment: the attempt it is bound to
    phone,     \* attempts the point of sale can still charge
    note,      \* the attempt named on an order
    captured,  \* orders whose card was charged
    exact,     \* orders that match what the attempt asked for
    said,      \* what the callback of the last launch says
    pc, att, ord, \* per process: next step, attempt and order under reconciliation
    way,       \* per process: what called it
    seen,      \* per process: what Square answered
    blank,     \* per process: its callback denies a charge, and there was no order
    todo,      \* the sweep: attempts still to visit
    found,     \* the sweep: orders still to visit
    faults     \* budget spent

row    == <<status, order, nonce, op, opBy, lapsed, dismissed>>
ledger == <<cash, payment>>
square == <<phone, note, captured, exact, said>>
local  == <<pc, att, ord, way, seen, blank, todo, found>>
vars   == <<row, ledger, square, local, faults>>

-----------------------------------------------------------------------------

AttemptsOf(p) == {a \in Attempt : Home[a] = p}
Put(a, s) == status' = [status EXCEPT ![a] = s]
To(w, step) == pc' = [pc EXCEPT ![w] = step]

\* The partial unique index: at most one active attempt of an appointment.
IndexAllows(a) ==
    \A b \in AttemptsOf(Home[a]) \ {a} : status[b] \notin Active

\* classifyPaymentCollectionAttemptSafety: "safe".
Settled(a) ==
    \/ status[a] = "none"
    \/ status[a] = "completed" /\ \E o \in Order : payment[o] = a
    \/ status[a] \in {"canceled", "retryable"} /\ order[a] = None

Retryable(p) == {a \in AttemptsOf(p) : status[a] = "retryable"}

CollectableUnpaid(p) ==   \* mutant: what was paid by hand is not looked at
    (\A a \in AttemptsOf(p) : Settled(a)) /\ Cardinality(Retryable(p)) <= 1

\* The balance is positive and the attempts are safe.
Collectable(p) ==
    /\ \A a \in AttemptsOf(p) : Settled(a)
    /\ Cardinality(Retryable(p)) <= 1
    /\ p \notin cash
    /\ \A o \in Order : payment[o] \notin AttemptsOf(p)

Init ==
    /\ status = [a \in Attempt |-> "none"]
    /\ order = [a \in Attempt |-> None]
    /\ nonce = [a \in Attempt |-> FALSE]
    /\ op = [a \in Attempt |-> "none"]
    /\ opBy = [a \in Attempt |-> None]
    /\ lapsed = {} /\ dismissed = {} /\ cash = {}
    /\ payment = [o \in Order |-> None]
    /\ phone = {}
    /\ note = [o \in Order |-> None]
    /\ captured = {}
    /\ exact \in SUBSET Order
    /\ said = [a \in Attempt |-> "none"]
    /\ pc = [w \in Process |-> "idle"]
    /\ att = [w \in Process |-> None]
    /\ ord = [w \in Process |-> None]
    /\ way = [w \in Process |-> "none"]
    /\ seen = [w \in Process |-> "none"]
    /\ blank = [w \in Process |-> FALSE]
    /\ todo = {} /\ found = {}
    /\ faults = 0

-----------------------------------------------------------------------------
(* Collection: the launch of an attempt, a manual payment.                   *)

\* The attempt a launch writes: the retryable one if there is one, else new.
Launch(a) ==
    /\ Collectable(Home[a])
    /\ IF Retryable(Home[a]) = {} THEN status[a] = "none" ELSE a \in Retryable(Home[a])
    /\ Put(a, "launched")
    /\ order' = [order EXCEPT ![a] = None]
    /\ nonce' = [nonce EXCEPT ![a] = TRUE]
    /\ op' = [op EXCEPT ![a] = "none"]
    /\ opBy' = [opBy EXCEPT ![a] = None]
    /\ lapsed' = lapsed \ {a}
    /\ phone' = phone \cup {a}
    /\ said' = [said EXCEPT ![a] = "none"]
    /\ UNCHANGED <<dismissed, ledger, note, captured, exact, local, faults>>

ManualPay(p) ==
    /\ Collectable(p)
    /\ cash' = cash \cup {p}
    /\ status' = [a \in Attempt |-> IF a \in Retryable(p) THEN "canceled" ELSE status[a]]
    /\ UNCHANGED <<order, nonce, op, opBy, lapsed, dismissed, payment, square, local,
                   faults>>

\* expireStalePaymentAttempts and its form for one appointment.
Expired(s) ==
    [a \in Attempt |-> IF a \in s \cap lapsed /\ status[a] \in Active
                       THEN "expired" ELSE status[a]]

\* A collection that is refused has still expired what had to be.
CollectRefused(p) ==
    /\ \E a \in AttemptsOf(p) \cap lapsed : status[a] \in Active
    /\ status' = Expired(AttemptsOf(p))
    /\ UNCHANGED <<order, nonce, op, opBy, lapsed, dismissed, ledger, square, local,
                   faults>>

Lapse(a) ==
    /\ status[a] # "none" /\ a \notin lapsed
    /\ lapsed' = lapsed \cup {a}
    /\ UNCHANGED <<status, order, nonce, op, opBy, dismissed, ledger, square, local,
                   faults>>

\* The owner dismisses what she has seen no charge for.
Dismiss(a) ==
    /\ status[a] \in Unresolved
    /\ Put(a, "canceled")
    /\ dismissed' = dismissed \cup {a}
    /\ UNCHANGED <<order, nonce, op, opBy, lapsed, ledger, square, local, faults>>

-----------------------------------------------------------------------------
(* The phone and Square.                                                     *)

Place(o, a) ==
    /\ note[o] = None /\ a \in phone
    /\ note' = [note EXCEPT ![o] = a]
    /\ UNCHANGED <<row, ledger, phone, captured, exact, said, local, faults>>

\* A sale at the counter, outside of every attempt.
PlaceForeign(o) ==
    /\ note[o] = None
    /\ note' = [note EXCEPT ![o] = Stranger]
    /\ UNCHANGED <<row, ledger, phone, captured, exact, said, local, faults>>

Capture(o) ==
    /\ note[o] # None /\ o \notin captured
    /\ captured' = captured \cup {o}
    /\ UNCHANGED <<row, ledger, phone, note, exact, said, local, faults>>

\* The phone returns to the page: with a code that says nothing was charged,
\* with an order, or with neither.
Answer(a) ==
    /\ a \in phone /\ said[a] = "none"
    /\ \/ /\ \A o \in Order : note[o] # a
          /\ said' = [said EXCEPT ![a] = "canceled"]
          /\ phone' = phone \ {a}
       \/ /\ said' = [said EXCEPT ![a] = "unknown"]
          /\ UNCHANGED phone
       \/ \E o \in Order :
             /\ note[o] = a
             /\ said' = [said EXCEPT ![a] = o]
             /\ phone' = phone \ {a}
    /\ UNCHANGED <<row, ledger, note, captured, exact, local, faults>>

-----------------------------------------------------------------------------
(* Every process: take up an attempt, come back, fail.                       *)

Enter(w, how, a, o, step) ==
    /\ way' = [way EXCEPT ![w] = how]
    /\ att' = [att EXCEPT ![w] = a]
    /\ ord' = [ord EXCEPT ![w] = o]
    /\ To(w, step)

Leave(w, step) ==
    /\ To(w, step)
    /\ att' = [att EXCEPT ![w] = None]
    /\ ord' = [ord EXCEPT ![w] = None]
    /\ way' = [way EXCEPT ![w] = "none"]
    /\ seen' = [seen EXCEPT ![w] = "none"]
    /\ blank' = [blank EXCEPT ![w] = FALSE]

Done(w) ==
    /\ Leave(w, IF way[w] = "visit" THEN "attempts"
                ELSE IF way[w] = "import" THEN "payments" ELSE "idle")
    /\ UNCHANGED <<todo, found>>

\* An exception.  The sweep catches it around a payment, not around an attempt.
Throw(w) ==
    /\ Leave(w, IF way[w] = "import" THEN "payments" ELSE "idle")
    /\ todo' = IF way[w] = "visit" THEN {} ELSE todo
    /\ UNCHANGED found

Die(w) ==
    /\ pc[w] # "idle" /\ faults < MaxFaults
    /\ Leave(w, "idle")
    /\ todo' = IF w = Sweep THEN {} ELSE todo
    /\ found' = IF w = Sweep THEN {} ELSE found
    /\ faults' = faults + 1
    /\ UNCHANGED <<row, ledger, square>>

-----------------------------------------------------------------------------
(* The callback of the phone.                                                *)

Names(a) == said[a] \in Order

\* The callback may still speak for the attempt, and names no other order.
BindingAnyOrder(a) ==   \* mutant: another order is not a conflict
    said[a] # "none" /\ a \notin lapsed
Binding(a) ==
    /\ said[a] # "none" /\ a \notin lapsed
    /\ Names(a) => order[a] \in {None, said[a]}

Prepare(w, a) ==
    /\ pc[w] = "idle" /\ Binding(a)
    /\ \/ op[a] = "requested"
       \/ op[a] = "none" /\ nonce[a] /\ status[a] \in Active \cup {"completed"}
    /\ nonce' = [nonce EXCEPT ![a] = FALSE]
    /\ op' = [op EXCEPT ![a] = "requested"]
    /\ opBy' = [opBy EXCEPT ![a] = w]
    /\ order' = IF Names(a) THEN [order EXCEPT ![a] = said[a]] ELSE order
    /\ IF Names(a) THEN Enter(w, "return", a, said[a], "dispatch")
                   ELSE Enter(w, "return", a, None, "record")
    /\ blank' = [blank EXCEPT ![w] = said[a] = "canceled" /\ order[a] = None]
    /\ UNCHANGED <<status, lapsed, dismissed, ledger, square, seen, todo, found, faults>>

\* The operation of another execution that may already be at Square.
TakeOver(w, a) ==
    /\ pc[w] = "idle" /\ Binding(a) /\ op[a] = "dispatched" /\ IndexAllows(a)
    /\ Put(a, "pending_verification")
    /\ nonce' = [nonce EXCEPT ![a] = FALSE]
    /\ op' = [op EXCEPT ![a] = "finished"]
    /\ UNCHANGED <<order, opBy, lapsed, dismissed, ledger, square, local, faults>>

Holds(w, phase) == op[att[w]] = phase /\ opBy[att[w]] = w

\* A callback without an order.
OutcomeRetry(w) == "retryable"   \* mutant: no order, so nothing was charged
Outcome(w) == IF blank[w] THEN "retryable" ELSE "pending_verification"
Record(w) ==
    /\ pc[w] = "record"
    /\ IF Holds(w, "requested") /\ (Outcome(w) = "retryable" \/ IndexAllows(att[w]))
       THEN /\ Put(att[w], Outcome(w))
            /\ op' = [op EXCEPT ![att[w]] = "finished"]
            /\ nonce' = [nonce EXCEPT ![att[w]] = FALSE]
            /\ Done(w)
       ELSE Throw(w) /\ UNCHANGED <<status, op, nonce>>
    /\ UNCHANGED <<order, opBy, lapsed, dismissed, ledger, square, faults>>

Dispatch(w) ==
    /\ pc[w] = "dispatch"
    /\ IF Holds(w, "requested") /\ IndexAllows(att[w])
       THEN /\ Put(att[w], "pending_verification")
            /\ order' = [order EXCEPT ![att[w]] = ord[w]]
            /\ op' = [op EXCEPT ![att[w]] = "dispatched"]
            /\ To(w, "begin")
            /\ UNCHANGED <<att, ord, way, seen, blank, todo, found>>
       ELSE Throw(w) /\ UNCHANGED <<status, order, op>>
    /\ UNCHANGED <<nonce, opBy, lapsed, dismissed, ledger, square, faults>>

-----------------------------------------------------------------------------
(* The webhook and the import of the sweep, for one payment of Square.       *)

\* resolveAttemptForSquarePayment.
TargetsByNote(o) ==   \* mutant: the note is believed unread
    IF note[o] # None THEN {note[o]} ELSE {a \in Attempt : order[a] = o}
Targets(o) ==
    IF note[o] \in Attempt THEN {note[o]} ELSE {a \in Attempt : order[a] = o}

\* upsertSquarePaymentForReview: never over a row that is there.
Import(o) ==
    payment' = IF payment[o] = None THEN [payment EXCEPT ![o] = Review] ELSE payment

Resolve(w, how, o) ==
    IF Targets(o) = {}
    THEN Import(o) /\ UNCHANGED <<pc, att, ord, way>>
    ELSE /\ \E a \in Targets(o) : Enter(w, how, a, o, "match")
         /\ UNCHANGED payment

Event(w, o) ==
    /\ pc[w] = "idle" /\ note[o] # None
    /\ Resolve(w, "check", o)
    /\ UNCHANGED <<row, cash, square, seen, blank, todo, found, faults>>

\* A refund is reconciled before the payment it belongs to was: the payment is
\* imported without an attempt, whatever its note says.
RefundFirst(o) ==
    /\ o \in captured
    /\ Import(o)
    /\ UNCHANGED <<row, cash, square, local, faults>>

\* A completed attempt that was paid by another order.
Another(a, o) ==
    /\ status[a] = "completed"
    /\ IF \E x \in Order : payment[x] = a
       THEN payment[o] # a ELSE order[a] \notin {None, o}

Match(w) ==
    /\ pc[w] = "match"
    /\ IF Another(att[w], ord[w])
       THEN Import(ord[w]) /\ Done(w)
       ELSE /\ To(w, "begin")
            /\ UNCHANGED <<payment, att, ord, way, seen, blank, todo, found>>
    /\ UNCHANGED <<row, cash, square, faults>>

-----------------------------------------------------------------------------
(* The worker's sweep and the owner's retry.                                 *)

SweepNoExpiry ==   \* mutant: the sweep no longer expires what is past
    /\ pc[Sweep] = "idle"
    /\ To(Sweep, "select")
    /\ UNCHANGED <<row, ledger, square, att, ord, way, seen, blank, todo, found, faults>>
SweepExpire ==
    /\ pc[Sweep] = "idle"
    /\ status' = Expired(Attempt)
    /\ To(Sweep, "select")
    /\ UNCHANGED <<order, nonce, op, opBy, lapsed, dismissed, ledger, square, att, ord,
                   way, seen, blank, todo, found, faults>>

SweepSelect ==
    /\ pc[Sweep] = "select"
    /\ todo' = {a \in Attempt : status[a] \in Active \cup {"expired"} /\ order[a] # None}
    /\ To(Sweep, "attempts")
    /\ UNCHANGED <<row, ledger, square, att, ord, way, seen, blank, found, faults>>

SweepVisit(a) ==
    /\ pc[Sweep] = "attempts" /\ a \in todo
    /\ todo' = todo \ {a}
    /\ Enter(Sweep, "visit", a, order[a], "begin")
    /\ UNCHANGED <<row, ledger, square, seen, blank, found, faults>>

\* The completed payments of Square without a row, and those whose row under
\* review dates from before the charge was complete, whichever these are.
SweepList ==
    /\ pc[Sweep] = "attempts" /\ todo = {}
    /\ \E early \in SUBSET {o \in captured : payment[o] = Review} :
          found' = {o \in captured : payment[o] = None} \cup early
    /\ To(Sweep, "payments")
    /\ UNCHANGED <<row, ledger, square, att, ord, way, seen, blank, todo, faults>>

SweepImport(o) ==
    /\ pc[Sweep] = "payments" /\ o \in found
    /\ found' = found \ {o}
    /\ Resolve(Sweep, "import", o)
    /\ UNCHANGED <<row, cash, square, seen, blank, todo, faults>>

SweepEnd ==
    /\ pc[Sweep] = "payments" /\ found = {}
    /\ To(Sweep, "idle")
    /\ UNCHANGED <<row, ledger, square, att, ord, way, seen, blank, todo, found, faults>>

OwnerRetry(w, a) ==
    /\ pc[w] = "idle" /\ status[a] # "none"
    /\ Enter(w, "check", a, None, "begin")
    /\ UNCHANGED <<row, ledger, square, seen, blank, todo, found, faults>>

-----------------------------------------------------------------------------
(* reconcileSquareAttempt.                                                   *)

\* The order asked for: the caller's, else the attempt's own.
Wanted(w) == IF ord[w] = None THEN order[att[w]] ELSE ord[w]

Bound(a, o) == payment[o] = a /\ order[a] = o

\* The unlocked read.
Begin(w) ==
    /\ pc[w] = "begin"
    /\ IF Wanted(w) = None \/ order[att[w]] \notin {None, Wanted(w)}
       THEN Done(w)
       ELSE IF status[att[w]] = "completed"
       THEN IF Bound(att[w], Wanted(w)) /\ way[w] = "return"
            THEN To(w, "confirm") /\ UNCHANGED <<att, ord, way, seen, blank, todo, found>>
            ELSE Done(w)
       ELSE /\ To(w, "ask")
            /\ ord' = [ord EXCEPT ![w] = Wanted(w)]
            /\ UNCHANGED <<att, way, seen, blank, todo, found>>
    /\ UNCHANGED <<row, ledger, square, faults>>

Answers(w, answer) == seen' = [seen EXCEPT ![w] = answer] /\ To(w, "commit")

\* retrieveAndVerifySquarePayment.
Ask(w) ==
    /\ pc[w] = "ask"
    /\ \/ /\ IF note[ord[w]] # att[w] THEN Answers(w, "mismatch")
             ELSE IF ord[w] \notin captured THEN Answers(w, "pending")
             ELSE IF ord[w] \in exact THEN Answers(w, "verified")
             ELSE Answers(w, "mismatch")
          /\ UNCHANGED faults
       \/ /\ faults < MaxFaults /\ faults' = faults + 1
          /\ Answers(w, "pending")
    /\ UNCHANGED <<row, ledger, square, att, ord, way, blank, todo, found>>

\* assertLockedAttempt.
FenceCallback(w) ==   \* mutant: only the callback's operation is compared
    way[w] = "return" => Holds(w, "dispatched")
Fence(w) ==
    /\ order[att[w]] \in {None, ord[w]}
    /\ way[w] = "return" => Holds(w, "dispatched")

\* The callback's finalizer, in the same transaction.
Finish(w) ==
    IF way[w] = "return"
    THEN /\ op' = [op EXCEPT ![att[w]] = "finished"]
         /\ nonce' = [nonce EXCEPT ![att[w]] = FALSE]
    ELSE UNCHANGED <<op, nonce>>

Confirm(w) ==
    /\ pc[w] = "confirm"
    /\ IF status[att[w]] = "completed" /\ Fence(w)
       THEN Finish(w) /\ Done(w)
       ELSE Throw(w) /\ UNCHANGED <<op, nonce>>
    /\ UNCHANGED <<status, order, opBy, lapsed, dismissed, ledger, square, faults>>

\* The attempt gets a status and the order, and the callback its receipt.
Write(w, s) ==
    /\ Put(att[w], s)
    /\ order' = [order EXCEPT ![att[w]] = ord[w]]
    /\ Finish(w)
    /\ Done(w)

Refuse(w) == Throw(w) /\ UNCHANGED <<status, order, op, nonce, payment>>
Skip(w) == Finish(w) /\ Done(w) /\ UNCHANGED <<status, order, payment>>

\* Square did not confirm the charge: the attempt is completed all the same,
\* or it takes the status of the answer whatever it was.
CommitUnverified(w) ==
    /\ pc[w] = "commit" /\ seen[w] \in {"pending", "mismatch"}
    /\ IF ~Fence(w) THEN Refuse(w)
       ELSE IF status[att[w]] = "completed" THEN Skip(w)
       ELSE IF seen[w] = "mismatch" THEN Write(w, "needs_review") /\ UNCHANGED payment
       ELSE IF IndexAllows(att[w]) THEN Write(w, "pending_verification") /\ UNCHANGED payment
       ELSE Refuse(w)
    /\ UNCHANGED <<opBy, lapsed, dismissed, cash, square, faults>>

Taken(a, o) ==
    payment[o] \notin {None, a} \/ \E x \in Order \ {o} : payment[x] = a

CommitVerified(w) ==
    /\ pc[w] = "commit" /\ seen[w] = "verified"
    /\ IF ~Fence(w) THEN Refuse(w)
       ELSE IF Taken(att[w], ord[w])
       THEN IF status[att[w]] = "completed" THEN Skip(w)
            ELSE Write(w, "needs_review") /\ UNCHANGED payment
       ELSE IF status[att[w]] \in Active \cup {"completed"}
       THEN /\ payment' = [payment EXCEPT ![ord[w]] = att[w]]
            /\ Write(w, "completed")
       ELSE Refuse(w)
    /\ UNCHANGED <<opBy, lapsed, dismissed, cash, square, faults>>

Reconcile(w) ==
    Match(w) \/ Begin(w) \/ Ask(w) \/ Confirm(w) \/ CommitUnverified(w) \/ CommitVerified(w)

-----------------------------------------------------------------------------
Next ==
    \/ \E a \in Attempt : Launch(a) \/ Lapse(a) \/ Dismiss(a) \/ Answer(a)
    \/ \E p \in Appt : ManualPay(p) \/ CollectRefused(p)
    \/ \E o \in Order, a \in Attempt : Place(o, a)
    \/ \E o \in Order : PlaceForeign(o) \/ Capture(o) \/ RefundFirst(o)
    \/ \E w \in Request, a \in Attempt : Prepare(w, a) \/ TakeOver(w, a) \/ OwnerRetry(w, a)
    \/ \E w \in Request, o \in Order : Event(w, o)
    \/ \E w \in Request : Record(w) \/ Dispatch(w)
    \/ SweepExpire \/ SweepSelect \/ SweepList \/ SweepEnd
    \/ \E a \in Attempt : SweepVisit(a)
    \/ \E o \in Order : SweepImport(o)
    \/ \E w \in Process : Reconcile(w) \/ Die(w)

Spec == Init /\ [][Next]_vars

\* The worker keeps sweeping, and the half hour of an attempt passes.
Loops ==
    /\ WF_vars(SweepExpire \/ SweepSelect \/ SweepList \/ SweepEnd
               \/ (\E a \in Attempt : SweepVisit(a)) \/ (\E o \in Order : SweepImport(o))
               \/ Reconcile(Sweep))
    /\ \A a \in Attempt : WF_vars(Lapse(a))

FairSpec == Spec /\ Loops

\* With the webhook online as well: Square goes on reporting each order, and
\* what it starts ends.
OnlineSpec ==
    /\ FairSpec
    /\ \A o \in Order : SF_vars(\E w \in Request : Event(w, o))
    /\ \A w \in Request : WF_vars(Record(w) \/ Dispatch(w) \/ Reconcile(w))

-----------------------------------------------------------------------------
(* Properties.                                                               *)

\* Every variable has the values the columns and the code allow.
TypeOK ==
    /\ status \in [Attempt -> Status]
    /\ order \in [Attempt -> Order \cup {None}]
    /\ nonce \in [Attempt -> BOOLEAN]
    /\ op \in [Attempt -> {"none", "requested", "dispatched", "finished"}]
    /\ opBy \in [Attempt -> Request \cup {None}]
    /\ lapsed \in SUBSET Attempt /\ dismissed \in SUBSET Attempt
    /\ cash \in SUBSET Appt
    /\ payment \in [Order -> Attempt \cup {None, Review}]
    /\ phone \in SUBSET Attempt
    /\ note \in [Order -> Attempt \cup {None, Stranger}]
    /\ captured \in SUBSET Order /\ exact \in SUBSET Order
    /\ said \in [Attempt -> Said]
    /\ pc \in [Process -> PC]
    /\ att \in [Process -> Attempt \cup {None}]
    /\ ord \in [Process -> Order \cup {None}]
    /\ way \in [Process -> {"none", "check", "import", "visit", "return"}]
    /\ seen \in [Process -> {"none", "verified", "pending", "mismatch"}]
    /\ blank \in [Process -> BOOLEAN]
    /\ todo \in SUBSET Attempt /\ found \in SUBSET Order
    /\ faults \in 0 .. MaxFaults

\* The ledger tells the truth about the card: a row bound to an attempt stands
\* for a charge Square completed, of the right amount, under that attempt's
\* note, and the attempt still names it, so none is bound twice; and an attempt
\* is completed only with such a row.  Four processes bind rows from what they
\* read before they asked Square.
LedgerIsBacked ==
    /\ \A o \in Order, a \in Attempt : payment[o] = a =>
          note[o] = a /\ o \in captured \cap exact /\ order[a] = o
    /\ \A a \in Attempt : status[a] = "completed" => \E o \in Order : payment[o] = a

\* What an attempt knows of Square is never forgotten: neither a late callback
\* nor a relaunch takes away the order, and a row of the ledger stays what it
\* is once it is bound or under review.
ReferencesStay ==
    [][/\ \A a \in Attempt : order[a] # None => order'[a] = order[a]
       /\ \A o \in Order : payment[o] # None => payment'[o] = payment[o]]_vars

Collected(p) ==
    \/ p \notin cash /\ p \in cash'
    \/ \E a \in AttemptsOf(p) : status[a] # "launched" /\ status'[a] = "launched"

\* A customer is not asked to pay again while a charge of the appointment is
\* out: when collection starts, whatever Square holds for it belongs to an
\* attempt the owner dismissed before any order of it was known.
NoSecondCharge ==
    [][\A p \in Appt : Collected(p) =>
         \A o \in Order : note[o] \in AttemptsOf(p) =>
            note[o] \in dismissed /\ order[note[o]] = None]_vars

\* Square holds no order of the attempt, and its phone can place none.
Chargeless(a) == a \notin phone /\ \A o \in Order : note[o] # a

\* An appointment is charged under one of its attempts or paid in cash, not
\* both, at any time and by whatever is still under way on a phone or at Square:
\* of two attempts one has no charge and can get none, unless it was dismissed.
OneWayToPay ==
    \A p \in Appt :
        /\ \A a, b \in AttemptsOf(p) \ dismissed : a # b => Chargeless(a) \/ Chargeless(b)
        /\ p \in cash => \A a \in AttemptsOf(p) \ dismissed : Chargeless(a)

Held(a) == status[a] \in Unresolved \/ a \in dismissed

\* An expired attempt whose charge is good: the sweep throws on it.
Jammed == \E a \in Attempt : status[a] = "expired" /\ order[a] \in captured \cap exact

\* No charge goes unnoticed: it reaches the ledger, or its attempt stands on the
\* owner's list, or the sweep itself is jammed there.
ChargeIsNoticed ==
    \A o \in Order : o \in captured ~>
        \/ payment[o] # None
        \/ note[o] \in Attempt /\ Held(note[o])
        \/ Jammed

\* APPOINTMENT_MEDIA_SQUARE_RUNBOOK.md:779, "Square returned but status is
\* pending | Do not charge again; wait for webhook/reconciliation or run an owner
\* sweep": an attempt that waits for a good charge gets it, unless dismissed.
PendingSettles ==
    \A a \in Attempt :
        (status[a] = "pending_verification" /\ order[a] \in captured \cap exact)
        ~> (status[a] = "completed" \/ a \in dismissed)
=============================================================================
