--------------------------- MODULE MessageDispatch ---------------------------
(***************************************************************************)
(* One outbound conversation message of one contact, from the outbox row   *)
(* that queues it to the provider that receives it: the batch loop of      *)
(* apps/api/src/lib/outbox-processor.ts, the durable dispatch ledger of    *)
(* external-message-dispatch.ts, the inbox's manual retry, the contact     *)
(* DELETE and restore routes, the Do Not Contact switch and the delivery   *)
(* callbacks of the SMS provider.                                          *)
(*                                                                         *)
(* Each database transaction is one action.  The provider call is outside  *)
(* every transaction, between the claim and the finalization.  Several     *)
(* workers run at once (the outbox worker and the dispatch endpoint call   *)
(* the same batch function, which takes no lock on the rows it reads), and *)
(* each carries the attempt number of the snapshot it polled.              *)
(***************************************************************************)
EXTENDS Naturals, FiniteSets

CONSTANTS
    Worker,        \* concurrent executions of processOutboxBatch
    MaxEvents,     \* bound: outbox rows that ever exist for the message
    MaxAttempts,   \* MAX_MESSAGE_SEND_ATTEMPTS of outbox-processor.ts
    AttemptBound,  \* bound: largest attempt number a worker may carry
    MaxFaults,     \* bound: process deaths and failed transactions
    MaxDefers,     \* bound: attempt numbers that interruptions consume unsent
    Recipient      \* whether toAddress is set when the message is created

ASSUME WorkersAssumption == IsFiniteSet(Worker)
ASSUME BoundsAssumption ==
    /\ MaxEvents \in Nat \ {0}
    /\ MaxAttempts \in Nat \ {0}
    /\ AttemptBound \in Nat \ {0}
    /\ MaxFaults \in Nat
    /\ MaxDefers \in Nat
    /\ Recipient \subseteq BOOLEAN

Event   == 1 .. MaxEvents          \* outbox_events rows, in creation order
Attempt == 1 .. AttemptBound
Key     == Event \X Attempt        \* unique index (outbox_event_id, attempt_number)
NoKey   == <<0, 0>>

DeliveryStatus == {"queued", "sent", "delivered", "failed"}
EventState     == {"absent", "pending", "processed", "quarantined"}
DispatchState  == {"none", "requested", "dispatched", "succeeded", "failed",
                   "reconciliation_required"}
ProviderResult == {"ok", "transient", "permanent", "uncertain"}
Outcome        == {"processed", "retry"}
PC == {"idle", "guard", "quarantine", "read", "missing", "request", "claim",
       "send", "settle", "finish"}

VARIABLES
    contact,    \* [deleted, dnc]: contacts.deletedAt, contacts.doNotContact
    message,    \* conversation_messages.deliveryStatus
    override,   \* metadata.allowDncOverride, written once with the message
    addressed,  \* conversation_messages.toAddress is set
    sid,        \* conversation_messages.providerMessageId is set
    event,      \* outbox_events rows of the message
    dispatch,   \* external_message_dispatches rows of the message
    latest,     \* the dispatch row created last
    pc, at, reply,  \* per worker: next step, the attempt it carries, its result
    callback,   \* a status callback between its read and its write
    faults,     \* budget spent: deaths and failed transactions
    skipped,    \* history: attempt numbers consumed by a worker that sent nothing
    calls,      \* history: provider calls made for each attempt
    delivered   \* history: attempts whose message the provider accepted

rows    == <<message, override, addressed, sid, event, dispatch, latest>>
locals  == <<pc, at, reply>>
budgets == <<faults, skipped>>
history == <<calls, delivered>>
vars    == <<contact, rows, locals, callback, budgets, history>>

-----------------------------------------------------------------------------

\* nextAttemptAt: absent or past, a retry delay, the uncertainty deadline of a
\* claim, or of no more consequence because the row is no longer dispatchable.
Timer       == {"due", "delay", "deadline", "never"}
EventRow    == [state: EventState, attempts: 0 .. AttemptBound, next: Timer]
DispatchRow == [state: DispatchState, open: BOOLEAN, retryable: BOOLEAN]

NoRow == [state |-> "none", open |-> FALSE, retryable |-> FALSE]

Dispatchable(e) == event[e].state = "pending"

\* planContactDispatchEligibility
Eligible == ~contact.deleted /\ (contact.dnc => override)

Settled(k) == dispatch[k].state \in {"succeeded", "failed", "reconciliation_required"}

\* dispatched, and its uncertainty window still open
InFlight(k) == dispatch[k].state = "dispatched" /\ dispatch[k].open

\* The event of a row after the guarded quarantine update the code repeats:
\* "where processedAt is null and quarantinedAt is null".
Quarantined(e) ==
    IF Dispatchable(e)
    THEN [event EXCEPT ![e].state = "quarantined", ![e].next = "never"]
    ELSE event

Moved(w, step)   == pc' = [pc EXCEPT ![w] = step]
Replied(w, what) == reply' = [reply EXCEPT ![w] = what]

\* The worker leaves the event as it is (skipFinalization, or it dies).
Leave(w) ==
    /\ pc' = [pc EXCEPT ![w] = "idle"]
    /\ at' = [at EXCEPT ![w] = NoKey]
    /\ reply' = [reply EXCEPT ![w] = "none"]

\* The handler returns an outcome that finalizeOutboxEvent will persist.
Return(w, outcome) == Moved(w, "finish") /\ Replied(w, outcome) /\ UNCHANGED at

\* The worker's attempt number will be written to its row, and it has sent
\* nothing under it; somebody else may have.
Skips(w) ==
    /\ Cardinality(skipped \cup {at[w]}) <= MaxDefers
    /\ skipped' = skipped \cup {at[w]}

\* The durable result of a settled attempt: a reconciliation_required row is
\* final for its event already (skipFinalization), the others are persisted.
\* Mutant: what another worker settled is never retried.
ReportProcessed(w, k) ==
    IF dispatch[k].state = "reconciliation_required" THEN Leave(w) ELSE Return(w, "processed")
Report(w, k) ==
    IF dispatch[k].state = "reconciliation_required"
    THEN Leave(w)
    ELSE Return(w, IF dispatch[k].state = "failed" /\ dispatch[k].retryable
                   THEN "retry" ELSE "processed")

-----------------------------------------------------------------------------

\* The message and its outbox row are inserted in one transaction.  The
\* contact may be deleted already: a row can be enqueued after the deletion.
Init ==
    /\ contact \in [deleted: BOOLEAN, dnc: BOOLEAN]
    /\ message = "queued"
    /\ override \in BOOLEAN
    /\ addressed \in Recipient
    /\ sid = FALSE
    /\ event = [e \in Event |->
                  [state |-> IF e = 1 THEN "pending" ELSE "absent",
                   attempts |-> 0,
                   next |-> IF e = 1 THEN "due" ELSE "never"]]
    /\ dispatch = [k \in Key |-> NoRow]
    /\ latest = NoKey
    /\ pc = [w \in Worker |-> "idle"]
    /\ at = [w \in Worker |-> NoKey]
    /\ reply = [w \in Worker |-> "none"]
    /\ callback = "none"
    /\ faults = 0
    /\ skipped = {}
    /\ calls = [k \in Key |-> 0]
    /\ delivered = {}

\* The batch SELECT: unprocessed, unquarantined and due, without a row lock.
\* The attempt number is fixed here, from the snapshot.
Poll(w, e) ==
    /\ pc[w] = "idle"
    /\ Dispatchable(e)
    /\ event[e].next = "due"
    /\ event[e].attempts < AttemptBound
    /\ Moved(w, "guard")
    /\ at' = [at EXCEPT ![w] = <<e, event[e].attempts + 1>>]
    /\ UNCHANGED <<contact, rows, reply, callback, budgets, history>>

\* resolveContactForOutboxEvent: the contact's deletion mark is read.
Guard(w) ==
    /\ pc[w] = "guard"
    /\ Moved(w, IF contact.deleted THEN "quarantine" ELSE "read")
    /\ UNCHANGED <<contact, rows, at, reply, callback, budgets, history>>

\* quarantineOutboxEventForDeletedContact, a transaction after that read.
QuarantineDeleted(w) ==
    /\ pc[w] = "quarantine"
    /\ event' = Quarantined(at[w][1])
    /\ Leave(w)
    /\ UNCHANGED <<contact, message, override, addressed, sid, dispatch,
                   latest, callback, budgets, history>>

\* The guard throws (contact_dispatch_guard_failed): the row's attempts are
\* overwritten from the snapshot whatever the row has become since.
GuardFail(w) ==
    /\ pc[w] \in {"guard", "quarantine"}
    /\ Skips(w)
    /\ event' = [event EXCEPT ![at[w][1]].attempts = at[w][2],
                              ![at[w][1]].next =
                                 IF Dispatchable(at[w][1]) THEN "delay" ELSE "never"]
    /\ Leave(w)
    /\ UNCHANGED <<contact, message, override, addressed, sid, dispatch,
                   latest, callback, faults, history>>

\* message.send reads the message row.  A deleted contact is skipped, a sent
\* message is done: both persist as processed.
ReadDone(w) ==
    /\ pc[w] = "read"
    /\ contact.deleted \/ message \in {"sent", "delivered"}
    /\ Return(w, "processed")
    /\ UNCHANGED <<contact, rows, callback, budgets, history>>

Sendable(w) ==
    /\ pc[w] = "read"
    /\ ~contact.deleted
    /\ message \notin {"sent", "delivered"}

\* Quiet hours, or the typing delay of a direct message: retry later.  The
\* attempt number is consumed although nothing was requested under it.
ReadDefers(w) ==
    /\ Sendable(w)
    /\ Skips(w)
    /\ Return(w, "retry")
    /\ UNCHANGED <<contact, rows, callback, faults, history>>

\* A query of the handler throws: outcomeForOutboxHandlerError.
ReadThrows(w) ==
    /\ pc[w] = "read"
    /\ Skips(w)
    /\ Return(w, IF at[w][2] < MaxAttempts THEN "retry" ELSE "processed")
    /\ UNCHANGED <<contact, rows, callback, faults, history>>

\* The message has no address and the contact none to give.
ReadMissing(w) ==
    /\ Sendable(w)
    /\ ~addressed
    /\ Moved(w, "missing")
    /\ UNCHANGED <<contact, rows, at, reply, callback, budgets, history>>

MarkMissing(w) ==
    /\ pc[w] = "missing"
    /\ message' = "failed"
    /\ Return(w, "processed")
    /\ UNCHANGED <<contact, override, addressed, sid, event, dispatch, latest,
                   callback, budgets, history>>

\* A recipient is known and persisted before the durable request.
ReadRecipient(w) ==
    /\ Sendable(w)
    /\ addressed' = TRUE
    /\ Moved(w, "request")
    /\ UNCHANGED <<contact, message, override, sid, event, dispatch, latest, at,
                   reply, callback, budgets, history>>

-----------------------------------------------------------------------------
(* ensureMessageDispatchRequested, claimMessageDispatch, the provider call   *)
(* and finalizeMessageDispatch.                                              *)

Request(w) ==
    LET k == at[w]
        e == k[1]
    IN  /\ pc[w] = "request"
        /\ \/ /\ ~Dispatchable(e)
              /\ Leave(w)
              /\ UNCHANGED <<event, message, dispatch, latest>>
           \/ /\ Dispatchable(e)
              /\ ~Eligible
              /\ dispatch[k].state \in {"none", "requested"}
              /\ event' = Quarantined(e)
              /\ message' = "failed"
              /\ Leave(w)
              /\ UNCHANGED <<dispatch, latest>>
           \/ /\ Dispatchable(e)
              /\ dispatch[k].state # "none"
              /\ Eligible \/ dispatch[k].state # "requested"
              /\ Moved(w, "claim")
              /\ UNCHANGED <<event, message, dispatch, latest, at, reply>>
           \/ /\ Dispatchable(e)
              /\ Eligible
              /\ dispatch[k].state = "none"
              /\ dispatch' = [dispatch EXCEPT ![k].state = "requested"]
              /\ latest' = k
              /\ Moved(w, "claim")
              /\ UNCHANGED <<event, message, at, reply>>
        /\ UNCHANGED <<contact, override, addressed, sid, callback, budgets, history>>

\* Mutant: an attempt left unresolved past its deadline is sent again.
ClaimDispatchAgain(w) ==
    LET k == at[w]
    IN  /\ pc[w] = "claim"
        /\ dispatch[k].state \in {"requested", "dispatched"} /\ ~dispatch[k].open
        /\ Eligible
        /\ dispatch' = [dispatch EXCEPT ![k].state = "dispatched", ![k].open = TRUE]
        /\ Moved(w, "send")
        /\ UNCHANGED <<contact, message, override, addressed, sid, event, latest, at,
                       reply, callback, budgets, history>>

\* The attempt becomes this worker's to send.  The state of the outbox row is
\* not looked at again; it is only postponed to the uncertainty deadline.
ClaimDispatch(w) ==
    LET k == at[w]
    IN  /\ pc[w] = "claim"
        /\ dispatch[k].state = "requested"
        /\ Eligible
        /\ dispatch' = [dispatch EXCEPT ![k].state = "dispatched", ![k].open = TRUE]
        /\ event' = IF Dispatchable(k[1])
                    THEN [event EXCEPT ![k[1]].next = "deadline"] ELSE event
        /\ Moved(w, "send")
        /\ UNCHANGED <<contact, message, override, addressed, sid, latest, at,
                       reply, callback, budgets, history>>

ClaimBlocked(w) ==
    LET k == at[w]
    IN  /\ pc[w] = "claim"
        /\ dispatch[k].state = "requested"
        /\ ~Eligible
        /\ dispatch' = [dispatch EXCEPT ![k].state = "failed"]
        /\ event' = Quarantined(k[1])
        /\ message' = "failed"
        /\ Leave(w)
        /\ UNCHANGED <<contact, override, addressed, sid, latest, callback,
                       budgets, history>>

\* Mutant: an attempt in flight elsewhere counts as done.
ClaimInFlightDone(w) ==
    /\ pc[w] = "claim"
    /\ InFlight(at[w])
    /\ Return(w, "processed")
    /\ UNCHANGED <<contact, rows, callback, budgets, history>>

\* dispatched, and its uncertainty window still open: another worker sends.
ClaimInFlight(w) ==
    /\ pc[w] = "claim"
    /\ InFlight(at[w])
    /\ Leave(w)
    /\ UNCHANGED <<contact, rows, callback, budgets, history>>

\* Mutants of the next action: the deadline passes without effect; the attempt
\* is written off as failed; the row is not quarantined.
ClaimWaitsOn(w) ==
    /\ pc[w] = "claim"
    /\ dispatch[at[w]].state = "dispatched" /\ ~dispatch[at[w]].open
    /\ Leave(w)
    /\ UNCHANGED <<contact, rows, callback, budgets, history>>
ClaimWritesOff(w) ==
    LET k == at[w]
    IN  /\ pc[w] = "claim"
        /\ dispatch[k].state = "dispatched" /\ ~dispatch[k].open
        /\ dispatch' = [dispatch EXCEPT ![k].state = "failed"]
        /\ message' = "failed"
        /\ event' = Quarantined(k[1])
        /\ Leave(w)
        /\ UNCHANGED <<contact, override, addressed, sid, latest, callback, budgets, history>>
ClaimKeepsRow(w) ==
    LET k == at[w]
    IN  /\ pc[w] = "claim"
        /\ dispatch[k].state = "dispatched" /\ ~dispatch[k].open
        /\ dispatch' = [dispatch EXCEPT ![k].state = "reconciliation_required"]
        /\ message' = "failed"
        /\ Leave(w)
        /\ UNCHANGED <<contact, override, addressed, sid, event, latest, callback,
                       budgets, history>>

\* dispatched, and the window has elapsed: the effect is uncertain for good.
ClaimReconciles(w) ==
    LET k == at[w]
    IN  /\ pc[w] = "claim"
        /\ dispatch[k].state = "dispatched"
        /\ ~dispatch[k].open
        /\ dispatch' = [dispatch EXCEPT ![k].state = "reconciliation_required"]
        /\ message' = "failed"
        /\ event' = Quarantined(k[1])
        /\ Leave(w)
        /\ UNCHANGED <<contact, override, addressed, sid, latest, callback,
                       budgets, history>>

ClaimSettled(w) ==
    /\ pc[w] = "claim"
    /\ Settled(at[w])
    /\ Report(w, at[w])
    /\ UNCHANGED <<contact, rows, callback, budgets, history>>

\* sendSmsMessage, sendEmailMessage or sendDmMessage.  "transient" and
\* "permanent" are definite refusals; after "uncertain" the provider may or
\* may not have accepted the message.
Send(w) ==
    LET k == at[w]
    IN  /\ pc[w] = "send"
        /\ calls' = [calls EXCEPT ![k] = @ + 1]
        /\ \E r \in ProviderResult :
              /\ Replied(w, r)
              /\ \/ r # "ok" /\ UNCHANGED delivered
                 \/ r \in {"ok", "uncertain"} /\ delivered' = delivered \cup {k}
        /\ Moved(w, "settle")
        /\ UNCHANGED <<contact, rows, at, callback, budgets>>

\* finalizeMessageDispatch finds the attempt settled by somebody else.
SettleLate(w) ==
    /\ pc[w] = "settle"
    /\ Settled(at[w])
    /\ Report(w, at[w])
    /\ UNCHANGED <<contact, rows, callback, budgets, history>>

\* A definite refusal is worth another attempt while attempts are left.
RetryableAtTheLimit(r, n) == r = "transient" /\ n <= MaxAttempts   \* mutant
Retryable(r, n) == r = "transient" /\ n < MaxAttempts

\* The state a provider answer settles the attempt in.
UncertainIsFailed(r) == IF r = "ok" THEN "succeeded" ELSE "failed"   \* mutant
LedgerState(r) ==
    CASE r = "ok"        -> "succeeded"
      [] r = "uncertain" -> "reconciliation_required"
      [] OTHER           -> "failed"

\* The provider's answer is persisted, with the message's visible status.
Settle(w) ==
    LET k     == at[w]
        state == LedgerState(reply[w])
        again == state = "failed" /\ Retryable(reply[w], k[2])
    IN  /\ dispatch' = [dispatch EXCEPT ![k].state = state, ![k].retryable = again]
        /\ message' = IF state = "succeeded" THEN "sent"
                      ELSE IF again THEN "queued" ELSE "failed"
        /\ sid' = (state = "succeeded")
        /\ IF state = "reconciliation_required"
           THEN event' = Quarantined(k[1]) /\ Leave(w)
           ELSE UNCHANGED event /\ Return(w, IF again THEN "retry" ELSE "processed")
        /\ UNCHANGED <<contact, override, addressed, latest, callback, budgets, history>>

\* Mutant: the row's state is not looked at before it is written.
SettleBlindly(w) == pc[w] = "settle" /\ Settle(w)
SettleResult(w) ==
    /\ pc[w] = "settle"
    /\ dispatch[at[w]].state = "dispatched"
    /\ Settle(w)

\* finalizeOutboxEvent.  On a row that is no longer dispatchable it throws,
\* which the batch loop logs.
Finish(w) ==
    LET e == at[w][1]
        n == at[w][2]
    IN  /\ pc[w] = "finish"
        /\ event' = IF Dispatchable(e)
                    THEN [event EXCEPT ![e] =
                            IF reply[w] = "retry"
                            THEN [state |-> "pending", attempts |-> n, next |-> "delay"]
                            ELSE [state |-> "processed", attempts |-> n, next |-> "never"]]
                    ELSE event
        /\ Leave(w)
        /\ UNCHANGED <<contact, message, override, addressed, sid, dispatch,
                       latest, callback, budgets, history>>

\* The process dies, or a transaction of the handler fails and the outcome is
\* skipFinalization: the durable rows keep what was committed before.
Abandon(w) ==
    /\ pc[w] # "idle"
    /\ faults < MaxFaults
    /\ faults' = faults + 1
    /\ Leave(w)
    /\ UNCHANGED <<contact, rows, callback, skipped, history>>

-----------------------------------------------------------------------------
(* The clock, the office and the provider's callbacks.                       *)

\* nextAttemptAt passes.
EventDue(e) ==
    /\ Dispatchable(e)
    /\ \/ event[e].next = "delay"
       \/ /\ event[e].next = "deadline"
          /\ \A n \in Attempt : ~InFlight(<<e, n>>)
    /\ event' = [event EXCEPT ![e].next = "due"]
    /\ UNCHANGED <<contact, message, override, addressed, sid, dispatch, latest,
                   locals, callback, budgets, history>>

\* uncertaintyAt passes.
WindowElapses(k) ==
    /\ InFlight(k)
    /\ dispatch' = [dispatch EXCEPT ![k].open = FALSE]
    /\ UNCHANGED <<contact, message, override, addressed, sid, event, latest,
                   locals, callback, budgets, history>>

Unprocessed == {e \in Event : event[e].state \in {"pending", "quarantined"}}
Unused      == {e \in Event : event[e].state = "absent"}
NewestUnprocessed(e) == e \in Unprocessed /\ \A f \in Unprocessed : f <= e

\* A new row is inserted; `rest' is what the transaction made of the others.
Enqueue(rest) ==
    \E e \in Unused :
        /\ \A f \in Unused : e <= f
        /\ event' = [rest EXCEPT ![e] = [state |-> "pending", attempts |-> 0, next |-> "due"]]

Superseded(e) == [event EXCEPT ![e].state = "processed", ![e].next = "never"]

\* POST /api/admin/inbox/messages/:messageId/retry.  The state of the attempt
\* created last decides, then the newest row that is not processed.
RetryAnyway ==   \* mutant: the latest attempt's state is not looked at
    /\ message \in {"failed", "queued"}
    /\ ~contact.deleted
    /\ \/ Unprocessed = {} /\ Enqueue(event)
       \/ \E e \in Event : NewestUnprocessed(e) /\ Enqueue(Superseded(e))
    /\ message' = "queued"
    /\ sid' = FALSE
    /\ UNCHANGED <<contact, override, addressed, dispatch, latest, locals,
                   callback, budgets, history>>
ManualRetry ==
    /\ message \in {"failed", "queued"}
    /\ ~contact.deleted
    /\ latest # NoKey => dispatch[latest].state = "failed"
    /\ \/ /\ Unprocessed = {}
          /\ Enqueue(event)
       \/ \E e \in Event :
            /\ NewestUnprocessed(e)
            /\ Dispatchable(e)
            /\ IF latest # NoKey
               THEN Enqueue(Superseded(e))
               ELSE event' = [event EXCEPT ![e].next = "due"]
    /\ message' = "queued"
    /\ sid' = FALSE
    /\ UNCHANGED <<contact, override, addressed, dispatch, latest, locals,
                   callback, budgets, history>>

\* DELETE /api/admin/contacts/:contactId refuses while an attempt of the
\* contact's is unresolved.
InFlightIgnored == FALSE   \* mutant
UnresolvedAttempt ==
    \E k \in Key : dispatch[k].state \in {"dispatched", "reconciliation_required"}

DeleteContact ==
    /\ ~contact.deleted
    /\ ~UnresolvedAttempt
    /\ contact' = [contact EXCEPT !.deleted = TRUE]
    /\ event' = [e \in Event |-> Quarantined(e)[e]]
    /\ dispatch' = [k \in Key |-> IF dispatch[k].state = "requested"
                                  THEN [dispatch[k] EXCEPT !.state = "failed"]
                                  ELSE dispatch[k]]
    /\ UNCHANGED <<message, override, addressed, sid, latest, locals, callback,
                   budgets, history>>

\* POST /api/admin/contacts/:contactId/restore
RestoreContact ==
    /\ contact.deleted
    /\ contact' = [contact EXCEPT !.deleted = FALSE]
    /\ UNCHANGED <<rows, locals, callback, budgets, history>>

\* Do Not Contact is set by the inbox and by call dispositions; nothing
\* clears it.
SetDoNotContact ==
    /\ ~contact.dnc
    /\ contact' = [contact EXCEPT !.dnc = TRUE]
    /\ UNCHANGED <<rows, locals, callback, budgets, history>>

\* shouldUpdateDeliveryStatus
ShouldUpdate(current, next) ==
    /\ current # next
    /\ current \notin {"delivered", "failed"}
    /\ ~(current = "sent" /\ next = "queued")

\* POST /api/webhooks/twilio/sms, a delivery status: the message is read by
\* its provider id, and its row written by a second statement.
CallbackUnmapped(s) ==   \* mutant: the provider's own status word is stored
    sid /\ callback' = "undelivered" /\ UNCHANGED <<contact, rows, locals, budgets, history>>
CallbackAnyMessage(s) ==   \* mutant: a callback that matches no provider id
    /\ callback = "none"
    /\ ShouldUpdate(message, s)
    /\ callback' = s
    /\ UNCHANGED <<contact, rows, locals, budgets, history>>
CallbackRead(s) ==
    /\ callback = "none"
    /\ sid
    /\ ShouldUpdate(message, s)
    /\ callback' = s
    /\ UNCHANGED <<contact, rows, locals, budgets, history>>

CallbackWrite ==
    /\ callback # "none"
    /\ message' = callback
    /\ callback' = "none"
    /\ UNCHANGED <<contact, override, addressed, sid, event, dispatch, latest,
                   locals, budgets, history>>

-----------------------------------------------------------------------------

WorkerStep(w) ==
    \/ \E e \in Event : Poll(w, e)
    \/ Guard(w) \/ QuarantineDeleted(w)
    \/ ReadDone(w) \/ ReadMissing(w) \/ MarkMissing(w) \/ ReadRecipient(w)
    \/ Request(w)
    \/ ClaimDispatch(w) \/ ClaimBlocked(w) \/ ClaimInFlight(w)
    \/ ClaimReconciles(w) \/ ClaimSettled(w)
    \/ Send(w) \/ SettleLate(w) \/ SettleResult(w)
    \/ Finish(w)

Interruption(w) == GuardFail(w) \/ ReadDefers(w) \/ ReadThrows(w) \/ Abandon(w)

Clock == (\E e \in Event : EventDue(e)) \/ (\E k \in Key : WindowElapses(k))

Office == ManualRetry \/ DeleteContact \/ RestoreContact \/ SetDoNotContact

Callback == (\E s \in DeliveryStatus : CallbackRead(s)) \/ CallbackWrite

Next ==
    \/ \E w \in Worker : WorkerStep(w) \/ Interruption(w)
    \/ Clock
    \/ Office
    \/ Callback

Spec == Init /\ [][Next]_vars

\* Workers keep polling and finish what they began unless they die, and time
\* passes.  Nobody is obliged to fail, to retry by hand or to call back.
Fairness ==
    /\ \A w \in Worker : WF_vars(WorkerStep(w))
    /\ \A e \in Event : WF_vars(EventDue(e))
    /\ \A k \in Key : WF_vars(WindowElapses(k))

FairSpec == Spec /\ Fairness

-----------------------------------------------------------------------------

TypeOK ==
    /\ contact \in [deleted: BOOLEAN, dnc: BOOLEAN]
    /\ message \in DeliveryStatus
    /\ override \in BOOLEAN
    /\ addressed \in BOOLEAN
    /\ sid \in BOOLEAN
    /\ event \in [Event -> EventRow]
    /\ dispatch \in [Key -> DispatchRow]
    /\ latest \in Key \cup {NoKey}
    /\ pc \in [Worker -> PC]
    /\ at \in [Worker -> Key \cup {NoKey}]
    /\ reply \in [Worker -> {"none"} \cup ProviderResult \cup Outcome]
    /\ callback \in DeliveryStatus \cup {"none"}
    /\ faults \in 0 .. MaxFaults
    /\ skipped \in SUBSET Key
    /\ calls \in [Key -> Nat]
    /\ delivered \in SUBSET Key

\* The provider is called at most once for an attempt (the row that carries
\* the provider request key), whatever workers overlap, die or come late.
CallsOncePerAttempt == \A k \in Key : calls[k] <= 1

\* A contact in recovery is never messaged: while it is deleted no worker is
\* about to call the provider and no attempt has an unresolved outcome (the
\* DELETE route's inFlightDispatchPolicy, and the claim's own check).
NoEffectAfterDeletion ==
    contact.deleted =>
        /\ \A w \in Worker : pc[w] # "send"
        /\ \A k \in Key : dispatch[k].state \notin {"dispatched", "reconciliation_required"}

\* The ledger never lies: an attempt recorded as succeeded was accepted by
\* the provider, and one the provider accepted is never recorded as a
\* definite failure, even when its answer arrives after the deadline.
LedgerIsHonest ==
    \A k \in Key :
        /\ dispatch[k].state = "succeeded" => k \in delivered
        /\ k \in delivered =>
              dispatch[k].state \in {"dispatched", "succeeded", "reconciliation_required"}

\* What the inbox shows as sent or delivered, and what a callback is about to
\* show, rests on a successful attempt in the ledger.
SentIsSucceeded ==
    message \in {"sent", "delivered"} \/ callback # "none" =>
        \E k \in Key : dispatch[k].state = "succeeded"

\* A settled attempt is immutable evidence, and no attempt goes backwards.
AttemptsOnlyAdvance ==
    [][\A k \in Key :
        /\ Settled(k) => dispatch'[k] = dispatch[k]
        /\ dispatch[k].state = "dispatched" => dispatch'[k].state \notin {"none", "requested"}
        /\ dispatch[k].state = "requested" => dispatch'[k].state # "none"]_vars

\* The provider never takes the message twice.
AcceptedOnce == Cardinality(delivered) <= 1

\* No attempt number was consumed by an interruption that sent nothing.
NoneSkipped == skipped = {}

Unresolved(k) == dispatch[k].state \in {"dispatched", "reconciliation_required", "succeeded"}

\* Whoever is to receive the message receives it once: at most one attempt was
\* ever accepted by the provider or may have been, and one more for each
\* attempt number that an interruption consumed unsent.
AtMostOneEffect ==
    Cardinality({k \in Key : Unresolved(k)}) <= 1 + Cardinality(skipped)

\* A processed row leaves no attempt behind that could still be sent or is
\* still waiting for its outcome, unless a number was consumed unsent.
ProcessedIsQuiet ==
    NoneSkipped =>
        \A k \in Key : event[k[1]].state = "processed" =>
            dispatch[k].state \notin {"requested", "dispatched"}

\* A message shown as queued has a row that will send it, or that says why
\* it will not: a retry that was accepted is not dropped.  (A handler that
\* throws at the last number drops it: that number is consumed unsent.)
QueuedHasRow == NoneSkipped /\ message = "queued" => Unprocessed # {}

\* A row that still waits has not used up the three attempts, unless an
\* interruption consumed the last of them.
AttemptsLeft ==
    \A e \in Event :
        Dispatchable(e) =>
            \/ event[e].attempts < MaxAttempts
            \/ <<e, event[e].attempts>> \in skipped

\* A row that waits is finished or quarantined in the end.
RowsSettle == \A e \in Event : Dispatchable(e) ~> ~Dispatchable(e)

\* An attempt that crossed the provider boundary is settled in the end,
\* or at least handed to an operator with its quarantined row.
AttemptsSettle ==
    \A k \in Key : dispatch[k].state = "dispatched" ~>
                       Settled(k) \/ event[k[1]].state = "quarantined"

-----------------------------------------------------------------------------

\* What the rows say of the message as a whole.
Verdict ==
    LET Some(state) == \E k \in Key : dispatch[k].state = state
    IN  CASE Some("succeeded")               -> "sent"
          [] Some("reconciliation_required") -> "review"
          [] Some("dispatched")              -> "sending"
          [] OTHER                           -> "open"

Promise == INSTANCE OneDelivery WITH outcome <- Verdict, accepted <- delivered # {}

\* Every step of the ledger is a step of the promise or leaves it alone: the
\* verdict leaves "sending" only for what really happened, never "sent" or
\* "review", and no second acceptance follows the first.  A number consumed
\* unsent ends the promise, and nothing else does.
KeepsPromise ==
    Promise!Init /\ [][NoneSkipped' => [Promise!Next]_(Promise!vars)]_vars
=============================================================================
