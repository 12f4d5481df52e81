---------------------------- MODULE ScopedHandler ----------------------------
(***************************************************************************)
(* The ordinary contact-scoped outbox rows of one contact (reminders,      *)
(* nudges, follow-ups, the sales autopilot).  In outbox-processor.ts        *)
(* handleContactScopedOutboxEvent runs their handler inside a               *)
(* transaction that holds the contact's advisory lock, while the handler's *)
(* own queries and transactions run on other connections of the program's  *)
(* pool.  Beside the workers: people who send the autopilot's draft by     *)
(* hand, and the DELETE and restore routes of the contact.                 *)
(*                                                                         *)
(* Left out: the event types whose errors are retried (calendar sync, the  *)
(* Facebook and call recording types), the media imports, which converge   *)
(* by themselves, lead.alert, which calls the provider for each of a list  *)
(* of recipients and keeps the list in its row, and the attempt counter,   *)
(* which decides nothing for the others.                                   *)
(***************************************************************************)
EXTENDS Naturals, FiniteSets

CONSTANTS
    Worker,     \* concurrent executions of processOutboxBatch
    Sender,     \* concurrent requests to send the draft by hand
    Office,     \* concurrent requests to delete or restore the contact
    Event,      \* the contact's outbox rows
    Autosend,   \* those of type sales.autopilot.autosend, for one draft
    Texts,      \* those that text a member of the team: reminders and nudges
    Noted,      \* of these the nudges, which look up the record of their send
    Program,    \* the programs that run: the API server, the outbox worker
    Home,       \* the program each of the above runs in
    Pool,       \* connections of a program's pool (5 in src/db/index.ts)
    Nobody,     \* none of them
    MaxDeaths,  \* bound: programs that die
    MaxLosses,  \* bound: transactions and guards that fail
    MaxDoubts   \* bound: calls of the provider for a row that stay unanswered

Process == Worker \cup Sender \cup Office

ASSUME ProcessAssumption ==
    /\ Worker \cap Sender = {} /\ Worker \cap Office = {} /\ Sender \cap Office = {}
    /\ Nobody \notin Process
    /\ IsFiniteSet(Process)
ASSUME HomeAssumption == Home \in [Process -> Program]
ASSUME EventAssumption ==
    /\ Autosend \subseteq Event /\ Texts \subseteq Event \ Autosend
    /\ Noted \subseteq Texts
ASSUME LimitAssumption ==
    Pool \in Nat /\ MaxDeaths \in Nat /\ MaxLosses \in Nat /\ MaxDoubts \in Nat

RowState == {"absent", "due", "waiting", "processed", "quarantined"}
PC == {"idle", "scope", "quarantine", "begin", "lock", "recheck", "handle", "note",
       "inner", "finalize", "reconcile", "relock", "settle", "message", "contact"}

VARIABLES
    deleted,      \* contacts.deletedAt is set
    row,          \* outbox_events rows
    message,      \* the draft: still a draft, queued to be sent, or sent
    sendRow,      \* the message.send row of the draft
    told,         \* nudges with an audit record of their send
    pc, ev, outcome,       \* per process, per worker
    outer, inner,          \* processes holding a first, a second connection
    contactLock,  \* holder of the contact's advisory lock
    messageLock,  \* holder of the draft's row lock
    deaths, losses, doubts,    \* budgets spent, the last per row
    effects,      \* history: times a row's handler took effect
    sends         \* history: message.send rows inserted for the draft

data    == <<deleted, row, message, sendRow, told>>
locals  == <<pc, ev, outcome>>
held    == <<outer, inner, contactLock, messageLock>>
budgets == <<deaths, losses, doubts>>
history == <<effects, sends>>
vars    == <<data, locals, held, budgets, history>>

-----------------------------------------------------------------------------

Pending(e) == row[e] \in {"due", "waiting"}

\* A connection of p's program is free: the pool queues whoever asks for one
\* until then.
Peers(p) == {q \in Process : Home[q] = Home[p]}
Used(p)  == Cardinality(outer \cap Peers(p)) + Cardinality(inner \cap Peers(p))
Free(p)  == Used(p) < Pool

\* The event's row after an update "where processedAt and quarantinedAt are
\* null".
Settled(e, state) == IF Pending(e) THEN [row EXCEPT ![e] = state] ELSE row

To(p, step) == pc' = [pc EXCEPT ![p] = step]

\* The worker goes on to the next row of its batch.
Done(w) ==
    /\ To(w, "idle")
    /\ ev' = [ev EXCEPT ![w] = "none"]
    /\ outcome' = [outcome EXCEPT ![w] = "processed"]

\* The transaction ends, committed or not: its connection and locks are free.
Release(p) ==
    /\ outer' = outer \ {p}
    /\ contactLock' = IF contactLock = p THEN Nobody ELSE contactLock
    /\ messageLock' = IF messageLock = p THEN Nobody ELSE messageLock

Init ==
    /\ deleted = FALSE
    /\ row = [e \in Event |-> "absent"]
    /\ message = "draft"
    /\ sendRow = "absent"
    /\ pc = [p \in Process |-> "idle"]
    /\ ev = [w \in Worker |-> "none"]
    /\ outcome = [w \in Worker |-> "processed"]
    /\ outer = {} /\ inner = {}
    /\ contactLock = Nobody /\ messageLock = Nobody
    /\ deaths = 0 /\ losses = 0
    /\ told = {} /\ doubts = [e \in Event |-> 0]
    /\ effects = [e \in Event |-> 0]
    /\ sends = 0

-----------------------------------------------------------------------------
(* A worker of processOutboxBatch.                                           *)

\* The batch SELECT takes no lock: two workers may hold the same row.
Select(w, e) ==
    /\ pc[w] = "idle"
    /\ row[e] = "due"
    /\ Free(w)
    /\ ev' = [ev EXCEPT ![w] = e]
    /\ To(w, "scope")
    /\ UNCHANGED <<data, outcome, held, budgets, history>>

\* resolveContactForOutboxEvent
Resolve(w) ==
    /\ pc[w] = "scope"
    /\ Free(w)
    /\ To(w, IF deleted THEN "quarantine" ELSE "begin")
    /\ UNCHANGED <<data, ev, outcome, held, budgets, history>>

\* quarantineOutboxEventForDeletedContact
Quarantine(w) ==
    /\ pc[w] = "quarantine"
    /\ Free(w)
    /\ row' = Settled(ev[w], "quarantined")
    /\ Done(w)
    /\ UNCHANGED <<deleted, message, sendRow, told, held, budgets, history>>

Begin(w) ==
    /\ pc[w] = "begin"
    /\ Free(w)
    /\ outer' = outer \cup {w}
    /\ To(w, "lock")
    /\ UNCHANGED <<data, ev, outcome, inner, contactLock, messageLock, budgets, history>>

Lock(w) ==
    /\ pc[w] = "lock"
    /\ contactLock = Nobody
    /\ contactLock' = w
    /\ To(w, "recheck")
    /\ UNCHANGED <<data, ev, outcome, outer, inner, messageLock, budgets, history>>

\* Mutants of the recheck: what the batch SELECT saw of the row is trusted;
\* nothing is read again.
RecheckTrustsRow(w) ==
    /\ pc[w] = "recheck"
    /\ ~deleted
    /\ To(w, "handle") /\ UNCHANGED <<data, ev, outcome, held, budgets, history>>
RecheckNothing(w) ==
    /\ pc[w] = "recheck"
    /\ To(w, "handle") /\ UNCHANGED <<data, ev, outcome, held, budgets, history>>

\* Row and contact are read again under the lock.
Recheck(w) ==
    /\ pc[w] = "recheck"
    /\ \/ /\ Pending(ev[w]) /\ ~deleted
          /\ To(w, "handle")
          /\ UNCHANGED <<held, ev, outcome>>
       \/ /\ ~Pending(ev[w])
          /\ Done(w)
          /\ Release(w) /\ UNCHANGED inner
       \/ /\ Pending(ev[w]) /\ deleted
          /\ To(w, "quarantine")
          /\ Release(w) /\ UNCHANGED <<inner, ev, outcome>>
    /\ UNCHANGED <<data, budgets, history>>

\* The handler finds nothing to do, or not yet; or it throws, which counts
\* as processed for these types.  A draft that is none any more is done.
HandleNothing(w) ==
    /\ pc[w] = "handle"
    /\ Free(w)
    /\ \E o \in {"processed", "retry"} :
          /\ o = "retry" /\ ev[w] \in Autosend => message = "draft"
          /\ outcome' = [outcome EXCEPT ![w] = o]
    /\ To(w, "finalize")
    /\ UNCHANGED <<data, ev, held, budgets, history>>

\* A handler that ends as processed whatever becomes of its effect: rows
\* committed on another connection of the pool (followup.send), or an alert.
HandleOnce(w) ==
    /\ pc[w] = "handle"
    /\ ev[w] \notin Autosend \cup Texts
    /\ Free(w)
    /\ effects' = [effects EXCEPT ![ev[w]] = @ + 1]
    /\ outcome' = [outcome EXCEPT ![w] = "processed"]
    /\ To(w, "finalize")
    /\ UNCHANGED <<data, ev, held, budgets, sends>>

\* sendSmsMessage for a reminder or a nudge, with no key the provider would
\* know a repetition by: the provider accepts ...
HandleText(w) ==
    /\ pc[w] = "handle"
    /\ ev[w] \in Texts \ told
    /\ Free(w)
    /\ effects' = [effects EXCEPT ![ev[w]] = @ + 1]
    /\ outcome' = [outcome EXCEPT ![w] = "processed"]
    /\ To(w, "note")
    /\ UNCHANGED <<data, ev, held, budgets, sends>>

\* ... or what comes back proves nothing (a timeout, a 5xx, an unreadable
\* answer): it may have accepted, and isRetryableSendFailure says retry.
HandleUnanswered(w) ==
    /\ pc[w] = "handle"
    /\ ev[w] \in Texts \ told
    /\ Free(w)
    /\ doubts[ev[w]] < MaxDoubts
    /\ doubts' = [doubts EXCEPT ![ev[w]] = @ + 1]
    /\ \E taken \in {0, 1} : effects' = [effects EXCEPT ![ev[w]] = @ + taken]
    /\ outcome' = [outcome EXCEPT ![w] = "retry"]
    /\ To(w, "note")
    /\ UNCHANGED <<data, ev, held, deaths, losses, sends>>

\* The audit record of the call, on a connection of the pool.  Only nudges
\* look for that of an accepted one later; an insert that fails throws.
Note(w) ==
    /\ pc[w] = "note"
    /\ Free(w)
    /\ \/ /\ told' = told \cup {e \in Noted : e = ev[w] /\ outcome[w] = "processed"}
          /\ UNCHANGED outcome
       \/ /\ outcome' = [outcome EXCEPT ![w] = "processed"]
          /\ UNCHANGED told
    /\ To(w, "finalize")
    /\ UNCHANGED <<deleted, row, message, sendRow, ev, held, budgets, history>>

\* Mutant: the draft flag is not looked at.
AutosendAnyMessage(w) ==
    /\ pc[w] = "handle"
    /\ ev[w] \in Autosend
    /\ Free(w)
    /\ inner' = inner \cup {w}
    /\ To(w, "inner")
    /\ UNCHANGED <<data, ev, outcome, outer, contactLock, messageLock, budgets, history>>

AutosendOwnConnection(w) ==   \* mutant: a connection that is not the pool's
    /\ pc[w] = "handle"
    /\ ev[w] \in Autosend
    /\ message = "draft"
    /\ inner' = inner \cup {w}
    /\ To(w, "inner")
    /\ UNCHANGED <<data, ev, outcome, outer, contactLock, messageLock, budgets, history>>

\* handleSalesAutopilotAutosend: the draft is still one; a transaction of its
\* own begins on a second connection.
AutosendBegin(w) ==
    /\ pc[w] = "handle"
    /\ ev[w] \in Autosend
    /\ message = "draft"
    /\ Free(w)
    /\ inner' = inner \cup {w}
    /\ To(w, "inner")
    /\ UNCHANGED <<data, ev, outcome, outer, contactLock, messageLock, budgets, history>>

\* Mutant: the handler's transaction takes the contact's lock as well.
AutosendLocksContact(w) ==
    /\ pc[w] = "inner"
    /\ contactLock = Nobody
    /\ message' = "queued"
    /\ inner' = inner \ {w}
    /\ To(w, "finalize")
    /\ UNCHANGED <<deleted, row, sendRow, told, ev, outcome, outer, contactLock, messageLock,
                   budgets, history>>

\* The draft's row is updated, which waits for whoever has locked it, and a
\* message.send row inserted unless one is open.
AutosendCommit(w) ==
    /\ pc[w] = "inner"
    /\ messageLock = Nobody
    /\ message' = "queued"
    /\ IF sendRow \in {"pending", "quarantined"}
       THEN UNCHANGED <<sendRow, sends>>
       ELSE sendRow' = "pending" /\ sends' = sends + 1
    /\ effects' = [effects EXCEPT ![ev[w]] = @ + 1]
    /\ outcome' = [outcome EXCEPT ![w] = "processed"]
    /\ inner' = inner \ {w}
    /\ To(w, "finalize")
    /\ UNCHANGED <<deleted, row, told, ev, outer, contactLock, messageLock, budgets>>

Final(w) == IF outcome[w] = "retry" THEN "waiting" ELSE "processed"

\* finalizeOutboxEvent in the transaction that holds the lock, and its commit.
Finalize(w) ==
    /\ pc[w] = "finalize"
    /\ Pending(ev[w])
    /\ row' = [row EXCEPT ![ev[w]] = Final(w)]
    /\ Release(w) /\ UNCHANGED inner
    /\ Done(w)
    /\ UNCHANGED <<deleted, message, sendRow, told, budgets, history>>

\* The transaction is rolled back, and the row is to be quarantined for
\* review: somebody else has settled it meanwhile ...
FinalizeTooLate(w) ==
    /\ pc[w] = "finalize"
    /\ ~Pending(ev[w])
    /\ Release(w) /\ UNCHANGED inner
    /\ To(w, "reconcile")
    /\ UNCHANGED <<data, ev, outcome, budgets, history>>

\* ... or the update of the row fails.
FinalizeFails(w) ==
    /\ pc[w] = "finalize"
    /\ losses < MaxLosses
    /\ losses' = losses + 1
    /\ Release(w) /\ UNCHANGED inner
    /\ To(w, "reconcile")
    /\ UNCHANGED <<data, ev, outcome, deaths, doubts, history>>

\* quarantineOutboxEventForFinalizationReconciliation takes the lock anew.
ReconcileBegin(w) ==
    /\ pc[w] = "reconcile"
    /\ Free(w)
    /\ outer' = outer \cup {w}
    /\ To(w, "relock")
    /\ UNCHANGED <<data, ev, outcome, inner, contactLock, messageLock, budgets, history>>

Reconcile(w) ==
    /\ pc[w] = "relock"
    /\ contactLock = Nobody
    /\ row' = Settled(ev[w], "quarantined")
    /\ Release(w) /\ UNCHANGED inner
    /\ Done(w)
    /\ UNCHANGED <<deleted, message, sendRow, told, budgets, history>>

\* The commit fails after the finalization: the error is taken for one of the
\* handler's, and the row is written as processed outside the lock.
CommitFails(w) ==
    /\ pc[w] = "finalize"
    /\ losses < MaxLosses
    /\ losses' = losses + 1
    /\ Release(w) /\ UNCHANGED inner
    /\ To(w, "settle")
    /\ UNCHANGED <<data, ev, outcome, deaths, doubts, history>>

SettleOutside(w) ==
    /\ pc[w] = "settle"
    /\ Free(w)
    /\ row' = Settled(ev[w], "processed")
    /\ Done(w)
    /\ UNCHANGED <<deleted, message, sendRow, told, held, budgets, history>>

\* The quarantine for review fails, or that last write: the row stays as it is.
RecoveryFails(w) ==
    /\ pc[w] \in {"reconcile", "relock", "settle"}
    /\ losses < MaxLosses
    /\ losses' = losses + 1
    /\ Release(w) /\ UNCHANGED inner
    /\ Done(w)
    /\ UNCHANGED <<data, deaths, doubts, history>>

\* ContactDispatchGuardFailure: anything before the handler throws.
GuardFails(w) ==
    /\ pc[w] \in {"scope", "quarantine", "begin", "lock", "recheck"}
    /\ losses < MaxLosses
    /\ losses' = losses + 1
    /\ row' = Settled(ev[w], "waiting")
    /\ Release(w) /\ UNCHANGED inner
    /\ Done(w)
    /\ UNCHANGED <<deleted, message, sendRow, told, deaths, doubts, history>>

\* A program dies with all it was doing: the database rolls its transactions
\* back, what others of its connections committed stays.
Die(h) ==
    LET dead == {p \in Process : Home[p] = h}
        Freed(lock) == IF lock \in dead THEN Nobody ELSE lock
    IN  /\ deaths < MaxDeaths
        /\ deaths' = deaths + 1
        /\ pc' = [p \in Process |-> IF p \in dead THEN "idle" ELSE pc[p]]
        /\ ev' = [w \in Worker |-> IF w \in dead THEN "none" ELSE ev[w]]
        /\ outcome' = [w \in Worker |-> IF w \in dead THEN "processed" ELSE outcome[w]]
        /\ outer' = outer \ dead /\ inner' = inner \ dead
        /\ contactLock' = Freed(contactLock) /\ messageLock' = Freed(messageLock)
        /\ UNCHANGED <<data, losses, doubts, history>>

\* nextAttemptAt passes.
Due(e) ==
    /\ row[e] = "waiting"
    /\ row' = [row EXCEPT ![e] = "due"]
    /\ UNCHANGED <<deleted, message, sendRow, told, locals, held, budgets, history>>

\* A row is inserted.  Webhooks and other handlers do so whatever has become
\* of the contact: "events inserted later or by a concurrent webhook/worker".
Enqueue(e) ==
    /\ row[e] = "absent"
    /\ row' = [row EXCEPT ![e] = "due"]
    /\ UNCHANGED <<deleted, message, sendRow, told, locals, held, budgets, history>>

-----------------------------------------------------------------------------
(* The routes.  Each runs one transaction on one connection.                 *)

Open(p, step) ==
    /\ pc[p] = "idle"
    /\ Free(p)
    /\ outer' = outer \cup {p}
    /\ To(p, step)
    /\ UNCHANGED <<data, ev, outcome, inner, contactLock, messageLock, budgets, history>>

\* POST /api/admin/inbox/messages/:messageId/retry locks the message first ...
SendBegin(s) == Open(s, "message")

SendLock(s) ==
    /\ pc[s] = "message"
    /\ messageLock = Nobody
    /\ IF message = "sent"
       THEN To(s, "idle") /\ Release(s)
       ELSE To(s, "contact") /\ messageLock' = s /\ UNCHANGED <<outer, contactLock>>
    /\ UNCHANGED <<data, ev, outcome, inner, budgets, history>>

\* ... and then the contact (requireActiveContactForDirectOutbound).
SendCommit(s) ==
    /\ pc[s] = "contact"
    /\ contactLock = Nobody
    /\ IF deleted \/ sendRow = "quarantined"
       THEN UNCHANGED <<message, sendRow, sends>>
       ELSE /\ message' = "queued"
            /\ IF sendRow = "pending"
               THEN UNCHANGED <<sendRow, sends>>
               ELSE sendRow' = "pending" /\ sends' = sends + 1
    /\ Release(s) /\ UNCHANGED inner
    /\ To(s, "idle")
    /\ UNCHANGED <<deleted, row, told, ev, outcome, budgets, effects>>

\* The row of the draft is sent (module MessageDispatch): request and claim
\* take the contact's lock, the result the message's.
Deliver ==
    /\ sendRow = "pending"
    /\ ~deleted
    /\ contactLock = Nobody /\ messageLock = Nobody
    /\ sendRow' = "processed"
    /\ message' = "sent"
    /\ UNCHANGED <<deleted, row, told, locals, held, budgets, history>>

OfficeBegin(o) == Open(o, "contact")

\* DELETE and restore of the contact; the first quarantines what waits.
OfficeCommit(o) ==
    /\ pc[o] = "contact"
    /\ contactLock = Nobody
    /\ deleted' = ~deleted
    /\ IF deleted
       THEN UNCHANGED <<row, sendRow>>
       ELSE /\ row' = [e \in Event |-> IF Pending(e) THEN "quarantined" ELSE row[e]]
            /\ sendRow' = IF sendRow = "pending" THEN "quarantined" ELSE sendRow
    /\ Release(o) /\ UNCHANGED inner
    /\ To(o, "idle")
    /\ UNCHANGED <<message, told, ev, outcome, budgets, history>>

-----------------------------------------------------------------------------

WorkerStep(w) ==
    \/ \E e \in Event : Select(w, e)
    \/ Resolve(w) \/ Quarantine(w) \/ Begin(w) \/ Lock(w) \/ Recheck(w)
    \/ HandleNothing(w) \/ HandleOnce(w) \/ HandleText(w) \/ HandleUnanswered(w) \/ Note(w)
    \/ AutosendBegin(w) \/ AutosendCommit(w)
    \/ Finalize(w) \/ FinalizeTooLate(w) \/ ReconcileBegin(w) \/ Reconcile(w) \/ SettleOutside(w)

Failure(w) == FinalizeFails(w) \/ CommitFails(w) \/ RecoveryFails(w) \/ GuardFails(w)

SenderStep(s) == SendBegin(s) \/ SendLock(s) \/ SendCommit(s)
OfficeStep(o) == OfficeBegin(o) \/ OfficeCommit(o)

Next ==
    \/ \E w \in Worker : WorkerStep(w) \/ Failure(w)
    \/ \E h \in Program : Die(h)
    \/ \E e \in Event : Enqueue(e) \/ Due(e)
    \/ \E s \in Sender : SenderStep(s)
    \/ \E o \in Office : OfficeStep(o)
    \/ Deliver

Spec == Init /\ [][Next]_vars

\* The pool and the locks serve those who wait in their order, so whoever is
\* again and again about to get on does; a route in progress is carried on
\* with, but nobody has to start one.
Fairness ==
    /\ \A w \in Worker : SF_vars(WorkerStep(w))
    /\ \A s \in Sender : SF_vars(SendLock(s)) /\ SF_vars(SendCommit(s))
    /\ \A o \in Office : SF_vars(OfficeCommit(o))

FairSpec == Spec /\ Fairness

-----------------------------------------------------------------------------

TypeOK ==
    /\ deleted \in BOOLEAN
    /\ row \in [Event -> RowState]
    /\ message \in {"draft", "queued", "sent"}
    /\ sendRow \in {"absent", "pending", "processed", "quarantined"}
    /\ pc \in [Process -> PC]
    /\ ev \in [Worker -> Event \cup {"none"}]
    /\ outcome \in [Worker -> {"processed", "retry"}]
    /\ outer \in SUBSET Process /\ inner \in SUBSET Worker
    /\ contactLock \in Process \cup {Nobody}
    /\ messageLock \in Sender \cup {Nobody}
    /\ deaths \in 0 .. MaxDeaths /\ losses \in 0 .. MaxLosses
    /\ told \in SUBSET Noted /\ doubts \in [Event -> 0 .. MaxDoubts]
    /\ effects \in [Event -> Nat]
    /\ sends \in Nat
    /\ \A p \in Process : Used(p) <= Pool

\* No handler takes effect for a contact in recovery: "a handler that wins the
\* lock finishes all provider effects before deletion can commit".
NoEffectWhileDeleted == [][effects' # effects => ~deleted /\ ~deleted']_vars

\* A row's handler takes effect once, however many workers hold the row,
\* unless a program dies, a transaction or guard fails, or the provider does
\* not answer for the row: each lets it take effect once more, not oftener.
EffectOnce == \A e \in Event : effects[e] <= 1 + deaths + losses + doubts[e]

\* A failed finalization does not let a row take effect again: it quarantines
\* the row ("redispatchPrevented").
EffectOncePerDeath == \A e \in Event : effects[e] <= 1 + deaths + doubts[e]

\* "every uncertain already-dispatched effect is quarantined instead of
\* automatically replayed"
UncertainIsNotReplayed ==
    [][\A e \in Event : doubts[e] > 0 => effects'[e] = effects[e]]_vars

\* The draft is queued once, by hand or by the autopilot: nobody finds it
\* sent and queues it anew.
DraftSentOnce == sends <= 1

\* While the contact is in recovery no message of it waits to be sent: what
\* waited is quarantined, and neither the autopilot nor a person queues anew.
NothingQueuedWhileDeleted == deleted => sendRow # "pending"

\* A processed or quarantined row stays as it is: no late outcome of a worker
\* that polled it earlier brings it back.
SettledForGood ==
    [][\A e \in Event : row[e] \in {"processed", "quarantined"} => row'[e] = row[e]]_vars

\* The handler that holds the contact's lock gives it back.
LockReturns == \A w \in Worker : contactLock = w ~> contactLock # w

\* The autopilot's transaction waits for the draft's row, whose holder waits
\* for the contact's lock.
Circled(w) == pc[w] = "inner" /\ messageLock # Nobody /\ pc[messageLock] = "contact"

\* The handler waits for a connection, and they are all with those who wait
\* for the contact's lock, or for somebody who does.
AwaitsLock(p) == \/ pc[p] \in {"lock", "relock", "contact"}
                 \/ pc[p] = "message" /\ messageLock # Nobody
Starved(w) ==
    /\ pc[w] \in {"handle", "note"} /\ ~Free(w)
    /\ \A p \in outer \cap Peers(w) : p # w => AwaitsLock(p)

\* A handler gives the contact's lock back unless it is caught for good in one
\* of these two: there is no third way to hang on to it.
LockReturnsOrStuck ==
    \A w \in Worker :
        contactLock = w ~> (contactLock # w \/ [](Circled(w) \/ Starved(w)))
=============================================================================
