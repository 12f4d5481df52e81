--------------------- MODULE MessageDispatchOrderProofs ---------------------
(***************************************************************************)
(* What the ledger of MessageDispatch promises about the message as a      *)
(* whole, proved for every number of workers, outbox rows, attempts,       *)
(* faults and interruptions.  An interruption that consumes an attempt     *)
(* number unsent lets the row go on past an attempt nobody has settled:    *)
(* that is what the run dispatch_resend shows.  The theorems here say that *)
(* nothing worse can happen, and that nothing bad happens without it.      *)
(***************************************************************************)
EXTENDS MessageDispatchProofs, FiniteSetTheorems

(***************************************************************************)
(* AtMostOneEffect is not inductive: it says nothing of the order in which *)
(* attempts are made.  The strengthening follows the numbers.  An attempt  *)
(* of a row is requested only when every lower number of the row was       *)
(* refused for good or consumed unsent (InOrder), no two rows wait at once *)
(* (OnePending), and no attempt of the row of the one requested last has a *)
(* higher number, unless that one's number was consumed (LatestIsLast).    *)
(* The manual retry looks at the latest attempt alone, so an older row can *)
(* keep an attempt that may take effect only behind a failed attempt whose *)
(* number was consumed (LeftBehind).                                       *)
(***************************************************************************)

\* Refused, and worth the next attempt number.
Dead(k) == dispatch[k].state = "failed" /\ dispatch[k].retryable

\* The row may go on to the next number.
Passed(k) == Dead(k) \/ k \in skipped

Lower(e, n) == \A j \in Attempt : j < n => Passed(<<e, j>>)

\* May take effect yet or has, in the order of the numbers.
Live(k) == dispatch[k].state \notin {"none", "failed"} /\ k \notin skipped

RetryableIsFailed ==
    \A k \in Key : dispatch[k].retryable => dispatch[k].state = "failed" /\ k[2] < MaxAttempts

RetryIsPassed == \A w \in Worker : pc[w] = "finish" /\ reply[w] = "retry" => Passed(at[w])

RowsInOrder == \A e \in Event : Dispatchable(e) => Lower(e, event[e].attempts + 1)

WorkersInOrder == \A w \in Worker : pc[w] # "idle" => Lower(at[w][1], at[w][2])

AttemptsInOrder == \A k \in Key : dispatch[k].state # "none" => Lower(k[1], k[2])

OnePending == \A e, f \in Event : Dispatchable(e) /\ Dispatchable(f) => e = f

LatestIsThere == latest # NoKey => dispatch[latest].state # "none"

LatestOfPending ==
    \A e \in Event :
        Dispatchable(e) /\ latest # NoKey /\ dispatch[latest].state # "failed" => latest[1] = e

LatestIsLast ==
    \A k \in Key :
        dispatch[k].state # "none" /\ k[1] = latest[1] /\ latest[2] < k[2] => latest \in skipped

LeftBehind ==
    \A k \in Key :
        Live(k) =>
            \/ k[1] = latest[1]
            \/ \E s \in skipped : s[1] = k[1] /\ dispatch[s].state = "failed"

OrderInv ==
    /\ RetryableIsFailed
    /\ RetryIsPassed
    /\ RowsInOrder
    /\ WorkersInOrder
    /\ AttemptsInOrder
    /\ OnePending
    /\ LatestIsThere
    /\ LatestOfPending
    /\ LatestIsLast
    /\ LeftBehind

-----------------------------------------------------------------------------
(* What a step does to the attempts, the rows and the workers.               *)

\* The worker inserts its attempt's row (ensureMessageDispatchRequested).
Inserts(w) ==
    /\ pc[w] = "request"
    /\ at[w] \in Key
    /\ Dispatchable(at[w][1])
    /\ dispatch[at[w]].state = "none"
    /\ latest' = at[w]
    /\ event' = event
    /\ dispatch'[at[w]].state = "requested"
    /\ dispatch'[at[w]].retryable = dispatch[at[w]].retryable
    /\ \A j \in Key \ {at[w]} : dispatch'[j] = dispatch[j]

\* An attempt that was under way goes on, and becomes worth another one only
\* as a failure before the last attempt.
GoesOn(k) ==
    /\ dispatch[k].state \in {"requested", "dispatched"}
    /\ dispatch'[k].state \notin {"none", "requested"}
    /\ dispatch'[k].retryable =>
          \/ dispatch[k].retryable
          \/ dispatch'[k].state = "failed" /\ k[2] < MaxAttempts

AttemptsGoOn ==
    latest' = latest /\ \A k \in Key : dispatch'[k] = dispatch[k] \/ GoesOn(k)

LEMMA AttemptsMove ==
    ASSUME TypeInv, [Next]_vars
    PROVE  AttemptsGoOn \/ \E w \in Worker : Inserts(w)
<1>1. UNCHANGED <<dispatch, latest>> => AttemptsGoOn
  BY DEF AttemptsGoOn
<1>2. ASSUME NEW w \in Worker, WorkerStep(w) PROVE AttemptsGoOn \/ Inserts(w)
  <2>1. CASE Request(w)
    <3>1. at[w] \in Key
      BY <2>1 DEF Request, TypeInv, LocalsOK
    <3>2. CASE UNCHANGED <<dispatch, latest>>
      BY <3>2 DEF AttemptsGoOn
    <3>3. CASE ~UNCHANGED <<dispatch, latest>>
      <4>1. /\ pc[w] = "request" /\ Dispatchable(at[w][1]) /\ dispatch[at[w]].state = "none"
            /\ latest' = at[w] /\ event' = event
            /\ dispatch' = [dispatch EXCEPT ![at[w]].state = "requested"]
        BY <2>1, <3>3 DEF Request
      <4> QED BY <3>1, <4>1 DEF Inserts, TypeInv, RowsOK, DispatchRow
    <3> QED BY <3>2, <3>3
  <2>2. CASE ClaimDispatch(w) \/ ClaimBlocked(w) \/ ClaimReconciles(w)
    BY <2>2
    DEF ClaimDispatch, ClaimBlocked, ClaimReconciles, AttemptsGoOn, GoesOn, TypeInv, RowsOK,
        DispatchRow
  <2>3. CASE SettleResult(w)
    <3>1. LedgerState(reply[w]) \in {"succeeded", "failed", "reconciliation_required"}
      BY DEF LedgerState
    <3>2. at[w] \in Key
      BY <2>3 DEF SettleResult, TypeInv, LocalsOK
    <3> DEFINE again == LedgerState(reply[w]) = "failed" /\ Retryable(reply[w], at[w][2])
    <3>3. /\ dispatch[at[w]].state = "dispatched" /\ latest' = latest
          /\ dispatch' = [dispatch EXCEPT ![at[w]].state = LedgerState(reply[w]),
                                          ![at[w]].retryable = again]
      BY <2>3 DEF SettleResult, Settle
    <3>4. again => LedgerState(reply[w]) = "failed" /\ at[w][2] < MaxAttempts
      BY DEF Retryable
    <3>5. /\ dispatch'[at[w]].state = LedgerState(reply[w])
          /\ dispatch'[at[w]].retryable = again
          /\ \A j \in Key \ {at[w]} : dispatch'[j] = dispatch[j]
      BY <3>2, <3>3 DEF TypeInv, RowsOK, DispatchRow
    <3> HIDE DEF again
    <3> QED BY <3>1, <3>3, <3>4, <3>5 DEF AttemptsGoOn, GoesOn
  <2> QED
    BY <1>1, <1>2, <2>1, <2>2, <2>3
    DEF WorkerStep, Poll, Guard, QuarantineDeleted, ReadDone, ReadMissing, MarkMissing,
        ReadRecipient, ClaimInFlight, ClaimSettled, Send, SettleLate, Finish, rows
<1>3. ASSUME NEW w \in Worker, Interruption(w) PROVE AttemptsGoOn
  BY <1>1, <1>3 DEF Interruption, GuardFail, ReadDefers, ReadThrows, Abandon, rows
<1>4. CASE Clock
  BY <1>1, <1>4
  DEF Clock, EventDue, WindowElapses, InFlight, AttemptsGoOn, GoesOn, TypeInv, RowsOK,
      DispatchRow
<1>5. CASE DeleteContact
  BY <1>5 DEF DeleteContact, AttemptsGoOn, GoesOn, TypeInv, RowsOK, DispatchRow
<1>6. CASE ManualRetry \/ RestoreContact \/ SetDoNotContact \/ Callback
  BY <1>1, <1>6
  DEF ManualRetry, RestoreContact, SetDoNotContact, Callback, CallbackRead, CallbackWrite, rows
<1> QED
  BY <1>1, <1>2, <1>3, <1>4, <1>5, <1>6 DEF Next, Office, vars, rows

LEMMA SkippedGrows == ASSUME [Next]_vars PROVE skipped \subseteq skipped'
BY DEF Next, WorkerStep, Poll, Guard, QuarantineDeleted, ReadDone, ReadMissing, MarkMissing,
       ReadRecipient, Request, ClaimDispatch, ClaimBlocked, ClaimReconciles, ClaimInFlight,
       ClaimSettled, Send, SettleLate, SettleResult, Settle, Finish, Interruption, GuardFail,
       ReadDefers, ReadThrows, Skips, Abandon, Clock, EventDue, WindowElapses, Office,
       ManualRetry, DeleteContact, RestoreContact, SetDoNotContact, Callback, CallbackRead,
       CallbackWrite, vars, budgets

\* What waits after a step waited before, under the same attempt number or one
\* a worker is done with, or is the new row of a manual retry, the only one.
StillWaits(e) ==
    /\ Dispatchable(e)
    /\ \/ event'[e].attempts = event[e].attempts
       \/ \E w \in Worker :
             /\ pc[w] # "idle"
             /\ (pc[w] = "finish" /\ reply[w] = "retry") \/ at[w] \in skipped'
             /\ at[w][1] = e /\ event'[e].attempts = at[w][2]

IsNew(e) ==
    /\ event[e].state = "absent"
    /\ event'[e].attempts = 0
    /\ \A f \in Event \ {e} : ~Dispatchable(f)'
    /\ latest' = latest
    /\ latest # NoKey => dispatch[latest].state = "failed"
    /\ ~contact.deleted
    /\ UNCHANGED <<contact, dispatch>>

LEMMA RowsMove ==
    ASSUME TypeInv, OnePending, [Next]_vars,
           NEW e \in Event, Dispatchable(e)'
    PROVE  StillWaits(e) \/ IsNew(e)
<1> USE DEF Dispatchable
<1>1. UNCHANGED event => StillWaits(e)
  BY DEF StillWaits
<1>2. ASSUME NEW f \in Event, event' = Quarantined(f) PROVE StillWaits(e)
  BY <1>2 DEF Quarantined, StillWaits, TypeInv, RowsOK, EventRow
<1>3. ASSUME NEW w \in Worker, WorkerStep(w) PROVE StillWaits(e)
  <2>1. pc[w] # "idle" => at[w][1] \in Event /\ at[w][2] \in Attempt
    BY KeyParts DEF TypeInv, LocalsOK
  <2>2. CASE Request(w)
    BY <1>1, <1>2, <2>1, <2>2 DEF Request
  <2>3. CASE ClaimDispatch(w)
    BY <2>1, <2>3 DEF ClaimDispatch, StillWaits, TypeInv, RowsOK, EventRow
  <2>4. CASE QuarantineDeleted(w) \/ ClaimBlocked(w) \/ ClaimReconciles(w)
    BY <1>2, <2>1, <2>4 DEF QuarantineDeleted, ClaimBlocked, ClaimReconciles
  <2>5. CASE SettleResult(w)
    BY <1>1, <1>2, <2>1, <2>5 DEF SettleResult, Settle
  <2>6. CASE Finish(w)
    BY <2>1, <2>6 DEF Finish, StillWaits, TypeInv, RowsOK, EventRow
  <2> QED
    BY <1>1, <1>3, <2>2, <2>3, <2>4, <2>5, <2>6
    DEF WorkerStep, Poll, Guard, ReadDone, ReadMissing, MarkMissing, ReadRecipient,
        ClaimInFlight, ClaimSettled, Send, SettleLate, rows
<1>4. ASSUME NEW w \in Worker, Interruption(w) PROVE StillWaits(e)
  <2>1. CASE GuardFail(w)
    <3>1. at[w][1] \in Event /\ at[w] \in skipped' /\ pc[w] # "idle"
      BY <2>1, KeyParts DEF GuardFail, Skips, TypeInv, LocalsOK
    <3> QED BY <2>1, <3>1 DEF GuardFail, StillWaits, TypeInv, RowsOK, EventRow
  <2> QED
    BY <1>1, <1>4, <2>1 DEF Interruption, ReadDefers, ReadThrows, Abandon, rows
<1>5. CASE Clock
  BY <1>1, <1>5 DEF Clock, EventDue, WindowElapses, StillWaits, TypeInv, RowsOK, EventRow
<1>6. CASE ManualRetry
  <2>1. /\ latest' = latest /\ ~contact.deleted /\ UNCHANGED <<contact, dispatch>>
        /\ latest # NoKey => dispatch[latest].state = "failed"
    BY <1>6 DEF ManualRetry
  <2>2. ASSUME Unprocessed = {}, Enqueue(event) PROVE StillWaits(e) \/ IsNew(e)
    <3>1. \A f \in Event : event[f].state # "pending"
      BY <2>2 DEF Unprocessed
    <3> QED BY <2>1, <2>2, <3>1 DEF Enqueue, Unused, IsNew, TypeInv, RowsOK, EventRow
  <2>3. ASSUME NEW f \in Event, Dispatchable(f), Enqueue(Superseded(f))
        PROVE  StillWaits(e) \/ IsNew(e)
    <3>1. \A g \in Event : Superseded(f)[g].state # "pending"
      BY <2>3 DEF Superseded, OnePending, TypeInv, RowsOK, EventRow
    <3>2. \A g \in Event : g # f => Superseded(f)[g] = event[g]
      BY DEF Superseded, TypeInv, RowsOK
    <3>3. Superseded(f) \in [Event -> EventRow]
      BY DEF Superseded, TypeInv, RowsOK, EventRow, EventState, Timer
    <3>4. PICK g \in Unused : event' = [Superseded(f) EXCEPT ![g] =
                  [state |-> "pending", attempts |-> 0, next |-> "due"]]
      BY <2>3 DEF Enqueue
    <3> QED BY <2>1, <3>1, <3>3, <3>4 DEF Unused, IsNew
  <2>4. ASSUME NEW f \in Event, event' = [event EXCEPT ![f].next = "due"]
        PROVE  StillWaits(e)
    BY <2>4 DEF StillWaits, TypeInv, RowsOK, EventRow
  <2> QED BY <1>6, <2>2, <2>3, <2>4 DEF ManualRetry
<1>7. CASE DeleteContact
  <2>1. \A f \in Event : event'[f] = Quarantined(f)[f]
    BY <1>7 DEF DeleteContact
  <2>2. event'[e].state # "pending"
    BY <2>1 DEF Quarantined, TypeInv, RowsOK, EventRow
  <2> QED BY <2>2
<1>8. CASE RestoreContact \/ SetDoNotContact \/ Callback
  BY <1>1, <1>8
  DEF RestoreContact, SetDoNotContact, Callback, CallbackRead, CallbackWrite, rows
<1> QED
  BY <1>1, <1>3, <1>4, <1>5, <1>6, <1>7, <1>8 DEF Next, Office, vars, rows

\* What a worker carries it carried before, or it has just polled.
Carries(w) == pc[w] # "idle" /\ at'[w] = at[w]

Polls(w) ==
    \E e \in Event :
        /\ Dispatchable(e)
        /\ at'[w] = <<e, event[e].attempts + 1>>
        /\ pc'[w] = "guard"

\* A worker about to finish an attempt for a retry has found it refused, or has
\* consumed its number, before this step or by it.
MayRetry(w) ==
    pc'[w] = "finish" /\ reply'[w] = "retry" =>
        /\ Carries(w)
        /\ \/ pc[w] = "finish" /\ reply[w] = "retry"
           \/ Passed(at[w])'

LEMMA ReportedDead ==
    ASSUME TypeInv, NEW w \in Worker, pc[w] # "idle", Report(w, at[w]), UNCHANGED dispatch,
           pc'[w] # "idle"
    PROVE  Carries(w) /\ pc'[w] # "guard" /\ MayRetry(w)
BY DEF Report, Leave, Return, Moved, Replied, TypeInv, LocalsOK, Carries, MayRetry, Dead, Passed

LEMMA WorkersMove ==
    ASSUME TypeInv, [Next]_vars, NEW w \in Worker, pc'[w] # "idle"
    PROVE  (Carries(w) \/ Polls(w)) /\ MayRetry(w)
<1>1. pc'[w] = pc[w] /\ at'[w] = at[w] /\ reply'[w] = reply[w] => Carries(w) /\ MayRetry(w)
  BY DEF Carries, MayRetry
<1>2. ASSUME UNCHANGED locals PROVE Carries(w) /\ MayRetry(w)
  BY <1>1, <1>2 DEF locals
<1>3. ASSUME NEW v \in Worker, WorkerStep(v) PROVE (Carries(w) \/ Polls(w)) /\ MayRetry(w)
  <2>1. Others(v) \/ \E e \in Event : Poll(v, e)
    BY <1>3, OthersUntouched
    DEF WorkerStep, Guard, QuarantineDeleted, ReadDone, ReadMissing, MarkMissing,
        ReadRecipient, Request, ClaimDispatch, ClaimBlocked, ClaimReconciles, ClaimInFlight,
        ClaimSettled, Send, SettleLate, SettleResult, Settle, Finish, TypeInv, LocalsOK,
        Moved, Replied, Others, Leave
  <2>2. ASSUME NEW e \in Event, Poll(v, e) PROVE (Carries(w) \/ Polls(w)) /\ MayRetry(w)
    BY <1>1, <2>2 DEF Poll, Moved, Polls, MayRetry, TypeInv, LocalsOK
  <2>3. CASE w # v /\ Others(v)
    BY <1>1, <2>3 DEF Others
  <2>4. CASE w = v
    <3>1. CASE ClaimSettled(w) \/ SettleLate(w)
      BY <3>1, ReportedDead DEF ClaimSettled, SettleLate, rows
    <3>2. CASE SettleResult(w)
      <4>1. at[w] \in Key /\ pc[w] = "settle" /\ LedgerState(reply[w]) \in DispatchState
        BY <3>2 DEF SettleResult, TypeInv, LocalsOK, LedgerState, DispatchState
      <4> DEFINE again == LedgerState(reply[w]) = "failed" /\ Retryable(reply[w], at[w][2])
      <4>2. /\ dispatch'[at[w]].state = LedgerState(reply[w])
            /\ dispatch'[at[w]].retryable = again
        BY <3>2, <4>1 DEF SettleResult, Settle, TypeInv, RowsOK, DispatchRow
      <4>3. Leave(w) \/ Return(w, IF again THEN "retry" ELSE "processed")
        BY <3>2 DEF SettleResult, Settle
      <4>4. at'[w] = at[w] /\ reply'[w] = IF again THEN "retry" ELSE "processed"
        BY <4>3 DEF Leave, Return, Moved, Replied, TypeInv, LocalsOK
      <4> HIDE DEF again
      <4>5. reply'[w] = "retry" => Passed(at[w])'
        <5>1. again => LedgerState(reply[w]) = "failed"
          BY DEF again
        <5> QED BY <4>2, <4>4, <5>1 DEF Dead, Passed
      <4> QED BY <4>1, <4>4, <4>5 DEF Carries, MayRetry
    <3>3. CASE Request(w)
      BY <3>3 DEF Request, Leave, Moved, TypeInv, LocalsOK, Carries, MayRetry
    <3>4. CASE Guard(w) \/ ReadMissing(w) \/ ReadRecipient(w) \/ ClaimDispatch(w) \/ Send(w)
      BY <3>4
      DEF Guard, ReadMissing, ReadRecipient, Sendable, ClaimDispatch, Send, Moved, TypeInv,
          LocalsOK, Carries, MayRetry
    <3>5. CASE ReadDone(w) \/ MarkMissing(w)
      BY <3>5
      DEF ReadDone, MarkMissing, Return, Moved, Replied, TypeInv, LocalsOK, Carries, MayRetry
    <3>6. ~Leave(w)
      BY DEF Leave, TypeInv, LocalsOK
    <3> QED
      BY <1>3, <2>2, <2>4, <3>1, <3>2, <3>3, <3>4, <3>5, <3>6
      DEF WorkerStep, QuarantineDeleted, ClaimBlocked, ClaimReconciles, ClaimInFlight, Finish
  <2> QED BY <2>1, <2>2, <2>3, <2>4
<1>4. ASSUME NEW v \in Worker, Interruption(v) PROVE Carries(w) /\ MayRetry(w)
  <2>1. CASE GuardFail(v) \/ Abandon(v)
    <3>1. Others(v) /\ pc'[v] = "idle"
      BY <2>1, OthersUntouched DEF GuardFail, Abandon, Leave, TypeInv, LocalsOK
    <3> QED BY <1>1, <3>1 DEF Others
  <2>2. CASE ReadDefers(v) \/ ReadThrows(v)
    <3>1. /\ pc[v] = "read" /\ at' = at /\ at[v] \in skipped'
          /\ \E outcome \in Outcome : Return(v, outcome)
      BY <2>2 DEF ReadDefers, ReadThrows, Sendable, Skips, Return, Outcome
    <3>2. Others(v)
      BY <3>1 DEF Return, Moved, Replied, Others, TypeInv, LocalsOK
    <3>3. CASE w = v
      BY <3>1, <3>3 DEF Carries, MayRetry, Passed
    <3> QED BY <1>1, <3>2, <3>3 DEF Others
  <2> QED BY <1>4, <2>1, <2>2 DEF Interruption
<1> QED
  BY <1>2, <1>3, <1>4
  DEF Next, Clock, EventDue, WindowElapses, Office, ManualRetry, DeleteContact,
      RestoreContact, SetDoNotContact, Callback, CallbackRead, CallbackWrite, vars

-----------------------------------------------------------------------------
(* The numbers are used in order.                                            *)

LEMMA PassedStays ==
    ASSUME TypeInv, [Next]_vars, NEW k \in Key, Passed(k)
    PROVE  Passed(k)'
<1>1. Dead(k) => Dead(k)'
  BY AdvanceNext DEF Advance, Settled, Dead
<1> QED BY <1>1, SkippedGrows DEF Passed

\* What holds of the numbers below n of a row goes on to hold.
LEMMA LowerStays ==
    ASSUME TypeInv, [Next]_vars, NEW e \in Event, NEW n, Lower(e, n)
    PROVE  \A j \in Attempt : j < n => Passed(<<e, j>>)'
BY PassedStays DEF Lower, Key

LEMMA OrderInit == Init => OrderInv
<1> SUFFICES ASSUME Init PROVE OrderInv
  OBVIOUS
<1>1. \A k \in Key : dispatch[k].state = "none" /\ ~dispatch[k].retryable
  BY DEF Init, NoRow
<1>2. \A w \in Worker : pc[w] = "idle"
  BY DEF Init
<1>3. \A e \in Event : event[e].attempts = 0 /\ (Dispatchable(e) => e = 1)
  BY DEF Init, Dispatchable
<1>4. \A e \in Event : Lower(e, 0 + 1)
  BY BoundsAssumption DEF Lower, Attempt
<1>5. latest = NoKey
  BY DEF Init
<1> QED
  BY <1>1, <1>2, <1>3, <1>4, <1>5
  DEF OrderInv, RetryableIsFailed, RetryIsPassed, RowsInOrder, WorkersInOrder, AttemptsInOrder,
      OnePending, LatestIsThere, LatestOfPending, LatestIsLast, LeftBehind, Live

\* The numbers that waiting rows, workers and attempts stand at.
LEMMA NumbersNext ==
    ASSUME TypeInv, OrderInv, [Next]_vars
    PROVE  /\ RetryableIsFailed' /\ RetryIsPassed'
           /\ RowsInOrder' /\ WorkersInOrder' /\ AttemptsInOrder'
<1> USE DEF OrderInv
<1>0. TypeInv'
  BY TypeNext
<1>1. RetryableIsFailed'
  <2> SUFFICES ASSUME NEW k \in Key, dispatch'[k].retryable
               PROVE  dispatch'[k].state = "failed" /\ k[2] < MaxAttempts
    BY DEF RetryableIsFailed
  <2>1. ASSUME NEW w \in Worker, Inserts(w) PROVE dispatch'[k] = dispatch[k]
    BY <2>1 DEF Inserts, RetryableIsFailed
  <2> QED BY <2>1, AttemptsMove DEF AttemptsGoOn, GoesOn, RetryableIsFailed
<1>2. RetryIsPassed'
  <2> SUFFICES ASSUME NEW w \in Worker, pc'[w] = "finish", reply'[w] = "retry"
               PROVE  Passed(at[w])'
    BY DEF RetryIsPassed
  <2>1. Carries(w) /\ ((pc[w] = "finish" /\ reply[w] = "retry") \/ Passed(at[w])')
    BY WorkersMove DEF MayRetry
  <2>2. PICK k \in Key : k = at[w] /\ k = at'[w]
    BY <2>1 DEF Carries, TypeInv, LocalsOK
  <2>3. pc[w] = "finish" /\ reply[w] = "retry" => Passed(k)'
    BY <2>2, PassedStays DEF RetryIsPassed
  <2> QED BY <2>1, <2>2, <2>3 DEF Passed, Dead
<1>3. RowsInOrder'
  <2> SUFFICES ASSUME NEW e \in Event, Dispatchable(e)'
               PROVE  Lower(e, event[e].attempts + 1)'
    BY DEF RowsInOrder
  <2>1. CASE StillWaits(e)
    <3>1. CASE event'[e].attempts = event[e].attempts
      <4>1. PICK n : n = event[e].attempts + 1
        OBVIOUS
      <4>2. Lower(e, n)
        BY <2>1, <4>1 DEF StillWaits, RowsInOrder
      <4>3. \A j \in Attempt : j < n => Passed(<<e, j>>)'
        BY <4>2, LowerStays
      <4> QED BY <3>1, <4>1, <4>3 DEF Lower
    <3>2. ASSUME NEW w \in Worker, pc[w] # "idle", at[w][1] = e, event'[e].attempts = at[w][2],
                 (pc[w] = "finish" /\ reply[w] = "retry") \/ at[w] \in skipped'
          PROVE  Lower(e, event[e].attempts + 1)'
      <4>1. PICK k \in Key : k = at[w]
        BY <3>2 DEF TypeInv, LocalsOK
      <4>2. k = <<e, k[2]>> /\ k[2] \in Attempt
        BY <3>2, <4>1 DEF Key
      <4>3. Passed(k)'
        BY <3>2, <4>1, PassedStays DEF RetryIsPassed, Passed
      <4>4. PICK n : n = k[2]
        OBVIOUS
      <4>5. \A j \in Attempt : j < n => Passed(<<e, j>>)'
        <5>1. Lower(e, n)
          BY <3>2, <4>1, <4>4 DEF WorkersInOrder
        <5> QED BY <5>1, LowerStays
      <4>6. \A j \in Attempt : j < n + 1 => Passed(<<e, j>>)'
        <5> SUFFICES ASSUME NEW j \in Attempt, j < n + 1 PROVE Passed(<<e, j>>)'
          OBVIOUS
        <5>1. j < n \/ j = n
          BY <4>2, <4>4 DEF Attempt
        <5> QED BY <4>2, <4>3, <4>4, <4>5, <5>1
      <4> QED BY <3>2, <4>1, <4>4, <4>6 DEF Lower
    <3> QED BY <2>1, <3>1, <3>2 DEF StillWaits
  <2>2. CASE IsNew(e)
    BY <2>2, BoundsAssumption DEF IsNew, Lower, Attempt
  <2> QED BY <2>1, <2>2, RowsMove
<1>4. WorkersInOrder'
  <2> SUFFICES ASSUME NEW w \in Worker, pc'[w] # "idle"
               PROVE  Lower(at[w][1], at[w][2])'
    BY DEF WorkersInOrder
  <2>1. PICK k \in Key : k = at'[w]
    BY <1>0 DEF TypeInv, LocalsOK
  <2>2. Lower(k[1], k[2])
    <3>1. CASE Carries(w)
      BY <2>1, <3>1 DEF Carries, WorkersInOrder
    <3>2. CASE Polls(w)
      BY <2>1, <3>2 DEF Polls, RowsInOrder
    <3> QED BY <3>1, <3>2, WorkersMove
  <2>3. \A j \in Attempt : j < k[2] => Passed(<<k[1], j>>)'
    BY <2>2, LowerStays, KeyParts
  <2> QED BY <2>1, <2>3 DEF Lower
<1>5. AttemptsInOrder'
  <2> SUFFICES ASSUME NEW k \in Key, dispatch'[k].state # "none"
               PROVE  \A j \in Attempt : j < k[2] => Passed(<<k[1], j>>)'
    BY DEF AttemptsInOrder, Lower, Passed, Dead
  <2>1. Lower(k[1], k[2])
    <3>1. CASE dispatch[k].state # "none"
      BY <3>1 DEF AttemptsInOrder
    <3>2. CASE dispatch[k].state = "none"
      <4>1. PICK w \in Worker : Inserts(w)
        BY <3>2, AttemptsMove DEF AttemptsGoOn, GoesOn
      <4>2. k = at[w]
        BY <3>2, <4>1 DEF Inserts
      <4> QED BY <4>1, <4>2 DEF Inserts, WorkersInOrder
    <3> QED BY <3>1, <3>2
  <2> QED BY <2>1, LowerStays, KeyParts
<1> QED BY <1>1, <1>2, <1>3, <1>4, <1>5

\* A worker asks for a new attempt of a row.  The attempt asked for last is a
\* definite failure, or one of the same row.
LEMMA LatestOfInserter ==
    ASSUME TypeInv, OrderInv, NEW w \in Worker, Inserts(w), latest # NoKey
    PROVE  /\ latest \in Key
           /\ dispatch[latest].state = "failed" \/ latest[1] = at[w][1]
BY KeyParts DEF Inserts, OrderInv, LatestOfPending, TypeInv, RowsOK

\* What is left alive in the row of the latest attempt is that attempt, or comes
\* after it, and then the number of the latest was consumed.
LEMMA AliveBesideLatest ==
    ASSUME OrderInv, latest \in Key, NEW k \in Key, Live(k), k[1] = latest[1], k # latest
    PROVE  latest \in skipped
<1> USE DEF OrderInv
<1>1. latest = <<k[1], latest[2]>> /\ k = <<k[1], k[2]>>
      /\ k[2] \in Attempt /\ latest[2] \in Attempt
  BY DEF Key
<1>2. ~(k[2] < latest[2])
  <2>1. latest # NoKey
    BY DEF Key, Event, NoKey
  <2> QED BY <1>1, <2>1 DEF LatestIsThere, AttemptsInOrder, Lower, Passed, Dead, Live
<1>3. latest[2] < k[2]
  BY <1>1, <1>2 DEF Attempt
<1> QED BY <1>3 DEF LatestIsLast, Live

LEMMA LatestNext ==
    ASSUME TypeInv, OrderInv, [Next]_vars
    PROVE  LatestIsThere' /\ LatestOfPending' /\ LatestIsLast' /\ LeftBehind'
<1> USE DEF OrderInv
<1>1. ASSUME NEW w \in Worker, Inserts(w)
      PROVE  LatestIsThere' /\ LatestOfPending' /\ LatestIsLast' /\ LeftBehind'
  <2>1. PICK k \in Key : k = at[w]
    BY <1>1 DEF Inserts
  <2>2. k = <<k[1], k[2]>> /\ k[1] \in Event /\ k[2] \in Attempt
    BY DEF Key
  <2>3. LatestIsThere'
    BY <1>1 DEF Inserts, LatestIsThere
  <2>4. LatestOfPending'
    <3>1. \A f \in Event : Dispatchable(f)' => f = k[1]
      BY <1>1, <2>1, <2>2 DEF Inserts, OnePending, Dispatchable
    <3> QED BY <1>1, <2>1, <3>1 DEF Inserts, LatestOfPending
  <2>5. LatestIsLast'
    <3> SUFFICES ASSUME NEW j \in Key, dispatch'[j].state # "none", j[1] = k[1], k[2] < j[2]
                 PROVE  k \in skipped'
      BY <1>1, <2>1 DEF Inserts, LatestIsLast
    <3>1. dispatch[j].state # "none"
      BY <1>1, <2>1, <2>2 DEF Inserts, Attempt
    <3>2. Passed(k)
      BY <2>2, <3>1 DEF AttemptsInOrder, Lower
    <3>3. ~Dead(k)
      BY <1>1, <2>1 DEF Inserts, Dead
    <3> QED BY <3>2, <3>3, SkippedGrows DEF Passed
  <2>6. LeftBehind'
    <3> SUFFICES ASSUME NEW j \in Key, Live(j)', j[1] # k[1]
                 PROVE  \E s \in skipped : s[1] = j[1] /\ dispatch[s].state = "failed"
      <4>1. \A s \in skipped : dispatch[s].state = "failed" => dispatch'[s].state = "failed"
        BY <1>1, <2>1 DEF Inserts, TypeInv, RestOK
      <4> QED BY <1>1, <2>1, <4>1, SkippedGrows DEF Inserts, LeftBehind
    <3>1. Live(j)
      BY <1>1, <2>1, SkippedGrows DEF Inserts, Live
    <3>2. CASE j[1] # latest[1]
      BY <3>1, <3>2 DEF LeftBehind
    <3>3. CASE j[1] = latest[1]
      <4>1. latest \in Key /\ dispatch[latest].state = "failed"
        <5>1. latest # NoKey
          BY <3>3 DEF Key, Event, NoKey
        <5> QED BY <1>1, <2>1, <3>3, <5>1, LatestOfInserter
      <4>2. latest \in skipped
        BY <3>1, <3>3, <4>1, AliveBesideLatest DEF Live
      <4> QED BY <3>3, <4>1, <4>2
    <3> QED BY <3>2, <3>3
  <2> QED BY <2>3, <2>4, <2>5, <2>6
<1>2. ASSUME AttemptsGoOn
      PROVE  LatestIsThere' /\ LatestOfPending' /\ LatestIsLast' /\ LeftBehind'
  <2>1. LatestIsThere'
    BY <1>2 DEF AttemptsGoOn, GoesOn, LatestIsThere, TypeInv, RowsOK
  <2>2. LatestOfPending'
    <3> SUFFICES ASSUME NEW e \in Event, Dispatchable(e)', latest # NoKey,
                        dispatch'[latest].state # "failed"
                 PROVE  latest[1] = e
      BY <1>2 DEF AttemptsGoOn, LatestOfPending
    <3>1. dispatch[latest].state # "failed"
      <4>1. latest \in Key
        BY DEF TypeInv, RowsOK
      <4> QED BY <1>2, <4>1 DEF AttemptsGoOn, GoesOn
    <3> QED BY <3>1, RowsMove DEF StillWaits, IsNew, LatestOfPending
  <2>3. LatestIsLast'
    BY <1>2, SkippedGrows DEF AttemptsGoOn, GoesOn, LatestIsLast
  <2>4. LeftBehind'
    <3> SUFFICES ASSUME NEW j \in Key, Live(j)', j[1] # latest[1]
                 PROVE  \E s \in skipped' : s[1] = j[1] /\ dispatch'[s].state = "failed"
      BY <1>2 DEF AttemptsGoOn, LeftBehind
    <3>1. Live(j)
      BY <1>2, SkippedGrows DEF AttemptsGoOn, GoesOn, Live
    <3>2. PICK s \in skipped : s[1] = j[1] /\ dispatch[s].state = "failed"
      BY <3>1 DEF LeftBehind
    <3>3. s \in Key
      BY DEF TypeInv, RestOK
    <3> QED BY <1>2, <3>2, <3>3, SkippedGrows DEF AttemptsGoOn, GoesOn
  <2> QED BY <2>1, <2>2, <2>3, <2>4
<1> QED BY <1>1, <1>2, AttemptsMove

LEMMA OrderNext ==
    ASSUME TypeInv, OrderInv, [Next]_vars
    PROVE  OrderInv'
<1>1. OnePending'
  BY RowsMove DEF OrderInv, OnePending, StillWaits, IsNew
<1> QED BY <1>1, NumbersNext, LatestNext DEF OrderInv

LEMMA OrderAlways == Spec => []OrderInv
<1>1. TypeInv /\ OrderInv /\ [Next]_vars => OrderInv'
  BY OrderNext
<1> QED BY <1>1, OrderInit, TypeAlways, PTL DEF Spec

-----------------------------------------------------------------------------
(* Counting what may take effect against the numbers consumed.               *)

LEMMA KeysFinite ==
    /\ IsFiniteSet(Key)
    /\ \A S \in SUBSET Key : IsFiniteSet(S) /\ Cardinality(S) \in Nat
<1>1. IsFiniteSet(Event) /\ IsFiniteSet(Attempt)
  BY FS_Interval, BoundsAssumption DEF Event, Attempt
<1>2. IsFiniteSet(Key)
  BY <1>1, FS_Product DEF Key
<1> QED BY <1>2, FS_Subset, FS_CardinalityType

\* Two live attempts of one row are the same: the lower was passed.
LEMMA OneLivePerRow ==
    ASSUME OrderInv, NEW j \in Key, NEW k \in Key, Live(j), Live(k), j[1] = k[1]
    PROVE  j = k
<1>1. j = <<j[1], j[2]>> /\ k = <<j[1], k[2]>> /\ j[2] \in Attempt /\ k[2] \in Attempt
  BY DEF Key
<1>2. ~(j[2] < k[2]) /\ ~(k[2] < j[2])
  BY <1>1 DEF OrderInv, AttemptsInOrder, Lower, Passed, Dead, Live
<1>3. j[2] = k[2]
  BY <1>1, <1>2 DEF Attempt
<1> QED BY <1>1, <1>3

\* Each attempt that may take effect is charged to a number of its own: to its
\* own if that was consumed, else to the failed one that its row left it behind,
\* and only the one in the row of the latest attempt is charged to nothing.
Charge(k) ==
    IF k \in skipped THEN k
    ELSE IF k[1] = latest[1] THEN NoKey
    ELSE CHOOSE s \in skipped : s[1] = k[1] /\ dispatch[s].state = "failed"

LEMMA ChargeIs ==
    ASSUME TypeInv, OrderInv, NEW k \in Key, Unresolved(k)
    PROVE  \/ k \in skipped /\ Charge(k) = k
           \/ k \notin skipped /\ Live(k) /\ k[1] = latest[1] /\ Charge(k) = NoKey
           \/ /\ k \notin skipped /\ Live(k)
              /\ Charge(k) \in skipped /\ Charge(k) \in Key
              /\ Charge(k)[1] = k[1]
              /\ dispatch[Charge(k)].state = "failed"
<1>1. CASE k \in skipped
  BY <1>1 DEF Charge
<1>2. CASE k \notin skipped /\ k[1] = latest[1]
  BY <1>2 DEF Charge, Live, Unresolved
<1>3. CASE k \notin skipped /\ k[1] # latest[1]
  <2>1. Live(k)
    BY <1>3 DEF Live, Unresolved
  <2>2. \E s \in skipped : s[1] = k[1] /\ dispatch[s].state = "failed"
    BY <1>3, <2>1 DEF OrderInv, LeftBehind
  <2>3. Charge(k) = CHOOSE s \in skipped : s[1] = k[1] /\ dispatch[s].state = "failed"
    BY <1>3 DEF Charge
  <2>4. Charge(k) \in skipped /\ Charge(k)[1] = k[1] /\ dispatch[Charge(k)].state = "failed"
    BY <2>2, <2>3
  <2> QED BY <1>3, <2>1, <2>4 DEF TypeInv, RestOK
<1> QED BY <1>1, <1>2, <1>3

LEMMA ChargedOnce ==
    ASSUME TypeInv, OrderInv, NEW j \in Key, NEW k \in Key, Unresolved(j), Unresolved(k),
           Charge(j) = Charge(k)
    PROVE  j = k
<1>1. NoKey \notin Key
  BY DEF Key, Event, NoKey
<1> QED BY <1>1, ChargeIs, OneLivePerRow DEF Unresolved

LEMMA FewEffects ==
    ASSUME TypeInv, OrderInv
    PROVE  AtMostOneEffect
<1>1. PICK A : A = {k \in Key : Unresolved(k)}
  OBVIOUS
<1>2. PICK S \in SUBSET Key : S = skipped
  BY DEF TypeInv, RestOK
<1>3. PICK f : f = [k \in A |-> Charge(k)]
  OBVIOUS
<1>4. f \in Injection(A, S \cup {NoKey})
  <2>1. \A k \in A : f[k] \in S \cup {NoKey}
    BY <1>1, <1>2, <1>3, ChargeIs
  <2>2. \A j, k \in A : f[j] = f[k] => j = k
    BY <1>1, <1>3, ChargedOnce
  <2> QED BY <1>3, <2>1, <2>2 DEF Injection, IsInjective
<1>5. IsFiniteSet(S) /\ Cardinality(S) \in Nat /\ Cardinality(A) \in Nat
  BY <1>1, KeysFinite
<1>6. IsFiniteSet(S \cup {NoKey}) /\ Cardinality(S \cup {NoKey}) = Cardinality(S) + 1
  <2>1. NoKey \notin S
    BY DEF Key, Event, NoKey
  <2> QED BY <1>5, <2>1, FS_AddElement
<1>7. Cardinality(A) <= Cardinality(S \cup {NoKey})
  BY <1>4, <1>6, FS_Injection
<1> QED BY <1>1, <1>2, <1>5, <1>6, <1>7 DEF AtMostOneEffect

\* Whoever is to receive the message receives it once, by automatic attempts
\* and manual retries together, and at most once more for each attempt number
\* that an interruption consumed unsent (a failing guard, quiet hours, a
\* throwing query): each attempt that may take effect is charged to such a
\* number, except one.
THEOREM OneEffectPerMessage == Spec => []AtMostOneEffect
BY FewEffects, TypeAlways, OrderAlways, PTL

\* The provider accepts the message at most once more than attempt numbers were
\* consumed unsent.
THEOREM AcceptedFewTimes == Spec => [](Cardinality(delivered) <= 1 + Cardinality(skipped))
<1>1. TypeInv /\ LedgerInv /\ OrderInv => Cardinality(delivered) <= 1 + Cardinality(skipped)
  <2> SUFFICES ASSUME TypeInv, LedgerInv, OrderInv
               PROVE  Cardinality(delivered) <= 1 + Cardinality(skipped)
    OBVIOUS
  <2>1. PICK A \in SUBSET Key : A = {k \in Key : Unresolved(k)}
    OBVIOUS
  <2>2. PICK D \in SUBSET A : D = delivered
    BY <2>1 DEF LedgerInv, LedgerIsHonest, Unresolved, TypeInv, RestOK
  <2>3. PICK S \in SUBSET Key : S = skipped
    BY DEF TypeInv, RestOK
  <2>4. Cardinality(A) <= 1 + Cardinality(S)
    BY <2>1, <2>3, FewEffects DEF AtMostOneEffect
  <2>5. Cardinality(D) <= Cardinality(A)
    BY KeysFinite, FS_Subset
  <2>6. Cardinality(D) \in Nat /\ Cardinality(A) \in Nat /\ Cardinality(S) \in Nat
    <3>1. D \in SUBSET Key
      BY <2>1, <2>2
    <3> QED BY <3>1, KeysFinite
  <2> QED BY <2>2, <2>3, <2>4, <2>5, <2>6
<1> QED BY <1>1, TypeAlways, LedgerAlways, OrderAlways, PTL

\* The provider accepts the message at most once as long as no attempt number
\* was consumed unsent.  The run dispatch_resend refutes this without the
\* condition.
THEOREM AcceptedAtMostOnce == Spec => [](NoneSkipped => AcceptedOnce)
<1>1. Cardinality(delivered) <= 1 + Cardinality(skipped) => (NoneSkipped => AcceptedOnce)
  BY FS_EmptySet DEF AcceptedOnce, NoneSkipped
<1> QED BY <1>1, AcceptedFewTimes, PTL

\* A row that still waits has an attempt left to make, unless an interruption
\* consumed the last: what was refused for the last time is never left to wait
\* (outcomeForSettledMessageDispatch).
THEOREM WaitingHasAttempts == Spec => []AttemptsLeft
<1>1. TypeInv /\ OrderInv => AttemptsLeft
  <2> SUFFICES ASSUME TypeInv, OrderInv, NEW e \in Event, Dispatchable(e),
                      <<e, event[e].attempts>> \notin skipped
               PROVE  event[e].attempts < MaxAttempts
    BY DEF AttemptsLeft
  <2>1. event[e].attempts \in 0 .. AttemptBound
    BY DEF TypeInv, RowsOK, EventRow
  <2>2. CASE event[e].attempts = 0
    BY <2>2, BoundsAssumption
  <2>3. CASE event[e].attempts # 0
    <3>1. event[e].attempts \in Attempt /\ event[e].attempts < event[e].attempts + 1
      BY <2>1, <2>3, BoundsAssumption DEF Attempt
    <3>2. Dead(<<e, event[e].attempts>>) /\ <<e, event[e].attempts>> \in Key
      BY <3>1 DEF OrderInv, RowsInOrder, Lower, Passed, Key
    <3> QED BY <3>2 DEF OrderInv, RetryableIsFailed, Dead
  <2> QED BY <2>2, <2>3
<1> QED BY <1>1, TypeAlways, OrderAlways, PTL

-----------------------------------------------------------------------------
(* The ledger implements the promise of OneDelivery.                         *)

Under == {"dispatched", "succeeded", "reconciliation_required"}

OneUnresolved == \A j, k \in Key : Unresolved(j) /\ Unresolved(k) => j = k

Orderly == NoneSkipped => OneUnresolved

\* While no number was consumed, every attempt but the one asked for last is a
\* definite failure.
OnlyLatest == \A k \in Key : k # latest => dispatch[k].state \in {"none", "failed"}

LEMMA InOrderUnlessSkipped ==
    ASSUME TypeInv, OrderInv, NoneSkipped
    PROVE  OnlyLatest /\ OneUnresolved
<1>1. OnlyLatest
  <2> SUFFICES ASSUME NEW k \in Key, Live(k) PROVE k = latest
    BY DEF OnlyLatest, Live, NoneSkipped
  <2>1. k[1] = latest[1]
    BY DEF OrderInv, LeftBehind, NoneSkipped
  <2>2. latest \in Key
    BY <2>1 DEF TypeInv, RowsOK, Key, Event, NoKey
  <2> QED BY <2>1, <2>2, AliveBesideLatest DEF NoneSkipped
<1> QED BY <1>1 DEF OnlyLatest, OneUnresolved, Unresolved

\* At most one attempt is of consequence, and the verdict is about that one.
LEMMA VerdictOf ==
    OneUnresolved =>
        /\ \A k \in Key : dispatch[k].state = "succeeded" => Verdict = "sent"
        /\ \A k \in Key : dispatch[k].state = "reconciliation_required" => Verdict = "review"
        /\ \A k \in Key : dispatch[k].state = "dispatched" => Verdict = "sending"
        /\ (\A k \in Key : dispatch[k].state \notin Under) => Verdict = "open"
BY DEF OneUnresolved, Unresolved, Verdict, Under

LEMMA VerdictNext ==
    OneUnresolved' =>
        /\ \A k \in Key : dispatch'[k].state = "succeeded" => Verdict' = "sent"
        /\ \A k \in Key : dispatch'[k].state = "reconciliation_required" => Verdict' = "review"
        /\ \A k \in Key : dispatch'[k].state = "dispatched" => Verdict' = "sending"
        /\ (\A k \in Key : dispatch'[k].state \notin Under) => Verdict' = "open"
BY DEF OneUnresolved, Unresolved, Verdict, Under

LEMMA VerdictStays ==
    ASSUME OneUnresolved, OneUnresolved',
           \A k \in Key : \/ dispatch'[k].state = dispatch[k].state
                          \/ dispatch[k].state \notin Under /\ dispatch'[k].state \notin Under
    PROVE  Verdict' = Verdict
<1>1. CASE \A k \in Key : dispatch[k].state \notin Under
  <2>1. \A k \in Key : dispatch'[k].state \notin Under
    BY <1>1
  <2> QED BY <1>1, <2>1, VerdictOf, VerdictNext
<1>2. ASSUME NEW k \in Key, dispatch[k].state \in Under PROVE Verdict' = Verdict
  <2>1. dispatch'[k].state = dispatch[k].state
    BY <1>2
  <2> QED BY <1>2, <2>1, VerdictOf, VerdictNext DEF Under
<1> QED BY <1>1, <1>2

\* Nobody else's attempt is of consequence beside one that is.
LEMMA TheOnlyOne ==
    ASSUME LedgerInv, OneUnresolved, NEW k \in Key, dispatch[k].state \in Under,
           delivered \subseteq Key
    PROVE  delivered \subseteq {k}
BY DEF LedgerInv, LedgerIsHonest, OneUnresolved, Unresolved, Under

Stutters ==
    /\ delivered' = delivered
    /\ \A k \in Key : \/ dispatch'[k].state = dispatch[k].state
                      \/ dispatch[k].state \notin Under /\ dispatch'[k].state \notin Under

LEMMA PromiseNext ==
    ASSUME TypeInv, LedgerInv, OneUnresolved, OneUnresolved', [Next]_vars
    PROVE  [Promise!Next]_(Promise!vars)
<1>1. ASSUME Stutters PROVE [Promise!Next]_(Promise!vars)
  BY <1>1, VerdictStays DEF Stutters, Promise!vars
<1>2. UNCHANGED <<dispatch, delivered>> => Stutters
  BY DEF Stutters
<1>3. ASSUME NEW w \in Worker, WorkerStep(w) PROVE [Promise!Next]_(Promise!vars)
  <2>1. delivered \subseteq Key /\ (pc[w] # "idle" => at[w] \in Key)
    BY DEF TypeInv, LocalsOK, RestOK
  <2>2. CASE Request(w)
    <3>1. \A k \in Key : dispatch'[k].state = dispatch[k].state
                           \/ (dispatch[k].state = "none" /\ dispatch'[k].state = "requested")
      BY <2>1, <2>2 DEF Request, TypeInv, RowsOK, DispatchRow
    <3> QED BY <1>1, <2>2, <3>1 DEF Request, Stutters, Under, history
  <2>3. CASE ClaimBlocked(w)
    <3>1. Stutters
      BY <2>1, <2>3
      DEF ClaimBlocked, Stutters, Under, TypeInv, RowsOK, DispatchRow, history
    <3> QED BY <1>1, <3>1
  <2>4. CASE ClaimDispatch(w)
    <3>1. /\ at[w] \in Key /\ dispatch[at[w]].state = "requested"
          /\ dispatch'[at[w]].state = "dispatched"
          /\ \A j \in Key \ {at[w]} : dispatch'[j] = dispatch[j]
          /\ delivered' = delivered
      BY <2>1, <2>4 DEF ClaimDispatch, TypeInv, RowsOK, DispatchRow, history
    <3>2. \A j \in Key : dispatch[j].state \notin Under
      BY <3>1 DEF OneUnresolved, Unresolved, Under
    <3>3. Verdict = "open" /\ Verdict' = "sending"
      BY <3>1, <3>2, VerdictOf, VerdictNext
    <3> QED BY <3>1, <3>3 DEF Promise!Next, Promise!Begin
  <2>5. CASE ClaimReconciles(w)
    <3>1. /\ at[w] \in Key /\ dispatch[at[w]].state = "dispatched"
          /\ dispatch'[at[w]].state = "reconciliation_required"
          /\ delivered' = delivered
      BY <2>1, <2>5 DEF ClaimReconciles, TypeInv, RowsOK, DispatchRow, history
    <3>2. Verdict = "sending" /\ Verdict' = "review"
      BY <3>1, VerdictOf, VerdictNext
    <3> QED BY <3>1, <3>2 DEF Promise!Next, Promise!Suspect
  <2>6. CASE SettleResult(w)
    <3>1. /\ at[w] \in Key /\ dispatch[at[w]].state = "dispatched" /\ pc[w] = "settle"
          /\ dispatch'[at[w]].state = LedgerState(reply[w])
          /\ \A j \in Key \ {at[w]} : dispatch'[j] = dispatch[j]
          /\ delivered' = delivered
      BY <2>1, <2>6 DEF SettleResult, Settle, TypeInv, RowsOK, DispatchRow, history
    <3>2. Verdict = "sending"
      BY <3>1, VerdictOf
    <3>3. CASE reply[w] = "ok"
      <4>1. at[w] \in delivered /\ LedgerState(reply[w]) = "succeeded"
        BY <3>1, <3>3 DEF LedgerInv, SettlerOK, LedgerState
      <4>2. Verdict' = "sent"
        BY <3>1, <4>1, VerdictNext
      <4> QED BY <3>1, <3>2, <4>1, <4>2 DEF Promise!Next, Promise!Confirm
    <3>4. CASE reply[w] = "uncertain"
      <4>1. LedgerState(reply[w]) = "reconciliation_required"
        BY <3>4 DEF LedgerState
      <4>2. Verdict' = "review"
        BY <3>1, <4>1, VerdictNext
      <4> QED BY <3>1, <3>2, <4>2 DEF Promise!Next, Promise!Suspect
    <3>5. CASE reply[w] \in {"transient", "permanent"}
      <4>1. at[w] \notin delivered /\ LedgerState(reply[w]) = "failed"
        BY <3>1, <3>5 DEF LedgerInv, SettlerOK, LedgerState
      <4>2. delivered = {}
        BY <2>1, <3>1, <4>1, TheOnlyOne DEF Under
      <4>3. \A j \in Key : dispatch'[j].state \notin Under
        BY <3>1, <4>1 DEF OneUnresolved, Unresolved, Under
      <4>4. Verdict' = "open"
        BY <4>3, VerdictNext
      <4> QED BY <3>1, <3>2, <4>2, <4>4 DEF Promise!Next, Promise!Refuse
    <3> QED BY <3>1, <3>3, <3>4, <3>5 DEF LedgerInv, SettlerOK, ProviderResult
  <2>7. CASE Send(w)
    <3>1. CASE delivered' = delivered
      BY <1>1, <1>2, <2>7, <3>1 DEF Send, rows
    <3>2. CASE delivered' # delivered
      <4>1. /\ at[w] \in Key /\ delivered' = delivered \cup {at[w]} /\ dispatch' = dispatch
            /\ dispatch[at[w]].state \in {"dispatched", "reconciliation_required"}
            /\ at[w] \notin delivered
        BY <2>1, <2>7, <3>2 DEF Send, rows, LedgerInv, SenderOK
      <4>2. delivered = {}
        BY <2>1, <4>1, TheOnlyOne DEF Under
      <4>3. Verdict' = Verdict
        BY <4>1, VerdictStays
      <4>4. Verdict \in {"sending", "review"}
        BY <4>1, VerdictOf
      <4> QED BY <4>1, <4>2, <4>3, <4>4 DEF Promise!Next, Promise!Accept
    <3> QED BY <3>1, <3>2
  <2> QED
    BY <1>1, <1>2, <1>3, <2>2, <2>3, <2>4, <2>5, <2>6, <2>7
    DEF WorkerStep, Poll, Guard, QuarantineDeleted, ReadDone, ReadMissing, MarkMissing,
        ReadRecipient, ClaimInFlight, ClaimSettled, SettleLate, Finish, rows, history
<1>4. ASSUME NEW w \in Worker, Interruption(w) PROVE Stutters
  BY <1>2, <1>4 DEF Interruption, GuardFail, ReadDefers, ReadThrows, Abandon, rows, history
<1>5. CASE Clock
  <2>1. \A k \in Key : dispatch'[k].state = dispatch[k].state
    BY <1>5 DEF Clock, EventDue, WindowElapses, TypeInv, RowsOK, DispatchRow
  <2> QED BY <1>1, <1>5, <2>1 DEF Clock, EventDue, WindowElapses, Stutters, history
<1>6. CASE DeleteContact
  <2>1. Stutters
    BY <1>6 DEF DeleteContact, Stutters, Under, TypeInv, RowsOK, DispatchRow, history
  <2> QED BY <1>1, <2>1
<1>7. CASE ManualRetry \/ RestoreContact \/ SetDoNotContact \/ Callback
  BY <1>1, <1>2, <1>7
  DEF ManualRetry, RestoreContact, SetDoNotContact, Callback, CallbackRead, CallbackWrite,
      rows, history
<1> QED
  BY <1>1, <1>2, <1>3, <1>4, <1>5, <1>6, <1>7 DEF Next, Office, vars, rows, history

\* While no attempt number was consumed unsent, the whole ledger implements
\* OneDelivery: the office's verdict on a message and the provider's acceptance
\* of it move only as the promise allows, in every step up to the first one that
\* consumes a number.
THEOREM PromiseKept == Spec => KeepsPromise
<1>1. Init => Promise!Init
  <2> SUFFICES ASSUME Init PROVE Promise!Init
    OBVIOUS
  <2>1. \A k \in Key : dispatch[k].state = "none"
    BY DEF Init, NoRow
  <2>2. delivered = {}
    BY DEF Init
  <2>3. Verdict = "open"
    BY <2>1, VerdictOf DEF OneUnresolved, Unresolved, Under
  <2> QED BY <2>2, <2>3 DEF Promise!Init
<1>2. TypeInv /\ OrderInv => Orderly
  BY InOrderUnlessSkipped DEF Orderly
<1>3. TypeInv /\ LedgerInv /\ Orderly /\ Orderly' /\ [Next]_vars
         => [NoneSkipped' => [Promise!Next]_(Promise!vars)]_vars
  <2> SUFFICES ASSUME TypeInv, LedgerInv, Orderly, Orderly', [Next]_vars, NoneSkipped'
               PROVE  [Promise!Next]_(Promise!vars)
    OBVIOUS
  <2>1. NoneSkipped
    BY SkippedGrows DEF NoneSkipped
  <2>2. OneUnresolved /\ OneUnresolved'
    BY <2>1 DEF Orderly
  <2> QED BY <2>2, PromiseNext
<1> QED
  BY <1>1, <1>2, <1>3, TypeAlways, LedgerAlways, OrderAlways, PTL
  DEF Spec, KeepsPromise

\* In a behaviour in which no interruption ever consumes a number, the
\* implementation relation holds as it is written in textbooks.
THEOREM PromiseKeptForGood == Spec /\ []NoneSkipped => Promise!Spec
<1>1. NoneSkipped' /\ [NoneSkipped' => [Promise!Next]_(Promise!vars)]_vars
         => [Promise!Next]_(Promise!vars)
  <2> SUFFICES ASSUME UNCHANGED vars PROVE UNCHANGED Promise!vars
    OBVIOUS
  <2>1. dispatch' = dispatch /\ delivered' = delivered
    BY DEF vars, rows, history
  <2> QED BY <2>1 DEF Promise!vars, Verdict
<1> QED BY <1>1, PromiseKept, PTL DEF KeepsPromise, Promise!Spec

-----------------------------------------------------------------------------
(***************************************************************************)
(* What the rows leave behind.  A worker that reports a row processed has  *)
(* seen the message sent or the row's last attempt settled for good        *)
(* (DoneIsSealed), and a message is not shown as queued while such a row   *)
(* still waits (SealedIsShown).  Both need that the message has an         *)
(* address: without one, a row is processed with nothing settled at all.   *)
(* An address that is set stays set, so it is enough to ask for it in the  *)
(* initial state.  And both hold until a number is consumed unsent: a row  *)
(* may then be processed beside an older attempt.                          *)
(***************************************************************************)

\* Nothing more is to be sent for the row.
Sealed(e) ==
    \/ Succeeded
    \/ \E k \in Key : k[1] = e /\ dispatch[k].state = "failed" /\ ~dispatch[k].retryable

Present ==
    /\ \A w \in Worker : pc[w] # "idle" => event[at[w][1]].state # "absent"
    /\ \A k \in Key : event[k[1]].state = "absent" => dispatch[k].state = "none"
    /\ latest = NoKey => \A k \in Key : dispatch[k].state = "none"

NoneMissing == addressed /\ \A w \in Worker : pc[w] # "missing"

\* A row waits for a deleted contact only if the contact was deleted before
\* anything was polled.
DeletedEarly ==
    contact.deleted =>
        \A w \in Worker, e \in Event : Dispatchable(e) => pc[w] \in {"idle", "guard", "quarantine"}

DoneIsSealed ==
    \A w \in Worker :
        pc[w] = "finish" /\ reply[w] # "retry" /\ Dispatchable(at[w][1]) => Sealed(at[w][1])

SealedIsShown == \A e \in Event : Dispatchable(e) /\ Sealed(e) => message # "queued"

NeverBackToQueued == callback # "queued"

QuietInv ==
    /\ Present
    /\ NoneMissing
    /\ DeletedEarly
    /\ DoneIsSealed
    /\ SealedIsShown
    /\ NeverBackToQueued
    /\ ProcessedIsQuiet
    /\ QueuedHasRow

LEMMA SealedStays ==
    ASSUME TypeInv, [Next]_vars, NEW e \in Event, Sealed(e)
    PROVE  Sealed(e)'
BY SucceededStays, AdvanceNext DEF Sealed, Advance, Settled

LEMMA SealedIsQuiet ==
    ASSUME OrderInv, OnlyLatest, NoneSkipped,
           NEW e \in Event, Sealed(e), NEW k \in Key, k[1] = e
    PROVE  dispatch[k].state \notin {"requested", "dispatched"}
<1> SUFFICES ASSUME dispatch[k].state \in {"requested", "dispatched"} PROVE FALSE
  OBVIOUS
<1> USE DEF OrderInv
<1>1. k = latest
  BY DEF OnlyLatest
<1>2. ~Succeeded
  BY <1>1 DEF OnlyLatest, Succeeded
<1>3. PICK j \in Key : j[1] = e /\ dispatch[j].state = "failed" /\ ~dispatch[j].retryable
  BY <1>2 DEF Sealed
<1>4. k = <<e, k[2]>> /\ j = <<e, j[2]>> /\ k[2] \in Attempt /\ j[2] \in Attempt
  BY <1>3 DEF Key
<1>5. ~(j[2] < k[2])
  BY <1>3, <1>4 DEF AttemptsInOrder, Lower, Passed, Dead, NoneSkipped
<1>6. ~(k[2] < j[2])
  BY <1>3, <1>4 DEF AttemptsInOrder, Lower, Passed, Dead, NoneSkipped
<1>7. k[2] # j[2]
  BY <1>3, <1>4
<1> QED BY <1>4, <1>5, <1>6, <1>7 DEF Attempt

LEMMA NewIsOpen ==
    ASSUME OnlyLatest, Present, NEW e \in Event, IsNew(e)
    PROVE  ~Sealed(e)'
<1>1. ~Sealed(e)
  BY DEF OnlyLatest, Present, IsNew, Sealed, Succeeded, Key, Event, NoKey
<1> QED BY <1>1 DEF Sealed, Succeeded, IsNew

LEMMA RowsStay ==
    ASSUME TypeInv, [Next]_vars, NEW e \in Event, event[e].state # "absent"
    PROVE  event'[e].state # "absent"
<1>1. UNCHANGED event => event'[e].state # "absent"
  OBVIOUS
<1>2. ASSUME NEW f, event' = Quarantined(f) PROVE event'[e].state # "absent"
  BY <1>2 DEF Quarantined, TypeInv, RowsOK, EventRow
<1>3. ASSUME NEW w \in Worker, WorkerStep(w) PROVE event'[e].state # "absent"
  <2>1. CASE Request(w)
    BY <1>1, <1>2, <2>1 DEF Request
  <2>2. CASE ClaimDispatch(w)
    BY <2>2 DEF ClaimDispatch, TypeInv, RowsOK, EventRow
  <2>3. CASE SettleResult(w)
    BY <1>1, <1>2, <2>3 DEF SettleResult, Settle
  <2>4. CASE Finish(w)
    BY <2>4 DEF Finish, TypeInv, RowsOK, EventRow
  <2> QED
    BY <1>1, <1>2, <1>3, <2>1, <2>2, <2>3, <2>4
    DEF WorkerStep, Poll, Guard, QuarantineDeleted, ReadDone, ReadMissing, MarkMissing,
        ReadRecipient, ClaimBlocked, ClaimReconciles, ClaimInFlight, ClaimSettled, Send,
        SettleLate, rows
<1>4. ASSUME NEW w \in Worker, Interruption(w) PROVE event'[e].state # "absent"
  <2>1. CASE GuardFail(w)
    BY <2>1 DEF GuardFail, TypeInv, RowsOK, EventRow
  <2> QED
    BY <1>1, <1>4, <2>1 DEF Interruption, ReadDefers, ReadThrows, Abandon, rows
<1>5. CASE Clock
  BY <1>1, <1>5 DEF Clock, EventDue, WindowElapses, TypeInv, RowsOK, EventRow
<1>6. CASE ManualRetry
  <2>1. ASSUME NEW f \in Event PROVE Superseded(f)[e].state # "absent"
    BY DEF Superseded, TypeInv, RowsOK, EventRow
  <2>2. ASSUME NEW f \in Event, Enqueue(Superseded(f)) PROVE event'[e].state # "absent"
    <3>1. Superseded(f) \in [Event -> EventRow]
      BY DEF Superseded, TypeInv, RowsOK, EventRow, EventState, Timer
    <3> QED BY <2>1, <2>2, <3>1 DEF Enqueue
  <2>3. ASSUME Enqueue(event) PROVE event'[e].state # "absent"
    BY <2>3 DEF Enqueue, TypeInv, RowsOK
  <2>4. ASSUME NEW f \in Event, event' = [event EXCEPT ![f].next = "due"]
        PROVE  event'[e].state # "absent"
    BY <2>4 DEF TypeInv, RowsOK, EventRow
  <2> QED BY <1>6, <2>2, <2>3, <2>4 DEF ManualRetry
<1>7. CASE DeleteContact
  <2>1. event'[e] = Quarantined(e)[e]
    BY <1>7 DEF DeleteContact
  <2> QED BY <2>1 DEF Quarantined, TypeInv, RowsOK, EventRow
<1>8. CASE RestoreContact \/ SetDoNotContact \/ Callback
  BY <1>1, <1>8
  DEF RestoreContact, SetDoNotContact, Callback, CallbackRead, CallbackWrite, rows
<1> QED
  BY <1>1, <1>3, <1>4, <1>5, <1>6, <1>7, <1>8 DEF Next, Office, vars, rows

\* A row becomes processed under a worker that reports it so, or under a
\* manual retry that puts a new row in its place.
Processes(e) ==
    /\ Dispatchable(e)
    /\ UNCHANGED <<dispatch, message>>
    /\ \A f \in Event \ {e} : event'[f] = event[f]
    /\ \E w \in Worker : pc[w] = "finish" /\ reply[w] # "retry" /\ at[w][1] = e

Supersedes ==
    /\ latest # NoKey /\ dispatch[latest].state = "failed" /\ dispatch' = dispatch
    /\ \E f \in Event : Dispatchable(f)'

LEMMA EnqueuedWaits ==
    ASSUME NEW rest \in [Event -> EventRow], Enqueue(rest)
    PROVE  \E f \in Event : Dispatchable(f)'
BY DEF Enqueue, Unused, Dispatchable

LEMMA RetryWaits ==
    ASSUME TypeInv, ManualRetry
    PROVE  \E f \in Event : Dispatchable(f)'
<1>1. \A f \in Event : Superseded(f) \in [Event -> EventRow]
  BY DEF Superseded, TypeInv, RowsOK, EventRow, EventState, Timer
<1>2. event \in [Event -> EventRow]
  BY DEF TypeInv, RowsOK
<1>3. ASSUME NEW f \in Event, Dispatchable(f), event' = [event EXCEPT ![f].next = "due"]
      PROVE  Dispatchable(f)'
  BY <1>2, <1>3 DEF Dispatchable, EventRow
<1> QED BY <1>1, <1>2, <1>3, EnqueuedWaits DEF ManualRetry

LEMMA RowsEnd ==
    ASSUME TypeInv, [Next]_vars, NEW e \in Event, event'[e].state = "processed"
    PROVE  event[e].state = "processed" \/ Processes(e) \/ Supersedes
<1>1. UNCHANGED event => event[e].state = "processed"
  OBVIOUS
<1>2. ASSUME NEW f, event' = Quarantined(f) PROVE event[e].state = "processed"
  BY <1>2 DEF Quarantined, TypeInv, RowsOK, EventRow
<1>3. ASSUME NEW w \in Worker, WorkerStep(w)
      PROVE  event[e].state = "processed" \/ Processes(e)
  <2>1. CASE Request(w)
    BY <1>1, <1>2, <2>1 DEF Request
  <2>2. CASE ClaimDispatch(w)
    BY <2>2 DEF ClaimDispatch, TypeInv, RowsOK, EventRow
  <2>3. CASE SettleResult(w)
    BY <1>1, <1>2, <2>3 DEF SettleResult, Settle
  <2>4. CASE Finish(w)
    BY <2>4 DEF Finish, Processes, TypeInv, RowsOK, EventRow
  <2> QED
    BY <1>1, <1>2, <1>3, <2>1, <2>2, <2>3, <2>4
    DEF WorkerStep, Poll, Guard, QuarantineDeleted, ReadDone, ReadMissing, MarkMissing,
        ReadRecipient, ClaimBlocked, ClaimReconciles, ClaimInFlight, ClaimSettled, Send,
        SettleLate, rows
<1>4. ASSUME NEW w \in Worker, Interruption(w) PROVE event[e].state = "processed"
  <2>1. CASE GuardFail(w)
    BY <2>1 DEF GuardFail, TypeInv, RowsOK, EventRow
  <2> QED
    BY <1>1, <1>4, <2>1 DEF Interruption, ReadDefers, ReadThrows, Abandon, rows
<1>5. CASE Clock
  BY <1>1, <1>5 DEF Clock, EventDue, WindowElapses, TypeInv, RowsOK, EventRow
<1>6. CASE ManualRetry
  <2>1. ASSUME Enqueue(event) PROVE event[e].state = "processed"
    BY <2>1 DEF Enqueue, TypeInv, RowsOK, EventRow
  <2>2. ASSUME NEW f \in Event, event' = [event EXCEPT ![f].next = "due"]
        PROVE  event[e].state = "processed"
    BY <2>2 DEF TypeInv, RowsOK, EventRow
  <2>3. ASSUME latest # NoKey PROVE Supersedes
    BY <1>6, <2>3, RetryWaits DEF ManualRetry, Supersedes
  <2> QED BY <1>6, <2>1, <2>2, <2>3 DEF ManualRetry
<1>7. CASE DeleteContact
  <2>1. event'[e] = Quarantined(e)[e]
    BY <1>7 DEF DeleteContact
  <2> QED BY <2>1 DEF Quarantined, TypeInv, RowsOK, EventRow
<1>8. CASE RestoreContact \/ SetDoNotContact \/ Callback
  BY <1>1, <1>8
  DEF RestoreContact, SetDoNotContact, Callback, CallbackRead, CallbackWrite, rows
<1> QED
  BY <1>1, <1>3, <1>4, <1>5, <1>6, <1>7, <1>8 DEF Next, Office, vars, rows

\* A message comes back to be shown as queued by a manual retry, or by an
\* answer that is worth another attempt.
Requeues(k) ==
    /\ dispatch[k].state = "dispatched"
    /\ dispatch'[k].state = "failed" /\ dispatch'[k].retryable
    /\ \A j \in Key \ {k} : dispatch'[j] = dispatch[j]
    /\ UNCHANGED <<event, latest>>

LEMMA SettlesQueued ==
    ASSUME TypeInv, NEW w \in Worker, SettleResult(w), message' = "queued"
    PROVE  \E k \in Key : Requeues(k)
<1>1. at[w] \in Key /\ LedgerState(reply[w]) \in DispatchState
  BY DEF SettleResult, TypeInv, LocalsOK, LedgerState, DispatchState
<1> DEFINE again == LedgerState(reply[w]) = "failed" /\ Retryable(reply[w], at[w][2])
<1>2. again /\ LedgerState(reply[w]) = "failed"
  BY DEF SettleResult, Settle
<1>3. /\ dispatch' = [dispatch EXCEPT ![at[w]].state = LedgerState(reply[w]),
                                     ![at[w]].retryable = again]
      /\ dispatch[at[w]].state = "dispatched" /\ latest' = latest /\ event' = event
  BY <1>2 DEF SettleResult, Settle
<1> HIDE DEF again
<1>4. /\ dispatch'[at[w]].state = "failed" /\ dispatch'[at[w]].retryable
      /\ \A j \in Key \ {at[w]} : dispatch'[j] = dispatch[j]
  BY <1>1, <1>2, <1>3 DEF TypeInv, RowsOK, DispatchRow
<1> QED BY <1>1, <1>3, <1>4 DEF Requeues

LEMMA MessageMoves ==
    ASSUME TypeInv, NeverBackToQueued, [Next]_vars, message' = "queued"
    PROVE  \/ message = "queued"
           \/ ManualRetry
           \/ \E k \in Key : Requeues(k)
<1>1. ASSUME NEW w \in Worker, SettleResult(w) PROVE \E k \in Key : Requeues(k)
  BY <1>1, SettlesQueued
<1>2. ASSUME NEW w \in Worker, WorkerStep(w), ~SettleResult(w) PROVE message = "queued"
  <2>1. CASE Request(w)
    BY <2>1 DEF Request
  <2> QED
    BY <1>2, <2>1
    DEF WorkerStep, Poll, Guard, QuarantineDeleted, ReadDone, ReadMissing, MarkMissing,
        ReadRecipient, ClaimDispatch, ClaimBlocked, ClaimReconciles, ClaimInFlight,
        ClaimSettled, Send, SettleLate, Finish, rows
<1>3. ASSUME NEW w \in Worker, Interruption(w) PROVE message = "queued"
  BY <1>3 DEF Interruption, GuardFail, ReadDefers, ReadThrows, Abandon, rows
<1>4. ~CallbackWrite
  BY DEF CallbackWrite, NeverBackToQueued
<1> QED
  BY <1>1, <1>2, <1>3, <1>4
  DEF Next, Clock, EventDue, WindowElapses, Office, DeleteContact, RestoreContact,
      SetDoNotContact, Callback, CallbackRead, vars, rows

\* What a worker that reports a row processed goes by.
SealedBy(k) ==
    dispatch[k].state = "succeeded" \/ (dispatch[k].state = "failed" /\ ~dispatch[k].retryable)

MayFinish(w) ==
    pc'[w] = "finish" /\ reply'[w] # "retry" =>
        /\ Carries(w)
        /\ \/ pc[w] = "finish" /\ reply[w] # "retry"
           \/ pc[w] = "read" /\ contact.deleted /\ event' = event
           \/ message \in {"sent", "delivered"}
           \/ pc[w] = "missing"
           \/ SealedBy(at[w])'

LEMMA ReportedSealed ==
    ASSUME TypeInv, NEW w \in Worker, pc[w] # "idle", Settled(at[w]), Report(w, at[w]),
           UNCHANGED dispatch
    PROVE  MayFinish(w)
BY DEF Report, Leave, Return, Moved, Replied, TypeInv, LocalsOK, Carries, MayFinish, Settled,
       SealedBy

LEMMA WorkersFinish ==
    ASSUME NoneSkipped', TypeInv, [Next]_vars, NEW w \in Worker
    PROVE  MayFinish(w)
<1>1. pc'[w] = pc[w] /\ at'[w] = at[w] /\ reply'[w] = reply[w] => MayFinish(w)
  BY DEF Carries, MayFinish
<1>2. ASSUME UNCHANGED locals PROVE MayFinish(w)
  BY <1>1, <1>2 DEF locals
<1>3. ASSUME NEW v \in Worker, WorkerStep(v) PROVE MayFinish(w)
  <2>1. Others(v) \/ \E e \in Event : Poll(v, e)
    BY <1>3, OthersUntouched
    DEF WorkerStep, Guard, QuarantineDeleted, ReadDone, ReadMissing, MarkMissing,
        ReadRecipient, Request, ClaimDispatch, ClaimBlocked, ClaimReconciles, ClaimInFlight,
        ClaimSettled, Send, SettleLate, SettleResult, Settle, Finish, TypeInv, LocalsOK,
        Moved, Replied, Others, Leave
  <2>2. ASSUME NEW e \in Event, Poll(v, e) PROVE MayFinish(w)
    BY <1>1, <2>2 DEF Poll, Moved, MayFinish, TypeInv, LocalsOK
  <2>3. CASE w # v /\ Others(v)
    BY <1>1, <2>3 DEF Others
  <2>4. CASE w = v
    <3>1. CASE ClaimSettled(w) \/ SettleLate(w)
      BY <3>1, ReportedSealed DEF ClaimSettled, SettleLate, rows
    <3>2. CASE SettleResult(w)
      <4>1. at[w] \in Key /\ pc[w] = "settle" /\ LedgerState(reply[w]) \in DispatchState
        BY <3>2 DEF SettleResult, TypeInv, LocalsOK, LedgerState, DispatchState
      <4> DEFINE again == LedgerState(reply[w]) = "failed" /\ Retryable(reply[w], at[w][2])
      <4>2. /\ dispatch'[at[w]].state = LedgerState(reply[w])
            /\ dispatch'[at[w]].retryable = again
        BY <3>2, <4>1 DEF SettleResult, Settle, TypeInv, RowsOK, DispatchRow
      <4>3. \/ Leave(w)
            \/ /\ LedgerState(reply[w]) # "reconciliation_required"
               /\ Return(w, IF again THEN "retry" ELSE "processed")
        BY <3>2 DEF SettleResult, Settle
      <4>4. LedgerState(reply[w]) \in {"succeeded", "failed", "reconciliation_required"}
        BY DEF LedgerState
      <4> HIDE DEF again
      <4>5. pc'[w] = "finish" => /\ at'[w] = at[w]
                                 /\ LedgerState(reply[w]) # "reconciliation_required"
                                 /\ reply'[w] = IF again THEN "retry" ELSE "processed"
        BY <4>3 DEF Leave, Return, Moved, Replied, TypeInv, LocalsOK
      <4>6. pc'[w] = "finish" /\ reply'[w] # "retry" => SealedBy(at[w])'
        BY <4>2, <4>4, <4>5 DEF SealedBy
      <4> QED BY <4>1, <4>5, <4>6 DEF Carries, MayFinish
    <3>3. CASE Request(w)
      BY <3>3 DEF Request, Leave, Moved, TypeInv, LocalsOK, MayFinish
    <3>4. CASE Guard(w) \/ ReadMissing(w) \/ ReadRecipient(w) \/ ClaimDispatch(w) \/ Send(w)
      BY <3>4
      DEF Guard, ReadMissing, ReadRecipient, ClaimDispatch, Send, Moved, TypeInv, LocalsOK,
          MayFinish
    <3>5. CASE ReadDone(w) \/ MarkMissing(w)
      BY <3>5
      DEF ReadDone, MarkMissing, Return, Moved, TypeInv, LocalsOK, Carries, MayFinish, rows
    <3>6. Leave(w) => MayFinish(w)
      BY DEF Leave, TypeInv, LocalsOK, MayFinish
    <3> QED
      BY <1>3, <2>2, <2>4, <3>1, <3>2, <3>3, <3>4, <3>5, <3>6
      DEF WorkerStep, QuarantineDeleted, ClaimBlocked, ClaimReconciles, ClaimInFlight, Finish
  <2> QED BY <2>1, <2>2, <2>3, <2>4
<1>4. ASSUME NEW v \in Worker, Interruption(v) PROVE MayFinish(w)
  <2>1. ~Skips(v)
    BY DEF Skips, NoneSkipped
  <2>2. Leave(v)
    BY <1>4, <2>1 DEF Interruption, GuardFail, ReadDefers, ReadThrows, Abandon
  <2>3. Others(v) /\ pc'[v] = "idle"
    BY <2>2, OthersUntouched DEF TypeInv
  <2> QED BY <1>1, <2>3 DEF Others, MayFinish
<1> QED
  BY <1>2, <1>3, <1>4
  DEF Next, Clock, EventDue, WindowElapses, Office, ManualRetry, DeleteContact,
      RestoreContact, SetDoNotContact, Callback, CallbackRead, CallbackWrite, vars

-----------------------------------------------------------------------------

LEMMA QuietInit == Init /\ addressed => QuietInv
<1> SUFFICES ASSUME Init, addressed PROVE QuietInv
  OBVIOUS
<1>1. \A k \in Key : dispatch[k].state = "none"
  BY DEF Init, NoRow
<1>2. \A w \in Worker : pc[w] = "idle"
  BY DEF Init
<1>3. addressed /\ callback = "none" /\ message = "queued"
  BY DEF Init
<1>4. 1 \in Event /\ event[1].state = "pending"
  BY BoundsAssumption DEF Init, Event
<1>5. \A e \in Event : event[e].state # "processed"
  BY DEF Init
<1>6. \A e \in Event : ~Sealed(e)
  BY <1>1 DEF Sealed, Succeeded
<1>7. QueuedHasRow
  BY <1>4 DEF QueuedHasRow, Unprocessed
<1>8. Present /\ NoneMissing /\ DeletedEarly /\ DoneIsSealed
  BY <1>1, <1>2, <1>3 DEF Present, NoneMissing, DeletedEarly, DoneIsSealed
<1> QED
  BY <1>3, <1>5, <1>6, <1>7, <1>8, KeyParts
  DEF QuietInv, SealedIsShown, NeverBackToQueued, ProcessedIsQuiet

LEMMA PresentNext ==
    ASSUME TypeInv, Present, [Next]_vars
    PROVE  Present'
<1>1. ASSUME NEW w \in Worker, pc'[w] # "idle" PROVE event'[at'[w][1]].state # "absent"
  <2>1. CASE Carries(w)
    <3>1. PICK k \in Key : k = at[w]
      BY <2>1 DEF Carries, TypeInv, LocalsOK
    <3>2. event[k[1]].state # "absent"
      BY <2>1, <3>1 DEF Carries, Present
    <3> QED BY <2>1, <3>1, <3>2, KeyParts, RowsStay DEF Carries
  <2>2. CASE Polls(w)
    BY <2>2, RowsStay DEF Polls, Dispatchable
  <2> QED BY <1>1, <2>1, <2>2, WorkersMove
<1>2. ASSUME NEW k \in Key, event'[k[1]].state = "absent" PROVE dispatch'[k].state = "none"
  <2>1. event[k[1]].state = "absent" /\ dispatch[k].state = "none"
    BY <1>2, KeyParts, RowsStay DEF Present
  <2> QED BY <2>1, AttemptsMove DEF AttemptsGoOn, GoesOn, Inserts, Dispatchable
<1>3. ASSUME latest' = NoKey, NEW k \in Key PROVE dispatch'[k].state = "none"
  <2>1. ASSUME NEW w \in Worker PROVE ~Inserts(w)
    BY <1>3 DEF Inserts, Key, Event, NoKey
  <2> QED BY <1>3, <2>1, AttemptsMove DEF AttemptsGoOn, GoesOn, Present
<1> QED BY <1>1, <1>2, <1>3 DEF Present

LEMMA NoneMissingNext ==
    ASSUME TypeInv, NoneMissing, [Next]_vars
    PROVE  NoneMissing'
<1> USE DEF NoneMissing
<1>1. addressed'
  BY DEF Next, WorkerStep, Poll, Guard, QuarantineDeleted, ReadDone, ReadMissing, MarkMissing,
         ReadRecipient, Request, ClaimDispatch, ClaimBlocked, ClaimReconciles, ClaimInFlight,
         ClaimSettled, Send, SettleLate, SettleResult, Settle, Finish, Interruption, GuardFail,
         ReadDefers, ReadThrows, Abandon, Clock, EventDue, WindowElapses, Office, ManualRetry,
         DeleteContact, RestoreContact, SetDoNotContact, Callback, CallbackRead,
         CallbackWrite, vars, rows
<1>2. ASSUME UNCHANGED locals PROVE \A w \in Worker : pc'[w] # "missing"
  BY <1>2 DEF locals
<1>3. ASSUME NEW v \in Worker, WorkerStep(v) \/ Interruption(v)
      PROVE  \A w \in Worker : pc'[w] # "missing"
  <2>1. ~ReadMissing(v)
    BY DEF ReadMissing
  <2>2. Leave(v) => pc' = [pc EXCEPT ![v] = "idle"]
    BY DEF Leave
  <2>3. \A outcome : Return(v, outcome) => pc' = [pc EXCEPT ![v] = "finish"]
    BY DEF Return, Moved
  <2>4. Report(v, at[v]) => \E step : step # "missing" /\ pc' = [pc EXCEPT ![v] = step]
    BY <2>2, <2>3 DEF Report
  <2>5. \E step : step # "missing" /\ pc' = [pc EXCEPT ![v] = step]
    BY <1>3, <2>1, <2>2, <2>3, <2>4
    DEF WorkerStep, Poll, Guard, QuarantineDeleted, ReadDone, MarkMissing, ReadRecipient,
        Request, ClaimDispatch, ClaimBlocked, ClaimReconciles, ClaimInFlight, ClaimSettled,
        Send, SettleLate, SettleResult, Settle, Finish, Interruption, GuardFail, ReadDefers,
        ReadThrows, Abandon, Moved
  <2> QED BY <2>5 DEF TypeInv, LocalsOK
<1> QED
  BY <1>1, <1>2, <1>3
  DEF Next, Clock, EventDue, WindowElapses, Office, ManualRetry, DeleteContact,
      RestoreContact, SetDoNotContact, Callback, CallbackRead, CallbackWrite, vars

LEMMA DeletedEarlyNext ==
    ASSUME TypeInv, OnePending, DeletedEarly, [Next]_vars
    PROVE  DeletedEarly'
<1> SUFFICES ASSUME contact'.deleted, NEW e \in Event, Dispatchable(e)', NEW w \in Worker
             PROVE  pc'[w] \in {"idle", "guard", "quarantine"}
  BY DEF DeletedEarly
<1>1. ~DeleteContact
  <2>1. ASSUME DeleteContact PROVE event'[e] = Quarantined(e)[e]
    BY <2>1 DEF DeleteContact
  <2>2. Quarantined(e)[e].state # "pending"
    BY DEF Quarantined, Dispatchable, TypeInv, RowsOK, EventRow
  <2> QED BY <2>1, <2>2 DEF Dispatchable
<1>2. contact.deleted
  BY <1>1
  DEF Next, WorkerStep, Poll, Guard, QuarantineDeleted, ReadDone, ReadMissing, MarkMissing,
      ReadRecipient, Request, ClaimDispatch, ClaimBlocked, ClaimReconciles, ClaimInFlight,
      ClaimSettled, Send, SettleLate, SettleResult, Settle, Finish, Interruption, GuardFail,
      ReadDefers, ReadThrows, Abandon, Clock, EventDue, WindowElapses, Office, ManualRetry,
      RestoreContact, SetDoNotContact, Callback, CallbackRead, CallbackWrite, vars, TypeInv,
      RestOK
<1>3. Dispatchable(e)
  BY <1>2, RowsMove DEF StillWaits, IsNew
<1>4. \A v \in Worker : pc[v] \in {"idle", "guard", "quarantine"}
  BY <1>2, <1>3 DEF DeletedEarly
<1>5. UNCHANGED pc => pc'[w] \in {"idle", "guard", "quarantine"}
  BY <1>4
<1>6. ASSUME NEW v \in Worker, WorkerStep(v) \/ Interruption(v)
      PROVE  pc'[w] \in {"idle", "guard", "quarantine"}
  <2>1. \/ \E f \in Event : Poll(v, f)
        \/ Guard(v) \/ QuarantineDeleted(v) \/ GuardFail(v) \/ Abandon(v)
    BY <1>4, <1>6
    DEF WorkerStep, ReadDone, ReadMissing, MarkMissing, ReadRecipient, Sendable, Request,
        ClaimDispatch, ClaimBlocked, ClaimReconciles, ClaimInFlight, ClaimSettled, Send,
        SettleLate, SettleResult, Finish, Interruption, ReadDefers, ReadThrows
  <2> QED
    BY <1>2, <1>4, <2>1
    DEF Poll, Guard, QuarantineDeleted, GuardFail, Abandon, Leave, Moved, TypeInv, LocalsOK
<1> QED
  BY <1>1, <1>5, <1>6
  DEF Next, Clock, EventDue, WindowElapses, Office, ManualRetry, RestoreContact,
      SetDoNotContact, Callback, CallbackRead, CallbackWrite, vars, locals

LEMMA DoneIsSealedNext ==
    ASSUME NoneSkipped', TypeInv, SentInv, OrderInv, QuietInv, [Next]_vars
    PROVE  DoneIsSealed'
<1> SUFFICES ASSUME NEW w \in Worker, pc'[w] = "finish", reply'[w] # "retry",
                    Dispatchable(at[w][1])'
             PROVE  Sealed(at[w][1])'
  BY DEF DoneIsSealed
<1>1. Carries(w)
  BY WorkersFinish DEF MayFinish
<1>2. PICK k \in Key : k = at[w] /\ k = at'[w]
  BY <1>1 DEF Carries, TypeInv, LocalsOK
<1>3. k[1] \in Event /\ Dispatchable(k[1])'
  BY <1>2, KeyParts DEF Dispatchable
<1>4. Dispatchable(k[1])
  BY <1>1, <1>2, <1>3, RowsMove DEF OrderInv, StillWaits, IsNew, QuietInv, Present, Carries
<1>5. Sealed(k[1]) => Sealed(k[1])'
  BY <1>3, SealedStays
<1>6. CASE pc[w] = "finish" /\ reply[w] # "retry"
  <2>1. Sealed(k[1])
    BY <1>2, <1>4, <1>6 DEF QuietInv, DoneIsSealed
  <2> QED BY <1>2, <1>5, <2>1 DEF Sealed
<1>7. CASE message \in {"sent", "delivered"}
  <2>1. Sealed(k[1])
    BY <1>7 DEF SentInv, Sealed
  <2> QED BY <1>2, <1>5, <2>1 DEF Sealed
<1>8. ~(pc[w] = "read" /\ contact.deleted)
  BY <1>3, <1>4 DEF QuietInv, DeletedEarly
<1>9. pc[w] # "missing"
  BY DEF QuietInv, NoneMissing
<1>10. CASE SealedBy(at[w])'
  BY <1>2, <1>10 DEF SealedBy, Sealed, Succeeded
<1> QED BY <1>6, <1>7, <1>8, <1>9, <1>10, WorkersFinish DEF MayFinish

\* A row is sealed by a step that shows the message as sent or failed, unless
\* the contact is deleted.
LEMMA SealsShow ==
    ASSUME TypeInv, [Next]_vars, NEW e \in Event, ~Sealed(e), Sealed(e)', ~DeleteContact,
           message' = "queued"
    PROVE  \E k \in Key : Requeues(k)
<1>1. ASSUME UNCHANGED dispatch PROVE FALSE
  BY <1>1 DEF Sealed, Succeeded
<1>2. ASSUME \A k \in Key : \/ dispatch'[k] = dispatch[k]
                            \/ dispatch'[k].state \in {"requested", "dispatched"}
      PROVE  FALSE
  BY <1>2 DEF Sealed, Succeeded
<1>3. ASSUME NEW w \in Worker, WorkerStep(w) PROVE \E k \in Key : Requeues(k)
  <2>1. pc[w] # "idle" => at[w] \in Key
    BY DEF TypeInv, LocalsOK
  <2>2. CASE Request(w)
    <3>1. \A k \in Key : dispatch'[k] = dispatch[k] \/ dispatch'[k].state = "requested"
      BY <2>1, <2>2 DEF Request, TypeInv, RowsOK, DispatchRow
    <3> QED BY <1>2, <3>1
  <2>3. CASE ClaimDispatch(w)
    <3>1. \A k \in Key : dispatch'[k] = dispatch[k] \/ dispatch'[k].state = "dispatched"
      BY <2>1, <2>3 DEF ClaimDispatch, TypeInv, RowsOK, DispatchRow
    <3> QED BY <1>2, <3>1
  <2>4. CASE SettleResult(w)
    BY <2>4, SettlesQueued
  <2> QED
    BY <1>1, <1>3, <2>2, <2>3, <2>4
    DEF WorkerStep, Poll, Guard, QuarantineDeleted, ReadDone, ReadMissing, MarkMissing,
        ReadRecipient, ClaimBlocked, ClaimReconciles, ClaimInFlight, ClaimSettled, Send,
        SettleLate, Finish, rows
<1>4. ~(\E w \in Worker : Interruption(w))
  BY <1>1 DEF Interruption, GuardFail, ReadDefers, ReadThrows, Abandon, rows
<1>5. ~Clock
  <2>1. ASSUME NEW e0 \in Event, EventDue(e0) PROVE FALSE
    BY <1>1, <2>1 DEF EventDue
  <2>2. ASSUME NEW k \in Key, WindowElapses(k) PROVE FALSE
    <3>1. \A j \in Key : dispatch'[j] = dispatch[j] \/ dispatch'[j].state = "dispatched"
      BY <2>2 DEF WindowElapses, InFlight, TypeInv, RowsOK, DispatchRow
    <3> QED BY <1>2, <3>1
  <2> QED BY <2>1, <2>2 DEF Clock
<1>6. ~(ManualRetry \/ RestoreContact \/ SetDoNotContact \/ Callback)
  BY <1>1
  DEF ManualRetry, RestoreContact, SetDoNotContact, Callback, CallbackRead, CallbackWrite, rows
<1>7. ~UNCHANGED vars
  BY <1>1 DEF vars, rows
<1> QED BY <1>3, <1>4, <1>5, <1>6, <1>7 DEF Next, Office

LEMMA SealedIsShownNext ==
    ASSUME OnlyLatest, NoneSkipped, TypeInv, OrderInv, QuietInv, [Next]_vars
    PROVE  SealedIsShown'
<1> SUFFICES ASSUME NEW e \in Event, Dispatchable(e)', Sealed(e)', message' = "queued"
             PROVE  FALSE
  BY DEF SealedIsShown
<1>1. ~IsNew(e)
  BY NewIsOpen DEF QuietInv
<1>2. Dispatchable(e)
  BY <1>1, RowsMove DEF OrderInv, StillWaits
\* An answer worth another attempt is about the attempt asked for last, which
\* is one of this row; its other attempts came before, and were refused.
<1>3. ASSUME NEW k \in Key, Requeues(k) PROVE FALSE
  <2>1. k = latest
    BY <1>3 DEF Requeues, OnlyLatest
  <2>2. k[1] = e
    BY <1>2, <1>3, <2>1 DEF Requeues, OrderInv, LatestOfPending, Key, Event, NoKey
  <2>3. ~Succeeded'
    BY <1>3, <2>1 DEF Requeues, OnlyLatest, Succeeded
  <2>4. PICK j \in Key : j[1] = e /\ dispatch'[j].state = "failed" /\ ~dispatch'[j].retryable
    BY <2>3 DEF Sealed
  <2>5. Sealed(e)
    BY <1>3, <2>4 DEF Requeues, Sealed
  <2> QED BY <1>3, <2>2, <2>5, SealedIsQuiet DEF Requeues
\* A manual retry leaves the waiting row only if no attempt was made.
<1>4. CASE ManualRetry
  <2>1. Sealed(e)
    BY <1>4 DEF ManualRetry, Sealed, Succeeded
  <2>2. latest # NoKey
    BY <2>1 DEF QuietInv, Present, Sealed, Succeeded
  <2>3. PICK f \in Event : Dispatchable(f) /\ Enqueue(Superseded(f))
    BY <1>2, <1>4, <2>2 DEF ManualRetry, Unprocessed, Dispatchable
  <2>4. f = e
    BY <1>2, <2>3 DEF OrderInv, OnePending
  <2>5. Superseded(e) \in [Event -> EventRow] /\ Superseded(e)[e].state = "processed"
    BY DEF Superseded, TypeInv, RowsOK, EventRow, EventState, Timer
  <2>6. event'[e].state = "processed"
    BY <1>2, <2>3, <2>4, <2>5 DEF Enqueue, Unused, Dispatchable
  <2> QED BY <2>6 DEF Dispatchable
<1>5. CASE message = "queued"
  <2>1. ~Sealed(e)
    BY <1>2, <1>5 DEF QuietInv, SealedIsShown
  <2>2. ~DeleteContact
    <3>1. ASSUME DeleteContact PROVE event'[e] = Quarantined(e)[e]
      BY <3>1 DEF DeleteContact
    <3>2. Quarantined(e)[e].state # "pending"
      BY DEF Quarantined, Dispatchable, TypeInv, RowsOK, EventRow
    <3> QED BY <3>1, <3>2 DEF Dispatchable
  <2> QED BY <1>3, <2>1, <2>2, SealsShow
<1> QED BY <1>3, <1>4, <1>5, MessageMoves DEF QuietInv

LEMMA ProcessedIsQuietNext ==
    ASSUME OnlyLatest, NoneSkipped, TypeInv, OrderInv, QuietInv, [Next]_vars
    PROVE  ProcessedIsQuiet'
<1> SUFFICES ASSUME NEW k \in Key, event'[k[1]].state = "processed"
             PROVE  dispatch'[k].state \notin {"requested", "dispatched"}
  BY DEF ProcessedIsQuiet
<1>1. CASE event[k[1]].state = "processed"
  <2>1. dispatch[k].state \notin {"requested", "dispatched"}
    BY <1>1 DEF QuietInv, ProcessedIsQuiet
  <2> QED BY <1>1, <2>1, AttemptsMove DEF AttemptsGoOn, GoesOn, Inserts, Dispatchable
<1>2. CASE Processes(k[1])
  <2>1. Sealed(k[1])
    BY <1>2 DEF Processes, QuietInv, DoneIsSealed
  <2> QED BY <1>2, <2>1, KeyParts, SealedIsQuiet DEF Processes
<1>3. CASE Supersedes
  BY <1>3 DEF Supersedes, OnlyLatest
<1> QED BY <1>1, <1>2, <1>3, KeyParts, RowsEnd

LEMMA QueuedHasRowNext ==
    ASSUME NoneSkipped, TypeInv, QuietInv, [Next]_vars
    PROVE  QueuedHasRow'
<1> SUFFICES ASSUME message' = "queued"
             PROVE  \E e \in Event : event'[e].state \in {"pending", "quarantined"}
  BY DEF QueuedHasRow, Unprocessed
<1>1. CASE message = "queued"
  <2>1. PICK e \in Event : event[e].state \in {"pending", "quarantined"}
    BY <1>1 DEF QuietInv, QueuedHasRow, Unprocessed
  <2>2. event'[e].state \in {"pending", "quarantined", "processed"}
    <3>1. event'[e].state \in EventState
      BY TypeNext DEF TypeInv, RowsOK, EventRow
    <3> QED BY <2>1, <3>1, RowsStay DEF EventState
  <2>3. ~Processes(e)
    BY <1>1 DEF Processes, QuietInv, DoneIsSealed, SealedIsShown
  <2>4. CASE Supersedes
    BY <2>4 DEF Supersedes, Dispatchable
  <2> QED BY <2>1, <2>2, <2>3, <2>4, RowsEnd
<1>2. CASE ManualRetry
  BY <1>2, RetryWaits DEF Dispatchable
<1>3. ASSUME NEW k \in Key, Requeues(k)
      PROVE  \E e \in Event : event'[e].state \in {"pending", "quarantined"}
  <2>1. event[k[1]].state \notin {"processed", "absent"}
    BY <1>3 DEF Requeues, QuietInv, ProcessedIsQuiet, Present
  <2>2. event[k[1]].state \in EventState /\ k[1] \in Event
    BY KeyParts DEF TypeInv, RowsOK, EventRow
  <2> QED BY <1>3, <2>1, <2>2 DEF Requeues, EventState
<1> QED BY <1>1, <1>2, <1>3, MessageMoves DEF QuietInv

LEMMA QuietNext ==
    ASSUME NoneSkipped', TypeInv, SentInv, OrderInv, QuietInv, [Next]_vars
    PROVE  QuietInv'
<1>0. NoneSkipped /\ OnlyLatest
  BY SkippedGrows, InOrderUnlessSkipped DEF NoneSkipped
<1>1. Present' /\ NoneMissing' /\ DeletedEarly'
  BY PresentNext, NoneMissingNext, DeletedEarlyNext DEF QuietInv, OrderInv
<1>2. DoneIsSealed' /\ SealedIsShown' /\ ProcessedIsQuiet' /\ QueuedHasRow'
  BY <1>0, DoneIsSealedNext, SealedIsShownNext, ProcessedIsQuietNext, QueuedHasRowNext
<1>3. NeverBackToQueued'
  <2>1. ASSUME NEW s \in DeliveryStatus, CallbackRead(s) PROVE s # "queued"
    BY <2>1 DEF CallbackRead, ShouldUpdate, TypeInv, RowsOK, DeliveryStatus
  <2> QED
    BY <2>1
    DEF QuietInv, NeverBackToQueued, Next, WorkerStep, Poll, Guard, QuarantineDeleted,
        ReadDone, ReadMissing, MarkMissing, ReadRecipient, Request, ClaimDispatch,
        ClaimBlocked, ClaimReconciles, ClaimInFlight, ClaimSettled, Send, SettleLate,
        SettleResult, Settle, Finish, Interruption, GuardFail, ReadDefers, ReadThrows,
        Abandon, Clock, EventDue, WindowElapses, Office, ManualRetry, DeleteContact,
        RestoreContact, SetDoNotContact, Callback, CallbackRead, CallbackWrite, vars
<1> QED BY <1>1, <1>2, <1>3 DEF QuietInv

LEMMA SentAlways == Spec => []SentInv
<1>1. Init => SentInv
  BY DEF Init, SentInv
<1> QED BY <1>1, SentNext, TypeAlways, PTL DEF Spec

\* QuietInv as long as no number was consumed.
QuietUnlessSkipped == NoneSkipped => QuietInv

LEMMA QuietAlways == Spec /\ addressed => []QuietUnlessSkipped
<1>1. Init /\ addressed => QuietUnlessSkipped
  BY QuietInit DEF QuietUnlessSkipped
<1>2. TypeInv /\ SentInv /\ OrderInv /\ QuietUnlessSkipped /\ [Next]_vars => QuietUnlessSkipped'
  <2> SUFFICES ASSUME TypeInv, SentInv, OrderInv, QuietUnlessSkipped, [Next]_vars, NoneSkipped'
               PROVE  QuietInv'
    BY DEF QuietUnlessSkipped
  <2>1. NoneSkipped
    BY SkippedGrows DEF NoneSkipped
  <2> QED BY <2>1, QuietNext DEF QuietUnlessSkipped
<1> QED BY <1>1, <1>2, TypeAlways, SentAlways, OrderAlways, PTL DEF Spec

\* A processed outbox row leaves no attempt that could still be sent or still
\* waits for its outcome, for a message that has its address and as long as no
\* number was consumed unsent.
THEOREM ProcessedRowsAreQuiet == Spec /\ addressed => []ProcessedIsQuiet
<1>1. QuietUnlessSkipped => ProcessedIsQuiet
  BY DEF QuietUnlessSkipped, QuietInv, ProcessedIsQuiet
<1> QED BY <1>1, QuietAlways, PTL

\* A message shown as queued has a row that will send it or says why not, for
\* a message that has its address and as long as no number was consumed unsent.
\* Without an address a message is marked failed and a manual retry racing that
\* mark leaves it queued with no row.
THEOREM QueuedMessagesHaveRows == Spec /\ addressed => []QueuedHasRow
<1>1. QuietUnlessSkipped => QueuedHasRow
  BY DEF QuietUnlessSkipped, QuietInv, QueuedHasRow
<1> QED BY <1>1, QuietAlways, PTL

\* Nobody is forgotten at the provider: an attempt that waits for its outcome
\* has its row before an operator, or waiting at a number up to the attempt's
\* own, and every lower number is a definite refusal worth the next one.  The
\* polls of the row therefore lead to the attempt, where ClaimReconciles closes
\* it: this is the safety half of AttemptsSettle, for an addressed message and
\* as long as no number was consumed unsent.
Attended(k) ==
    \/ event[k[1]].state = "quarantined"
    \/ /\ Dispatchable(k[1])
       /\ event[k[1]].attempts < k[2]
       /\ \A n \in Attempt : n < k[2] => Dead(<<k[1], n>>)

NobodyForgotten ==
    NoneSkipped => \A k \in Key : dispatch[k].state = "dispatched" => Attended(k)

THEOREM AttemptsAreAttended == Spec /\ addressed => []NobodyForgotten
<1>1. TypeInv /\ OrderInv /\ QuietUnlessSkipped => NobodyForgotten
  <2> SUFFICES ASSUME TypeInv, OrderInv, QuietInv, NoneSkipped,
                      NEW k \in Key, dispatch[k].state = "dispatched"
               PROVE  Attended(k)
    BY DEF QuietUnlessSkipped, NobodyForgotten
  <2> DEFINE e == k[1]
  <2>1. e \in Event /\ k[2] \in Attempt /\ k = <<e, k[2]>>
    BY DEF Key
  <2>2. event[e].state \notin {"absent", "processed"}
    BY <2>1 DEF QuietInv, Present, ProcessedIsQuiet
  <2>3. event[e] \in EventRow
    BY <2>1 DEF TypeInv, RowsOK
  <2>4. Dispatchable(e) \/ event[e].state = "quarantined"
    BY <2>2, <2>3 DEF EventRow, EventState, Dispatchable
  <2>5. \A n \in Attempt : n < k[2] => Dead(<<e, n>>)
    BY DEF OrderInv, AttemptsInOrder, Lower, Passed, NoneSkipped
  <2>6. ASSUME Dispatchable(e) PROVE event[e].attempts < k[2]
    <3>1. Lower(e, event[e].attempts + 1)
      BY <2>1, <2>6 DEF OrderInv, RowsInOrder
    <3>2. ~Passed(k)
      BY DEF Passed, Dead, NoneSkipped
    <3>3. ~(k[2] < event[e].attempts + 1)
      BY <2>1, <3>1, <3>2 DEF Lower
    <3> QED BY <2>1, <2>3, <3>3 DEF EventRow, Attempt
  <2> QED BY <2>4, <2>5, <2>6 DEF Attended
<1> QED BY <1>1, QuietAlways, OrderAlways, TypeAlways, PTL
=============================================================================
