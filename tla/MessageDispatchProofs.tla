----------------------- MODULE MessageDispatchProofs -----------------------
(***************************************************************************)
(* Proofs about MessageDispatch for every number of workers, outbox rows,  *)
(* attempts, faults and interruptions.                                     *)
(***************************************************************************)
EXTENDS MessageDispatch, TLAPS

LocalsOK ==
    /\ pc \in [Worker -> PC]
    /\ at \in [Worker -> Key \cup {NoKey}]
    /\ reply \in [Worker -> {"none"} \cup ProviderResult \cup Outcome]
    /\ \A w \in Worker : pc[w] # "idle" => at[w] \in Key

RowsOK ==
    /\ message \in DeliveryStatus
    /\ override \in BOOLEAN
    /\ addressed \in BOOLEAN
    /\ sid \in BOOLEAN
    /\ event \in [Event -> EventRow]
    /\ dispatch \in [Key -> DispatchRow]
    /\ latest \in Key \cup {NoKey}

RestOK ==
    /\ contact \in [deleted: BOOLEAN, dnc: BOOLEAN]
    /\ callback \in DeliveryStatus \cup {"none"}
    /\ faults \in 0 .. MaxFaults
    /\ skipped \in SUBSET Key
    /\ calls \in [Key -> Nat]
    /\ delivered \in SUBSET Key

TypeInv == LocalsOK /\ RowsOK /\ RestOK

-----------------------------------------------------------------------------
(* What the helpers do to the types.                                         *)

LEMMA KeyParts == ASSUME NEW k \in Key PROVE k[1] \in Event /\ k[2] \in Attempt
BY DEF Key

LEMMA QuarantinedType ==
    ASSUME event \in [Event -> EventRow], NEW e \in Event
    PROVE  /\ Quarantined(e) \in [Event -> EventRow]
           /\ \A f \in Event \ {e} : Quarantined(e)[f] = event[f]
BY DEF Quarantined, EventRow, EventState, Timer

LEMMA LeaveType ==
    ASSUME LocalsOK, NEW w \in Worker, Leave(w)
    PROVE  LocalsOK'
BY DEF LocalsOK, Leave, PC

LEMMA MovedType ==
    ASSUME LocalsOK, NEW w \in Worker, pc[w] # "idle", NEW step \in PC,
           Moved(w, step), UNCHANGED at,
           reply' \in [Worker -> {"none"} \cup ProviderResult \cup Outcome]
    PROVE  LocalsOK'
BY DEF LocalsOK, Moved

LEMMA ReturnType ==
    ASSUME LocalsOK, NEW w \in Worker, pc[w] # "idle", NEW outcome \in Outcome,
           Return(w, outcome)
    PROVE  LocalsOK'
BY DEF LocalsOK, Return, Moved, Replied, PC

LEMMA ReportType ==
    ASSUME LocalsOK, NEW w \in Worker, pc[w] # "idle", NEW k, Report(w, k)
    PROVE  LocalsOK'
<1>1. CASE dispatch[k].state = "reconciliation_required"
  BY <1>1, LeaveType DEF Report
<1>2. CASE dispatch[k].state # "reconciliation_required"
  BY <1>2, ReturnType DEF Report, Outcome
<1> QED BY <1>1, <1>2

-----------------------------------------------------------------------------

LEMMA TypeInit == Init => TypeInv
<1> SUFFICES ASSUME Init PROVE TypeInv
  OBVIOUS
<1>1. LocalsOK
  BY DEF Init, LocalsOK, PC
<1>2. RowsOK
  <2>1. event \in [Event -> EventRow]
    <3>1. 0 \in 0 .. AttemptBound
      BY BoundsAssumption
    <3> QED BY <3>1 DEF Init, EventRow, EventState, Timer
  <2>2. dispatch \in [Key -> DispatchRow]
    BY DEF Init, DispatchRow, NoRow, DispatchState
  <2>3. message \in DeliveryStatus /\ override \in BOOLEAN /\ addressed \in BOOLEAN
        /\ sid \in BOOLEAN /\ latest \in Key \cup {NoKey}
    BY BoundsAssumption DEF Init, DeliveryStatus
  <2> QED BY <2>1, <2>2, <2>3 DEF RowsOK
<1>3. RestOK
  BY BoundsAssumption DEF Init, RestOK
<1> QED BY <1>1, <1>2, <1>3 DEF TypeInv

LEMMA TypeWorker ==
    ASSUME TypeInv, NEW w \in Worker, WorkerStep(w)
    PROVE  TypeInv'
<1> USE DEF TypeInv
<1>a. ASSUME pc[w] # "idle" PROVE at[w] \in Key /\ at[w][1] \in Event /\ at[w][2] \in Attempt
  BY <1>a, KeyParts DEF LocalsOK
<1>1. ASSUME NEW e \in Event, Poll(w, e) PROVE TypeInv'
  <2>1. <<e, event[e].attempts + 1>> \in Key
    BY <1>1, BoundsAssumption DEF Poll, RowsOK, EventRow, Key, Attempt
  <2>2. LocalsOK'
    BY <1>1, <2>1 DEF Poll, LocalsOK, Moved, PC
  <2>3. RowsOK' /\ RestOK'
    BY <1>1 DEF Poll, RowsOK, RestOK, rows, budgets, history
  <2> QED BY <2>2, <2>3
<1>2. CASE Guard(w)
  <2>1. LocalsOK'
    BY <1>2 DEF Guard, LocalsOK, Moved, PC
  <2>2. RowsOK' /\ RestOK'
    BY <1>2 DEF Guard, RowsOK, RestOK, rows, budgets, history
  <2> QED BY <2>1, <2>2
<1>3. CASE QuarantineDeleted(w)
  <2>1. LocalsOK'
    BY <1>3, LeaveType DEF QuarantineDeleted
  <2>2. RowsOK' /\ RestOK'
    BY <1>3, <1>a, QuarantinedType DEF QuarantineDeleted, RowsOK, RestOK, budgets, history
  <2> QED BY <2>1, <2>2
<1>4. CASE ReadDone(w)
  <2>1. LocalsOK'
    BY <1>4, ReturnType DEF ReadDone, Outcome
  <2>2. RowsOK' /\ RestOK'
    BY <1>4 DEF ReadDone, RowsOK, RestOK, rows, budgets, history
  <2> QED BY <2>1, <2>2
<1>5. CASE ReadMissing(w)
  <2>1. LocalsOK'
    BY <1>5 DEF ReadMissing, Sendable, LocalsOK, Moved, PC
  <2>2. RowsOK' /\ RestOK'
    BY <1>5 DEF ReadMissing, RowsOK, RestOK, rows, budgets, history
  <2> QED BY <2>1, <2>2
<1>6. CASE MarkMissing(w)
  <2>1. LocalsOK'
    BY <1>6, ReturnType DEF MarkMissing, Outcome
  <2>2. RowsOK' /\ RestOK'
    BY <1>6 DEF MarkMissing, RowsOK, RestOK, budgets, history, DeliveryStatus
  <2> QED BY <2>1, <2>2
<1>7. CASE ReadRecipient(w)
  <2>1. LocalsOK'
    BY <1>7 DEF ReadRecipient, Sendable, LocalsOK, Moved, PC
  <2>2. RowsOK' /\ RestOK'
    BY <1>7 DEF ReadRecipient, RowsOK, RestOK, budgets, history
  <2> QED BY <2>1, <2>2
<1>8. CASE Request(w)
  <2>1. LocalsOK'
    <3>1. CASE Leave(w)
      BY <3>1, LeaveType
    <3>2. CASE Moved(w, "claim") /\ UNCHANGED <<at, reply>>
      BY <1>8, <3>2, MovedType DEF Request, LocalsOK, PC
    <3> QED BY <1>8, <3>1, <3>2 DEF Request
  <2>2. event' \in [Event -> EventRow]
    BY <1>8, <1>a, QuarantinedType DEF Request, RowsOK
  <2>3. dispatch' \in [Key -> DispatchRow]
    BY <1>8, <1>a DEF Request, RowsOK, DispatchRow, DispatchState
  <2>4. message' \in DeliveryStatus /\ latest' \in Key \cup {NoKey}
    BY <1>8, <1>a DEF Request, RowsOK, DeliveryStatus
  <2>5. RowsOK' /\ RestOK'
    BY <1>8, <2>2, <2>3, <2>4 DEF Request, RowsOK, RestOK, budgets, history
  <2> QED BY <2>1, <2>5
<1>9. CASE ClaimDispatch(w)
  <2>1. LocalsOK'
    BY <1>9 DEF ClaimDispatch, LocalsOK, Moved, PC
  <2>2. event' \in [Event -> EventRow]
    BY <1>9, <1>a DEF ClaimDispatch, RowsOK, EventRow, Timer
  <2>3. dispatch' \in [Key -> DispatchRow]
    BY <1>9, <1>a DEF ClaimDispatch, RowsOK, DispatchRow, DispatchState
  <2>4. RowsOK' /\ RestOK'
    BY <1>9, <2>2, <2>3 DEF ClaimDispatch, RowsOK, RestOK, budgets, history
  <2> QED BY <2>1, <2>4
<1>10. CASE ClaimBlocked(w)
  <2>1. LocalsOK'
    BY <1>10, LeaveType DEF ClaimBlocked
  <2>2. dispatch' \in [Key -> DispatchRow]
    BY <1>10, <1>a DEF ClaimBlocked, RowsOK, DispatchRow, DispatchState
  <2>3. RowsOK' /\ RestOK'
    BY <1>10, <1>a, <2>2, QuarantinedType
    DEF ClaimBlocked, RowsOK, RestOK, budgets, history, DeliveryStatus
  <2> QED BY <2>1, <2>3
<1>11. CASE ClaimInFlight(w)
  <2>1. LocalsOK'
    BY <1>11, LeaveType DEF ClaimInFlight
  <2>2. RowsOK' /\ RestOK'
    BY <1>11 DEF ClaimInFlight, RowsOK, RestOK, rows, budgets, history
  <2> QED BY <2>1, <2>2
<1>12. CASE ClaimReconciles(w)
  <2>1. LocalsOK'
    BY <1>12, LeaveType DEF ClaimReconciles
  <2>2. dispatch' \in [Key -> DispatchRow]
    BY <1>12, <1>a DEF ClaimReconciles, RowsOK, DispatchRow, DispatchState
  <2>3. RowsOK' /\ RestOK'
    BY <1>12, <1>a, <2>2, QuarantinedType
    DEF ClaimReconciles, RowsOK, RestOK, budgets, history, DeliveryStatus
  <2> QED BY <2>1, <2>3
<1>13. CASE ClaimSettled(w)
  <2>1. LocalsOK'
    BY <1>13, ReportType DEF ClaimSettled
  <2>2. RowsOK' /\ RestOK'
    BY <1>13 DEF ClaimSettled, RowsOK, RestOK, rows, budgets, history
  <2> QED BY <2>1, <2>2
<1>14. CASE Send(w)
  <2>1. LocalsOK'
    <3>1. reply' \in [Worker -> {"none"} \cup ProviderResult \cup Outcome]
      BY <1>14 DEF Send, Replied, LocalsOK
    <3> QED BY <1>14, <3>1, MovedType DEF Send, PC
  <2>2. calls' \in [Key -> Nat] /\ delivered' \in SUBSET Key
    BY <1>14, <1>a DEF Send, RestOK
  <2>3. RowsOK' /\ RestOK'
    BY <1>14, <2>2 DEF Send, RowsOK, RestOK, rows, budgets
  <2> QED BY <2>1, <2>3
<1>15. CASE SettleLate(w)
  <2>1. LocalsOK'
    BY <1>15, ReportType DEF SettleLate
  <2>2. RowsOK' /\ RestOK'
    BY <1>15 DEF SettleLate, RowsOK, RestOK, rows, budgets, history
  <2> QED BY <2>1, <2>2
<1>16. CASE SettleResult(w)
  <2>1. LocalsOK'
    <3>1. Leave(w) \/ Return(w, "retry") \/ Return(w, "processed")
      BY <1>16 DEF SettleResult, Settle
    <3> QED BY <1>16, <3>1, LeaveType, ReturnType DEF SettleResult, Outcome
  <2>2. event' \in [Event -> EventRow]
    BY <1>16, <1>a, QuarantinedType DEF SettleResult, Settle, RowsOK
  <2>3. dispatch' \in [Key -> DispatchRow]
    <3>1. LedgerState(reply[w]) \in DispatchState
      BY DEF LedgerState, DispatchState
    <3>2. (LedgerState(reply[w]) = "failed" /\ Retryable(reply[w], at[w][2])) \in BOOLEAN
      BY DEF Retryable
    <3> QED BY <1>16, <1>a, <3>1, <3>2 DEF SettleResult, Settle, RowsOK, DispatchRow
  <2>4. message' \in DeliveryStatus /\ sid' \in BOOLEAN
    BY <1>16 DEF SettleResult, Settle, DeliveryStatus
  <2>5. RowsOK' /\ RestOK'
    BY <1>16, <2>2, <2>3, <2>4 DEF SettleResult, Settle, RowsOK, RestOK, budgets, history
  <2> QED BY <2>1, <2>5
<1>17. CASE Finish(w)
  <2>1. LocalsOK'
    BY <1>17, LeaveType DEF Finish
  <2>2. event' \in [Event -> EventRow]
    <3>1. at[w][2] \in 0 .. AttemptBound
      BY <1>17, <1>a, BoundsAssumption DEF Finish, Attempt
    <3> QED BY <1>17, <1>a, <3>1 DEF Finish, RowsOK, EventRow, EventState, Timer
  <2>3. RowsOK' /\ RestOK'
    BY <1>17, <2>2 DEF Finish, RowsOK, RestOK, budgets, history
  <2> QED BY <2>1, <2>3
<1> QED
  BY <1>1, <1>2, <1>3, <1>4, <1>5, <1>6, <1>7, <1>8, <1>9, <1>10, <1>11, <1>12,
     <1>13, <1>14, <1>15, <1>16, <1>17 DEF WorkerStep

LEMMA TypeInterruption ==
    ASSUME TypeInv, NEW w \in Worker, Interruption(w)
    PROVE  TypeInv'
<1> USE DEF TypeInv
<1>a. ASSUME pc[w] # "idle" PROVE at[w] \in Key /\ at[w][1] \in Event /\ at[w][2] \in Attempt
  BY <1>a, KeyParts DEF LocalsOK
<1>1. CASE GuardFail(w)
  <2>1. LocalsOK'
    BY <1>1, LeaveType DEF GuardFail
  <2>2. event' \in [Event -> EventRow]
    <3>1. at[w][2] \in 0 .. AttemptBound
      BY <1>1, <1>a, BoundsAssumption DEF GuardFail, Attempt
    <3> QED BY <1>1, <1>a, <3>1 DEF GuardFail, RowsOK, EventRow, Timer
  <2>3. skipped' \in SUBSET Key
    BY <1>1, <1>a DEF GuardFail, Skips, RestOK
  <2> QED BY <1>1, <2>1, <2>2, <2>3 DEF GuardFail, RowsOK, RestOK, history
<1>2. CASE ReadDefers(w) \/ ReadThrows(w)
  <2>1. LocalsOK'
    <3>1. Return(w, "retry") \/ Return(w, "processed")
      BY <1>2 DEF ReadDefers, ReadThrows
    <3> QED BY <1>2, <3>1, ReturnType DEF ReadDefers, ReadThrows, Sendable, Outcome
  <2>2. skipped' \in SUBSET Key
    BY <1>2, <1>a DEF ReadDefers, ReadThrows, Sendable, Skips, RestOK
  <2> QED BY <1>2, <2>1, <2>2 DEF ReadDefers, ReadThrows, RowsOK, RestOK, rows, history
<1>3. CASE Abandon(w)
  <2>1. LocalsOK'
    BY <1>3, LeaveType DEF Abandon
  <2>2. faults' \in 0 .. MaxFaults
    BY <1>3, BoundsAssumption DEF Abandon, RestOK
  <2> QED BY <1>3, <2>1, <2>2 DEF Abandon, RowsOK, RestOK, rows, history
<1> QED BY <1>1, <1>2, <1>3 DEF Interruption

LEMMA EnqueueType ==
    ASSUME NEW rest \in [Event -> EventRow], Enqueue(rest)
    PROVE  event' \in [Event -> EventRow]
<1>1. 0 \in 0 .. AttemptBound
  BY BoundsAssumption
<1> QED BY <1>1 DEF Enqueue, Unused, EventRow, EventState, Timer

LEMMA TypeEnvironment ==
    ASSUME TypeInv, Clock \/ Office \/ Callback
    PROVE  TypeInv'
<1> USE DEF TypeInv
<1>1. ASSUME NEW e \in Event, EventDue(e) PROVE TypeInv'
  <2>1. event' \in [Event -> EventRow]
    BY <1>1 DEF EventDue, RowsOK, EventRow, Timer
  <2> QED BY <1>1, <2>1 DEF EventDue, LocalsOK, RowsOK, RestOK, locals, budgets, history
<1>2. ASSUME NEW k \in Key, WindowElapses(k) PROVE TypeInv'
  <2>1. dispatch' \in [Key -> DispatchRow]
    BY <1>2 DEF WindowElapses, RowsOK, DispatchRow
  <2> QED BY <1>2, <2>1 DEF WindowElapses, LocalsOK, RowsOK, RestOK, locals, budgets, history
<1>3. CASE ManualRetry
  <2>1. event' \in [Event -> EventRow]
    <3>1. ASSUME NEW e \in Event PROVE Superseded(e) \in [Event -> EventRow]
      BY <1>3 DEF Superseded, RowsOK, EventRow, EventState, Timer
    <3>2. ASSUME NEW e \in Event, event' = [event EXCEPT ![e].next = "due"]
          PROVE  event' \in [Event -> EventRow]
      BY <3>2 DEF RowsOK, EventRow, Timer
    <3>3. event \in [Event -> EventRow]
      BY DEF RowsOK
    <3> QED BY <1>3, <3>1, <3>2, <3>3, EnqueueType DEF ManualRetry
  <2> QED
    BY <1>3, <2>1
    DEF ManualRetry, LocalsOK, RowsOK, RestOK, locals, budgets, history, DeliveryStatus
<1>4. CASE DeleteContact
  <2>1. event' \in [Event -> EventRow]
    BY <1>4, QuarantinedType DEF DeleteContact, RowsOK
  <2>2. dispatch' \in [Key -> DispatchRow]
    BY <1>4 DEF DeleteContact, RowsOK, DispatchRow, DispatchState
  <2>3. contact' \in [deleted: BOOLEAN, dnc: BOOLEAN]
    BY <1>4 DEF DeleteContact, RestOK
  <2> QED
    BY <1>4, <2>1, <2>2, <2>3 DEF DeleteContact, LocalsOK, RowsOK, RestOK, locals, budgets, history
<1>5. CASE RestoreContact \/ SetDoNotContact
  <2>1. contact' \in [deleted: BOOLEAN, dnc: BOOLEAN]
    BY <1>5 DEF RestoreContact, SetDoNotContact, RestOK
  <2> QED
    BY <1>5, <2>1
    DEF RestoreContact, SetDoNotContact, LocalsOK, RowsOK, RestOK, rows, locals, budgets, history
<1>6. ASSUME NEW s \in DeliveryStatus, CallbackRead(s) PROVE TypeInv'
  BY <1>6 DEF CallbackRead, LocalsOK, RowsOK, RestOK, rows, locals, budgets, history
<1>7. CASE CallbackWrite
  BY <1>7 DEF CallbackWrite, LocalsOK, RowsOK, RestOK, locals, budgets, history
<1> QED BY <1>1, <1>2, <1>3, <1>4, <1>5, <1>6, <1>7 DEF Clock, Office, Callback

LEMMA TypeNext == TypeInv /\ [Next]_vars => TypeInv'
<1> SUFFICES ASSUME TypeInv, [Next]_vars PROVE TypeInv'
  OBVIOUS
<1>1. CASE Next
  BY <1>1, TypeWorker, TypeInterruption, TypeEnvironment DEF Next
<1>2. CASE UNCHANGED vars
  BY <1>2 DEF TypeInv, LocalsOK, RowsOK, RestOK, vars, rows, locals, budgets, history
<1> QED BY <1>1, <1>2

LEMMA TypeAlways == Spec => []TypeInv
BY TypeInit, TypeNext, PTL DEF Spec

\* Every variable keeps its type: no worker carries an attempt that has no
\* place in the ledger, no row a status the schema does not know.
THEOREM TypeCorrect == Spec => []TypeOK
<1>1. TypeInv => TypeOK
  BY DEF TypeInv, LocalsOK, RowsOK, RestOK, TypeOK
<1> QED BY <1>1, TypeAlways, PTL

-----------------------------------------------------------------------------
(***************************************************************************)
(* The ledger's invariant.  CallsOncePerAttempt is not inductive: it says  *)
(* nothing of who may call next.  The strengthening follows the one worker *)
(* that claimed an attempt from its claim to its result: it is the only    *)
(* one between the two (OneCaller), the attempt has not been called before *)
(* the call (SenderOK), and what the worker holds after it is what the     *)
(* provider did (SettlerOK).                                               *)
(***************************************************************************)

Calling == {"send", "settle"}

Untouched(k) == dispatch[k].state \in {"none", "requested"}

SenderOK ==
    \A w \in Worker : pc[w] = "send" =>
        /\ dispatch[at[w]].state \in {"dispatched", "reconciliation_required"}
        /\ calls[at[w]] = 0
        /\ at[w] \notin delivered

SettlerOK ==
    \A w \in Worker : pc[w] = "settle" =>
        /\ ~Untouched(at[w])
        /\ reply[w] \in ProviderResult
        /\ reply[w] = "ok" => at[w] \in delivered
        /\ reply[w] \in {"transient", "permanent"} => at[w] \notin delivered

OneCaller ==
    \A v, w \in Worker :
        pc[v] \in Calling /\ pc[w] \in Calling /\ at[v] = at[w] => v = w

UncalledUntilClaimed == \A k \in Key : Untouched(k) => calls[k] = 0

QuietWhenDeleted ==
    contact.deleted =>
        \A k \in Key : dispatch[k].state \notin {"dispatched", "reconciliation_required"}

LedgerInv ==
    /\ SenderOK
    /\ SettlerOK
    /\ OneCaller
    /\ UncalledUntilClaimed
    /\ CallsOncePerAttempt
    /\ LedgerIsHonest
    /\ QuietWhenDeleted

LEMMA LedgerInit == Init => LedgerInv
<1> SUFFICES ASSUME Init PROVE LedgerInv
  OBVIOUS
<1>1. \A k \in Key : dispatch[k].state = "none" /\ calls[k] = 0
  BY DEF Init, NoRow
<1>2. \A w \in Worker : pc[w] = "idle"
  BY DEF Init
<1>3. delivered = {}
  BY DEF Init
<1> QED
  BY <1>1, <1>2, <1>3
  DEF LedgerInv, SenderOK, SettlerOK, OneCaller, UncalledUntilClaimed, Untouched, Calling,
      CallsOncePerAttempt, LedgerIsHonest, QuietWhenDeleted

\* A worker that leaves the others and the ledger alone and does not come
\* before the provider.
Others(w) == \A v \in Worker \ {w} : pc'[v] = pc[v] /\ at'[v] = at[v] /\ reply'[v] = reply[v]

LEMMA OthersUntouched ==
    ASSUME LocalsOK, NEW w \in Worker
    PROVE  /\ Leave(w) => Others(w) /\ pc'[w] = "idle"
           /\ \A outcome : Return(w, outcome) => Others(w) /\ pc'[w] = "finish"
           /\ \A k : Report(w, k) => Others(w) /\ pc'[w] \in {"idle", "finish"}
           /\ \A step : Moved(w, step) /\ UNCHANGED <<at, reply>>
                           => Others(w) /\ pc'[w] = step /\ at'[w] = at[w]
<1>1. Leave(w) => Others(w) /\ pc'[w] = "idle"
  BY DEF LocalsOK, Leave, Others
<1>2. \A outcome : Return(w, outcome) => Others(w) /\ pc'[w] = "finish"
  BY DEF LocalsOK, Return, Moved, Replied, Others
<1>3. \A k : Report(w, k) => Others(w) /\ pc'[w] \in {"idle", "finish"}
  BY <1>1, <1>2 DEF Report
<1>4. \A step : Moved(w, step) /\ UNCHANGED <<at, reply>>
                   => Others(w) /\ pc'[w] = step /\ at'[w] = at[w]
  BY DEF LocalsOK, Moved, Others
<1> QED BY <1>1, <1>2, <1>3, <1>4

LEMMA LedgerQuiet ==
    ASSUME LedgerInv, NEW w \in Worker, Others(w), pc'[w] \notin Calling,
           UNCHANGED <<contact, dispatch, calls, delivered>>
    PROVE  LedgerInv'
<1>1. SenderOK' /\ SettlerOK'
  BY DEF LedgerInv, SenderOK, SettlerOK, Others, Calling, Untouched
<1>2. OneCaller'
  BY DEF LedgerInv, OneCaller, Others, Calling
<1> QED
  BY <1>1, <1>2
  DEF LedgerInv, UncalledUntilClaimed, Untouched, CallsOncePerAttempt, LedgerIsHonest,
      QuietWhenDeleted

\* Nothing the ledger's invariant looks at changes, except that a deleted
\* contact may be restored.
LEMMA LedgerStill ==
    ASSUME LedgerInv, UNCHANGED <<locals, dispatch, calls, delivered>>,
           contact'.deleted => contact.deleted
    PROVE  LedgerInv'
<1>1. SenderOK' /\ SettlerOK' /\ OneCaller'
  BY DEF LedgerInv, SenderOK, SettlerOK, OneCaller, Calling, Untouched, locals
<1> QED
  BY <1>1
  DEF LedgerInv, UncalledUntilClaimed, Untouched, CallsOncePerAttempt, LedgerIsHonest,
      QuietWhenDeleted

\* The worker moves one attempt k of the ledger on, calls nobody and does not
\* come before the provider.
LEMMA LedgerMoves ==
    ASSUME LedgerInv, LocalsOK, NEW w \in Worker, NEW k \in Key, NEW s \in DispatchState,
           Others(w), pc'[w] \notin Calling,
           \A j \in Key \ {k} : dispatch'[j] = dispatch[j],
           dispatch'[k].state = s,
           UNCHANGED <<contact, calls, delivered>>,
           s \in {"none", "requested"} => Untouched(k),
           s = "succeeded" => k \in delivered,
           k \in delivered => s \in {"dispatched", "succeeded", "reconciliation_required"},
           s \in {"dispatched", "reconciliation_required"} => ~contact.deleted,
           \A v \in Worker \ {w} : pc[v] = "send" /\ at[v] = k =>
               s \in {"dispatched", "reconciliation_required"}
    PROVE  LedgerInv'
<1>1. SenderOK'
  <2> SUFFICES ASSUME NEW v \in Worker, pc'[v] = "send"
               PROVE  /\ dispatch'[at'[v]].state \in {"dispatched", "reconciliation_required"}
                      /\ calls'[at'[v]] = 0
                      /\ at'[v] \notin delivered'
    BY DEF SenderOK
  <2>1. v # w /\ pc[v] = "send" /\ at'[v] = at[v] /\ at[v] \in Key
    BY DEF Others, Calling, LocalsOK
  <2> QED BY <2>1 DEF LedgerInv, SenderOK
<1>2. SettlerOK'
  <2> SUFFICES ASSUME NEW v \in Worker, pc'[v] = "settle"
               PROVE  /\ ~Untouched(at[v])'
                      /\ reply'[v] \in ProviderResult
                      /\ reply'[v] = "ok" => at'[v] \in delivered'
                      /\ reply'[v] \in {"transient", "permanent"} => at'[v] \notin delivered'
    BY DEF SettlerOK
  <2>1. v # w /\ pc[v] = "settle" /\ at'[v] = at[v] /\ reply'[v] = reply[v] /\ at[v] \in Key
    BY DEF Others, Calling, LocalsOK
  <2>2. ~Untouched(at[v])'
    BY <2>1 DEF LedgerInv, SettlerOK, Untouched
  <2> QED BY <2>1, <2>2 DEF LedgerInv, SettlerOK
<1>3. OneCaller'
  BY DEF LedgerInv, OneCaller, Others, Calling
<1>4. UncalledUntilClaimed' /\ CallsOncePerAttempt'
  BY DEF LedgerInv, UncalledUntilClaimed, Untouched, CallsOncePerAttempt
<1>5. LedgerIsHonest' /\ QuietWhenDeleted'
  BY DEF LedgerInv, LedgerIsHonest, QuietWhenDeleted
<1> QED BY <1>1, <1>2, <1>3, <1>4, <1>5 DEF LedgerInv

LEMMA LedgerWorker ==
    ASSUME TypeInv, LedgerInv, NEW w \in Worker, WorkerStep(w)
    PROVE  LedgerInv'
<1> USE DEF TypeInv
<1>a. ASSUME pc[w] # "idle" PROVE at[w] \in Key
  BY <1>a DEF LocalsOK
<1>q. ASSUME Others(w), pc'[w] \notin Calling,
             UNCHANGED <<contact, dispatch, calls, delivered>>
      PROVE  LedgerInv'
  BY <1>q, LedgerQuiet
<1>1. ASSUME NEW e \in Event, Poll(w, e) PROVE LedgerInv'
  <2>1. Others(w) /\ pc'[w] = "guard"
    BY <1>1 DEF Poll, Moved, Others, LocalsOK
  <2> QED BY <1>1, <1>q, <2>1 DEF Poll, Calling, rows, history
<1>2. CASE Guard(w)
  <2>1. Others(w) /\ pc'[w] \in {"quarantine", "read"}
    BY <1>2 DEF Guard, Moved, Others, LocalsOK
  <2> QED BY <1>2, <1>q, <2>1 DEF Guard, Calling, rows, history
<1>3. CASE QuarantineDeleted(w)
  BY <1>3, <1>q, OthersUntouched DEF QuarantineDeleted, Calling, history
<1>4. CASE ReadDone(w)
  BY <1>4, <1>q, OthersUntouched DEF ReadDone, Calling, rows, history
<1>5. CASE ReadMissing(w)
  BY <1>5, <1>q, OthersUntouched DEF ReadMissing, Calling, rows, history
<1>6. CASE MarkMissing(w)
  BY <1>6, <1>q, OthersUntouched DEF MarkMissing, Calling, history
<1>7. CASE ReadRecipient(w)
  BY <1>7, <1>q, OthersUntouched DEF ReadRecipient, Calling, history
<1>8. CASE Request(w)
  <2>1. Others(w) /\ pc'[w] \in {"idle", "claim"}
    BY <1>8, OthersUntouched DEF Request
  <2>2. CASE UNCHANGED dispatch
    BY <1>8, <1>q, <2>1, <2>2 DEF Request, Calling, history
  <2>3. CASE /\ dispatch[at[w]].state = "none"
             /\ dispatch' = [dispatch EXCEPT ![at[w]].state = "requested"]
    <3>1. at[w] \in Key
      BY <1>8, <1>a DEF Request
    <3>2. dispatch'[at[w]].state = "requested" /\ Untouched(at[w])
          /\ \A j \in Key \ {at[w]} : dispatch'[j] = dispatch[j]
      BY <2>3, <3>1 DEF RowsOK, DispatchRow, Untouched
    <3>3. at[w] \notin delivered
      BY <2>3, <3>1 DEF LedgerInv, LedgerIsHonest
    <3>4. \A v \in Worker \ {w} : pc[v] = "send" => at[v] # at[w]
      BY <2>3 DEF LedgerInv, SenderOK
    <3>5. "requested" \in DispatchState
      BY DEF DispatchState
    <3> QED
      BY <1>8, <2>1, <3>1, <3>2, <3>3, <3>4, <3>5, LedgerMoves DEF Request, Calling, history
  <2> QED BY <1>8, <2>2, <2>3 DEF Request
<1>9. CASE ClaimDispatch(w)
  <2> DEFINE k == at[w]
  <2>1. k \in Key /\ dispatch[k].state = "requested" /\ ~contact.deleted
    BY <1>9, <1>a DEF ClaimDispatch, Eligible
  <2>2. calls[k] = 0 /\ k \notin delivered
    BY <2>1 DEF LedgerInv, UncalledUntilClaimed, Untouched, LedgerIsHonest
  <2>3. \A v \in Worker : pc[v] \in Calling => at[v] # k
    BY <2>1 DEF LedgerInv, SenderOK, SettlerOK, Calling, Untouched
  <2>4. Others(w) /\ pc'[w] = "send" /\ at'[w] = k
    BY <1>9, OthersUntouched DEF ClaimDispatch
  <2>5. dispatch'[k].state = "dispatched" /\ \A j \in Key \ {k} : dispatch'[j] = dispatch[j]
    BY <1>9, <2>1 DEF ClaimDispatch, RowsOK, DispatchRow
  <2>6. UNCHANGED <<contact, calls, delivered>>
    BY <1>9 DEF ClaimDispatch, history
  <2> HIDE DEF k
  <2>7. SenderOK' /\ SettlerOK'
    <3> SUFFICES ASSUME NEW v \in Worker, pc'[v] \in Calling, v # w
                 PROVE  /\ pc[v] = pc'[v] /\ at'[v] = at[v] /\ reply'[v] = reply[v]
                        /\ at[v] \in Key \ {k}
      BY <2>1, <2>2, <2>4, <2>5, <2>6 DEF LedgerInv, SenderOK, SettlerOK, Calling, Untouched
    <3> QED BY <2>3, <2>4 DEF Others, Calling, LocalsOK
  <2>8. OneCaller'
    BY <2>3, <2>4 DEF LedgerInv, OneCaller, Others, Calling
  <2>9. UncalledUntilClaimed' /\ CallsOncePerAttempt'
    BY <2>5, <2>6 DEF LedgerInv, UncalledUntilClaimed, Untouched, CallsOncePerAttempt
  <2>10. LedgerIsHonest' /\ QuietWhenDeleted'
    BY <2>1, <2>2, <2>5, <2>6 DEF LedgerInv, LedgerIsHonest, QuietWhenDeleted
  <2> QED BY <2>7, <2>8, <2>9, <2>10 DEF LedgerInv
<1>10. CASE ClaimBlocked(w) \/ ClaimReconciles(w)
  <2> DEFINE k == at[w]
             s == IF ClaimBlocked(w) THEN "failed" ELSE "reconciliation_required"
  <2>1. k \in Key
    BY <1>10, <1>a DEF ClaimBlocked, ClaimReconciles
  <2>2. Others(w) /\ pc'[w] \notin Calling
    BY <1>10, OthersUntouched DEF ClaimBlocked, ClaimReconciles, Calling
  <2>3. dispatch'[k].state = s /\ \A j \in Key \ {k} : dispatch'[j] = dispatch[j]
    BY <1>10, <2>1 DEF ClaimBlocked, ClaimReconciles, RowsOK, DispatchRow
  <2>4. dispatch[k].state = IF ClaimBlocked(w) THEN "requested" ELSE "dispatched"
    BY <1>10 DEF ClaimBlocked, ClaimReconciles
  <2>5. UNCHANGED <<contact, calls, delivered>>
    BY <1>10 DEF ClaimBlocked, ClaimReconciles, history
  <2>6. s \in DispatchState
    BY DEF DispatchState
  <2>7. CASE ClaimBlocked(w)
    <3>1. s = "failed" /\ k \notin delivered
      BY <2>1, <2>4, <2>7 DEF LedgerInv, LedgerIsHonest
    <3>2. \A v \in Worker : pc[v] = "send" => at[v] # k
      BY <2>4, <2>7 DEF LedgerInv, SenderOK
    <3> HIDE DEF k, s
    <3> QED BY <2>1, <2>2, <2>3, <2>5, <2>6, <3>1, <3>2, LedgerMoves
  <2>8. CASE ~ClaimBlocked(w)
    <3>1. s = "reconciliation_required" /\ ~contact.deleted
      BY <2>1, <2>4, <2>8 DEF LedgerInv, QuietWhenDeleted
    <3> HIDE DEF k, s
    <3> QED BY <2>1, <2>2, <2>3, <2>5, <2>6, <3>1, LedgerMoves
  <2> QED BY <2>7, <2>8
<1>11. CASE ClaimInFlight(w)
  BY <1>11, <1>q, OthersUntouched DEF ClaimInFlight, Calling, rows, history
<1>12. CASE ClaimSettled(w)
  BY <1>12, <1>q, OthersUntouched DEF ClaimSettled, Calling, rows, history
<1>13. CASE Send(w)
  <2> DEFINE k == at[w]
  <2>1. k \in Key /\ calls[k] = 0 /\ k \notin delivered
        /\ dispatch[k].state \in {"dispatched", "reconciliation_required"}
    BY <1>13, <1>a DEF Send, LedgerInv, SenderOK
  <2>2. PICK r \in ProviderResult :
            /\ reply' = [reply EXCEPT ![w] = r]
            /\ delivered' \in {delivered, delivered \cup {k}}
            /\ r = "ok" => k \in delivered'
            /\ r \in {"transient", "permanent"} => delivered' = delivered
    BY <1>13 DEF Send, Replied
  <2>3. calls' = [calls EXCEPT ![k] = 1]
    BY <1>13, <2>1 DEF Send, RestOK
  <2>4. UNCHANGED <<contact, dispatch, at>> /\ pc' = [pc EXCEPT ![w] = "settle"]
    BY <1>13 DEF Send, Moved, rows
  <2>5. pc[w] = "send"
    BY <1>13 DEF Send
  <2>6. \A v \in Worker \ {w} : pc[v] \in Calling => at[v] # k
    BY <2>5 DEF LedgerInv, OneCaller, Calling
  <2> HIDE DEF k
  <2>7. SenderOK'
    <3> SUFFICES ASSUME NEW v \in Worker, pc'[v] = "send"
                 PROVE  /\ dispatch'[at'[v]].state \in {"dispatched", "reconciliation_required"}
                        /\ calls'[at'[v]] = 0
                        /\ at'[v] \notin delivered'
      BY DEF SenderOK
    <3>1. v # w /\ pc[v] = "send" /\ at[v] \in Key \ {k}
      BY <2>4, <2>6 DEF LocalsOK, Calling
    <3> QED BY <2>1, <2>2, <2>3, <2>4, <3>1 DEF LedgerInv, SenderOK, RestOK
  <2>8. SettlerOK'
    <3> SUFFICES ASSUME NEW v \in Worker, pc'[v] = "settle"
                 PROVE  /\ ~Untouched(at[v])'
                        /\ reply'[v] \in ProviderResult
                        /\ reply'[v] = "ok" => at'[v] \in delivered'
                        /\ reply'[v] \in {"transient", "permanent"} => at'[v] \notin delivered'
      BY DEF SettlerOK
    <3>1. CASE v = w
      BY <2>1, <2>2, <2>4, <3>1 DEF Untouched, LocalsOK, k
    <3>2. CASE v # w
      <4>1. pc[v] = "settle" /\ at[v] # k /\ reply'[v] = reply[v]
        BY <2>2, <2>4, <2>6, <3>2 DEF LocalsOK, Calling
      <4> QED BY <2>2, <2>4, <4>1 DEF LedgerInv, SettlerOK, Untouched
    <3> QED BY <3>1, <3>2
  <2>9. OneCaller'
    BY <2>4, <2>5 DEF LedgerInv, OneCaller, Calling, LocalsOK
  <2>10. UncalledUntilClaimed' /\ CallsOncePerAttempt'
    BY <2>1, <2>3, <2>4
    DEF LedgerInv, UncalledUntilClaimed, Untouched, CallsOncePerAttempt, RestOK
  <2>11. LedgerIsHonest' /\ QuietWhenDeleted'
    BY <2>1, <2>2, <2>4 DEF LedgerInv, LedgerIsHonest, QuietWhenDeleted
  <2> QED BY <2>7, <2>8, <2>9, <2>10, <2>11 DEF LedgerInv
<1>14. CASE SettleLate(w)
  BY <1>14, <1>q, OthersUntouched DEF SettleLate, Calling, rows, history
<1>15. CASE SettleResult(w)
  <2> DEFINE k == at[w]
             s == LedgerState(reply[w])
  <2>1. k \in Key /\ pc[w] = "settle" /\ dispatch[k].state = "dispatched"
    BY <1>15, <1>a DEF SettleResult
  <2>2. Others(w) /\ pc'[w] \notin Calling
    BY <1>15, OthersUntouched DEF SettleResult, Settle, Calling
  <2>3. dispatch'[k].state = s /\ \A j \in Key \ {k} : dispatch'[j] = dispatch[j]
    BY <1>15, <2>1 DEF SettleResult, Settle, RowsOK, DispatchRow
  <2>4. UNCHANGED <<contact, calls, delivered>>
    BY <1>15 DEF SettleResult, Settle, history
  <2>5. s \in {"succeeded", "failed", "reconciliation_required"}
    BY DEF LedgerState
  <2>6. s = "succeeded" => k \in delivered
    BY <2>1 DEF LedgerState, LedgerInv, SettlerOK
  <2>7. k \in delivered => s # "failed"
    BY <2>1 DEF LedgerState, LedgerInv, SettlerOK, ProviderResult
  <2>8. ~contact.deleted
    BY <2>1 DEF LedgerInv, QuietWhenDeleted
  <2>9. \A v \in Worker \ {w} : pc[v] = "send" => at[v] # k
    BY <2>1 DEF LedgerInv, OneCaller, Calling
  <2>10. s \in DispatchState
    BY <2>5 DEF DispatchState
  <2> HIDE DEF k, s
  <2> QED
    BY <2>1, <2>2, <2>3, <2>4, <2>5, <2>6, <2>7, <2>8, <2>9, <2>10, LedgerMoves
<1>16. CASE Finish(w)
  BY <1>16, <1>q, OthersUntouched DEF Finish, Calling, history
<1> QED
  BY <1>1, <1>2, <1>3, <1>4, <1>5, <1>6, <1>7, <1>8, <1>9, <1>10, <1>11, <1>12,
     <1>13, <1>14, <1>15, <1>16 DEF WorkerStep

LEMMA LedgerInterruption ==
    ASSUME TypeInv, LedgerInv, NEW w \in Worker, Interruption(w)
    PROVE  LedgerInv'
<1>1. Others(w) /\ pc'[w] \notin Calling
  BY OthersUntouched
  DEF TypeInv, Interruption, GuardFail, ReadDefers, ReadThrows, Abandon, Calling
<1>2. UNCHANGED <<contact, dispatch, calls, delivered>>
  BY DEF Interruption, GuardFail, ReadDefers, ReadThrows, Abandon, rows, history
<1> QED BY <1>1, <1>2, LedgerQuiet

LEMMA LedgerEnvironment ==
    ASSUME TypeInv, LedgerInv, Clock \/ Office \/ Callback
    PROVE  LedgerInv'
<1>1. CASE /\ UNCHANGED <<locals, dispatch, calls, delivered>>
           /\ contact'.deleted => contact.deleted
  BY <1>1, LedgerStill
<1>2. ASSUME NEW e \in Event, EventDue(e) PROVE LedgerInv'
  BY <1>1, <1>2 DEF EventDue, history
<1>3. ASSUME NEW k \in Key, WindowElapses(k) PROVE LedgerInv'
  <2>1. \A j \in Key : dispatch'[j].state = dispatch[j].state
    BY <1>3 DEF WindowElapses, TypeInv, RowsOK, DispatchRow
  <2>2. UNCHANGED <<contact, locals, calls, delivered>>
    BY <1>3 DEF WindowElapses, history
  <2>3. \A w \in Worker : pc[w] \in Calling => at[w] \in Key
    BY DEF TypeInv, LocalsOK, Calling
  <2>4. SenderOK' /\ SettlerOK' /\ OneCaller'
    BY <2>1, <2>2, <2>3 DEF LedgerInv, SenderOK, SettlerOK, OneCaller, Calling, Untouched, locals
  <2> QED
    BY <2>1, <2>2, <2>4
    DEF LedgerInv, UncalledUntilClaimed, Untouched, CallsOncePerAttempt, LedgerIsHonest,
        QuietWhenDeleted
<1>4. CASE ManualRetry
  BY <1>1, <1>4 DEF ManualRetry, history
<1>5. CASE DeleteContact
  <2>1. \A k \in Key :
            /\ dispatch[k].state \notin {"dispatched", "reconciliation_required"}
            /\ dispatch'[k].state = IF dispatch[k].state = "requested" THEN "failed"
                                    ELSE dispatch[k].state
    BY <1>5 DEF DeleteContact, UnresolvedAttempt, TypeInv, RowsOK, DispatchRow
  <2>2. UNCHANGED <<locals, calls, delivered>>
    BY <1>5 DEF DeleteContact, history
  <2>3. \A w \in Worker : pc[w] \in Calling => at[w] \in Key
    BY DEF TypeInv, LocalsOK, Calling
  <2>4. \A w \in Worker : pc[w] # "send"
    BY <2>1, <2>3 DEF LedgerInv, SenderOK, Calling
  <2>5. SenderOK' /\ SettlerOK' /\ OneCaller'
    BY <2>1, <2>2, <2>3, <2>4
    DEF LedgerInv, SenderOK, SettlerOK, OneCaller, Calling, Untouched, locals
  <2> QED
    BY <2>1, <2>2, <2>5
    DEF LedgerInv, UncalledUntilClaimed, Untouched, CallsOncePerAttempt, LedgerIsHonest,
        QuietWhenDeleted
<1>6. CASE RestoreContact \/ SetDoNotContact
  <2>1. contact'.deleted => contact.deleted
    BY <1>6 DEF RestoreContact, SetDoNotContact, TypeInv, RestOK
  <2> QED BY <1>1, <1>6, <2>1 DEF RestoreContact, SetDoNotContact, rows, history
<1>7. ASSUME NEW s \in DeliveryStatus, CallbackRead(s) PROVE LedgerInv'
  BY <1>1, <1>7 DEF CallbackRead, rows, history
<1>8. CASE CallbackWrite
  BY <1>1, <1>8 DEF CallbackWrite, history
<1> QED
  BY <1>2, <1>3, <1>4, <1>5, <1>6, <1>7, <1>8 DEF Clock, Office, Callback

LEMMA LedgerNext == TypeInv /\ LedgerInv /\ [Next]_vars => LedgerInv'
<1> SUFFICES ASSUME TypeInv, LedgerInv, [Next]_vars PROVE LedgerInv'
  OBVIOUS
<1>1. CASE Next
  BY <1>1, LedgerWorker, LedgerInterruption, LedgerEnvironment DEF Next
<1>2. CASE UNCHANGED vars
  BY <1>2, LedgerStill DEF vars, rows, history
<1> QED BY <1>1, <1>2

LEMMA LedgerAlways == Spec => []LedgerInv
BY TypeAlways, LedgerInit, LedgerNext, PTL DEF Spec

\* However many workers overlap on one outbox row, die or come late, the
\* provider is called at most once for each attempt row (the claim of
\* claimMessageDispatch is exclusive).
THEOREM OneCallPerAttempt == Spec => []CallsOncePerAttempt
BY LedgerAlways, PTL DEF LedgerInv

\* What external_message_dispatches records as succeeded was accepted, and
\* what was accepted is never recorded as a definite failure.
THEOREM HonestLedger == Spec => []LedgerIsHonest
BY LedgerAlways, PTL DEF LedgerInv

\* From the DELETE of a contact to its restoration no worker is about to call
\* the provider for it, and no attempt has an open outcome.
THEOREM DeletedIsQuiet == Spec => []NoEffectAfterDeletion
<1>1. TypeInv /\ LedgerInv => NoEffectAfterDeletion
  BY DEF TypeInv, LocalsOK, LedgerInv, SenderOK, QuietWhenDeleted, NoEffectAfterDeletion
<1> QED BY <1>1, TypeAlways, LedgerAlways, PTL

-----------------------------------------------------------------------------
(* The ledger's rows only advance, and what the inbox shows rests on them.   *)

Advance(k) ==
    /\ Settled(k) => dispatch'[k] = dispatch[k]
    /\ dispatch[k].state = "dispatched" => dispatch'[k].state \notin {"none", "requested"}
    /\ dispatch[k].state = "requested" => dispatch'[k].state # "none"

LEMMA AdvanceNext == TypeInv /\ [Next]_vars => \A k \in Key : Advance(k)
<1> SUFFICES ASSUME TypeInv, [Next]_vars, NEW k \in Key PROVE Advance(k)
  OBVIOUS
<1>1. CASE UNCHANGED dispatch
  BY <1>1 DEF Advance, Settled
<1>2. ASSUME NEW w \in Worker, WorkerStep(w) PROVE Advance(k)
  <2>1. CASE Request(w)
    BY <2>1 DEF Request, Advance, Settled, TypeInv, RowsOK, DispatchRow
  <2>2. CASE ClaimDispatch(w) \/ ClaimBlocked(w) \/ ClaimReconciles(w)
    BY <2>2
    DEF ClaimDispatch, ClaimBlocked, ClaimReconciles, Advance, Settled, TypeInv, RowsOK,
        DispatchRow
  <2>3. CASE SettleResult(w)
    <3>1. LedgerState(reply[w]) \in {"succeeded", "failed", "reconciliation_required"}
      BY DEF LedgerState
    <3> QED
      BY <2>3, <3>1 DEF SettleResult, Settle, Advance, Settled, TypeInv, RowsOK, DispatchRow
  <2> QED
    BY <1>1, <1>2, <2>1, <2>2, <2>3
    DEF WorkerStep, Poll, Guard, QuarantineDeleted, ReadDone, ReadMissing, MarkMissing,
        ReadRecipient, ClaimInFlight, ClaimSettled, Send, SettleLate, Finish, rows
<1>3. ASSUME NEW w \in Worker, Interruption(w) PROVE Advance(k)
  BY <1>1, <1>3 DEF Interruption, GuardFail, ReadDefers, ReadThrows, Abandon, rows
<1>4. CASE Clock
  BY <1>1, <1>4
  DEF Clock, EventDue, WindowElapses, InFlight, Advance, Settled, TypeInv, RowsOK, DispatchRow
<1>5. CASE DeleteContact
  BY <1>5 DEF DeleteContact, Advance, Settled, TypeInv, RowsOK, DispatchRow
<1>6. CASE ManualRetry \/ RestoreContact \/ SetDoNotContact \/ Callback
  BY <1>1, <1>6
  DEF ManualRetry, RestoreContact, SetDoNotContact, Callback, CallbackRead, CallbackWrite, rows
<1> QED
  BY <1>1, <1>2, <1>3, <1>4, <1>5, <1>6 DEF Next, Office, vars, rows

\* A settled attempt is immutable evidence and no attempt row goes backwards,
\* in every behaviour of every number of workers.
THEOREM LedgerOnlyAdvances == Spec => AttemptsOnlyAdvance
<1>1. TypeInv /\ [Next]_vars =>
          [\A k \in Key :
              /\ Settled(k) => dispatch'[k] = dispatch[k]
              /\ dispatch[k].state = "dispatched" => dispatch'[k].state \notin {"none", "requested"}
              /\ dispatch[k].state = "requested" => dispatch'[k].state # "none"]_vars
  BY AdvanceNext DEF Advance
<1> QED BY <1>1, TypeAlways, PTL DEF Spec, AttemptsOnlyAdvance

Succeeded == \E k \in Key : dispatch[k].state = "succeeded"

\* sid is part of the strengthening: a callback finds its message by the
\* provider id that only a successful settlement writes.
SentInv == message \in {"sent", "delivered"} \/ callback # "none" \/ sid => Succeeded

LEMMA SucceededStays == TypeInv /\ [Next]_vars /\ Succeeded => Succeeded'
<1> SUFFICES ASSUME TypeInv, [Next]_vars, Succeeded PROVE Succeeded'
  OBVIOUS
<1>1. PICK k \in Key : dispatch[k].state = "succeeded"
  BY DEF Succeeded
<1>2. dispatch'[k] = dispatch[k]
  BY <1>1, AdvanceNext DEF Advance, Settled
<1> QED BY <1>1, <1>2 DEF Succeeded

LEMMA SentNext == TypeInv /\ SentInv /\ [Next]_vars => SentInv'
<1> SUFFICES ASSUME TypeInv, SentInv, [Next]_vars PROVE SentInv'
  OBVIOUS
<1> USE DEF SentInv
<1>1. CASE Succeeded
  BY <1>1, SucceededStays
<1>2. CASE ~Succeeded
  <2>1. message \notin {"sent", "delivered"} /\ callback = "none" /\ sid = FALSE
    BY <1>2 DEF TypeInv, RowsOK
  <2>2. CASE UNCHANGED <<callback, sid>> /\ message' \in {message, "queued", "failed"}
    BY <2>1, <2>2
  <2>3. ASSUME NEW w \in Worker, WorkerStep(w) PROVE SentInv'
    <3>1. CASE SettleResult(w)
      <4>1. at[w] \in Key
        BY <3>1 DEF SettleResult, TypeInv, LocalsOK
      <4>2. CASE LedgerState(reply[w]) = "succeeded"
        BY <3>1, <4>1, <4>2 DEF SettleResult, Settle, Succeeded, TypeInv, RowsOK, DispatchRow
      <4>3. CASE LedgerState(reply[w]) # "succeeded"
        BY <2>1, <3>1, <4>3 DEF SettleResult, Settle
      <4> QED BY <4>2, <4>3
    <3>2. CASE Request(w)
      BY <2>2, <3>2 DEF Request
    <3> QED
      BY <2>2, <2>3, <3>1, <3>2
      DEF WorkerStep, Poll, Guard, QuarantineDeleted, ReadDone, ReadMissing, MarkMissing,
          ReadRecipient, ClaimDispatch, ClaimBlocked, ClaimReconciles, ClaimInFlight,
          ClaimSettled, Send, SettleLate, Finish, rows
  <2>4. ASSUME NEW w \in Worker, Interruption(w) PROVE SentInv'
    BY <2>2, <2>4 DEF Interruption, GuardFail, ReadDefers, ReadThrows, Abandon, rows
  <2>5. CASE Clock
    BY <2>2, <2>5 DEF Clock, EventDue, WindowElapses
  <2>6. CASE ManualRetry
    BY <2>1, <2>6 DEF ManualRetry
  <2>7. CASE DeleteContact \/ RestoreContact \/ SetDoNotContact
    BY <2>2, <2>7 DEF DeleteContact, RestoreContact, SetDoNotContact, rows
  <2>8. CASE Callback
    BY <2>1, <2>8 DEF Callback, CallbackRead, CallbackWrite
  <2> QED
    BY <2>2, <2>3, <2>4, <2>5, <2>6, <2>7, <2>8 DEF Next, Office, vars, rows
<1> QED BY <1>1, <1>2

\* Whatever the inbox shows as sent or delivered, and whatever a callback is
\* about to write, an attempt in the ledger succeeded.
THEOREM SentMeansSucceeded == Spec => []SentIsSucceeded
<1>1. Init => SentInv
  BY DEF Init, SentInv
<1>2. SentInv => SentIsSucceeded
  BY DEF SentInv, Succeeded, SentIsSucceeded
<1> QED BY <1>1, <1>2, SentNext, TypeAlways, PTL DEF Spec
=============================================================================
