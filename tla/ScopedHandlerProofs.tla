------------------------- MODULE ScopedHandlerProofs -------------------------
(***************************************************************************)
(* Proofs about ScopedHandler for every number of workers, requests, rows, *)
(* connections, deaths, losses and unanswered calls.  The argument has one *)
(* root: whoever runs a handler holds the contact's lock (LockInv); what a *)
(* handler and the routes may then assume of the rows and of the draft     *)
(* follows.                                                                *)
(***************************************************************************)
EXTENDS ScopedHandler, FiniteSetTheorems, TLAPS

LEMMA Actors ==
    /\ Nobody \notin Worker /\ Nobody \notin Sender /\ Nobody \notin Office
    /\ Worker \subseteq Process /\ Sender \subseteq Process /\ Office \subseteq Process
    /\ \A w \in Worker, s \in Sender, o \in Office : w # s /\ w # o /\ s # o
BY ProcessAssumption DEF Process

Handling == {"handle", "note", "inner", "finalize"}

LockInv ==
    /\ pc \in [Process -> PC]
    /\ row \in [Event -> RowState]
    /\ ev \in [Worker -> Event \cup {"none"}]
    /\ outcome \in [Worker -> {"processed", "retry"}]
    /\ \A w \in Worker : pc[w] # "idle" => ev[w] \in Event /\ row[ev[w]] # "absent"
    /\ \A w \in Worker : pc[w] \notin {"message", "contact"}
    /\ \A w \in Worker : pc[w] \in Handling \cup {"recheck"} => contactLock = w
    /\ \A w \in Worker : pc[w] \in Handling => ~deleted
    /\ NothingQueuedWhileDeleted

LEMMA SettledType ==
    ASSUME row \in [Event -> RowState], NEW e \in Event, NEW s \in RowState
    PROVE  /\ Settled(e, s) \in [Event -> RowState]
           /\ \A f \in Event : f # e => Settled(e, s)[f] = row[f]
           /\ Settled(e, s)[e] = IF Pending(e) THEN s ELSE row[e]
BY DEF Settled

LEMMA LockInit == Init => LockInv
BY Actors DEF Init, LockInv, PC, RowState, Handling, NothingQueuedWhileDeleted

LEMMA LockWorker ==
    ASSUME LockInv, NEW w \in Worker, WorkerStep(w) \/ Failure(w)
    PROVE  LockInv'
<1> USE DEF LockInv
<1>a. w \in Process /\ Nobody \notin Worker /\ Worker \subseteq Process
  BY Actors
<1>p. ASSUME NEW step \in PC, To(w, step)
      PROVE  pc' \in [Process -> PC] /\ pc'[w] = step
             /\ \A v \in Worker : v # w => pc'[v] = pc[v]
  BY <1>a, <1>p DEF To
<1>d. ASSUME Done(w)
      PROVE  /\ pc' \in [Process -> PC] /\ pc'[w] = "idle"
             /\ ev' \in [Worker -> Event \cup {"none"}]
             /\ outcome' \in [Worker -> {"processed", "retry"}]
             /\ \A v \in Worker : v # w => pc'[v] = pc[v] /\ ev'[v] = ev[v]
  BY <1>d, <1>p DEF Done, PC
<1>r. ASSUME pc[w] # "idle", NEW t \in RowState, t # "absent", row' = Settled(ev[w], t)
      PROVE  /\ row' \in [Event -> RowState]
             /\ \A e \in Event : row[e] # "absent" => row'[e] # "absent"
  BY <1>r, SettledType
<1>q. ASSUME UNCHANGED <<deleted, sendRow>> PROVE NothingQueuedWhileDeleted'
  BY <1>q DEF NothingQueuedWhileDeleted
<1>l. ASSUME Release(w)
      PROVE  \A v \in Worker : v # w /\ contactLock = v => contactLock' = v
  BY <1>l DEF Release
<1>1. ASSUME NEW e \in Event, Select(w, e) PROVE LockInv'
  BY <1>1, <1>p, <1>q DEF Select, RowState, PC, Handling, held, data
<1>2. CASE Resolve(w)
  BY <1>2, <1>p, <1>q DEF Resolve, PC, Handling, held, data
<1>3. CASE Quarantine(w)
  BY <1>3, <1>d, <1>q, <1>r DEF Quarantine, Handling, held, RowState
<1>4. CASE Begin(w)
  BY <1>4, <1>p, <1>q DEF Begin, PC, Handling, data
<1>5. CASE Lock(w)
  BY <1>a, <1>5, <1>p, <1>q DEF Lock, PC, Handling, data
<1>6. CASE Recheck(w)
  <2>1. CASE To(w, "handle") /\ ~deleted /\ UNCHANGED <<held, ev, outcome>>
    BY <1>6, <1>p, <1>q, <2>1 DEF Recheck, PC, Handling, held, data
  <2>2. CASE Done(w) /\ Release(w)
    BY <1>6, <1>d, <1>q, <1>l, <2>2 DEF Recheck, Handling, data
  <2>3. CASE To(w, "quarantine") /\ Release(w) /\ UNCHANGED <<ev, outcome>>
    BY <1>6, <1>p, <1>q, <1>l, <2>3 DEF Recheck, PC, Handling, data
  <2> QED BY <1>6, <2>1, <2>2, <2>3 DEF Recheck
<1>7. CASE \/ HandleNothing(w) \/ HandleOnce(w)
           \/ HandleText(w) \/ HandleUnanswered(w) \/ Note(w)
  <2>1. /\ pc[w] \in {"handle", "note"} /\ pc' \in [Process -> PC] /\ pc'[w] \in {"note", "finalize"}
        /\ \A v \in Worker : v # w => pc'[v] = pc[v]
    BY <1>7, <1>p DEF HandleNothing, HandleOnce, HandleText, HandleUnanswered, Note, PC
  <2>2. UNCHANGED <<deleted, row, sendRow, ev, contactLock>>
    BY <1>7 DEF HandleNothing, HandleOnce, HandleText, HandleUnanswered, Note, data, held
  <2>3. outcome' \in [Worker -> {"processed", "retry"}]
    BY <1>7 DEF HandleNothing, HandleOnce, HandleText, HandleUnanswered, Note
  <2> QED BY <1>q, <2>1, <2>2, <2>3 DEF Handling
<1>8. CASE AutosendBegin(w)
  BY <1>8, <1>p, <1>q DEF AutosendBegin, PC, Handling, data
<1>9. CASE AutosendCommit(w)
  BY <1>9, <1>p DEF AutosendCommit, PC, Handling, NothingQueuedWhileDeleted
<1>10. CASE Finalize(w)
  <2>1. /\ row' \in [Event -> RowState]
        /\ \A e \in Event : row[e] # "absent" => row'[e] # "absent"
    BY <1>10 DEF Finalize, Final, RowState
  <2> QED BY <1>10, <1>d, <1>l, <1>q, <2>1 DEF Finalize, Handling
<1>11. CASE FinalizeTooLate(w) \/ FinalizeFails(w) \/ CommitFails(w)
  BY <1>11, <1>p, <1>q, <1>l DEF FinalizeTooLate, FinalizeFails, CommitFails, PC, Handling, data
<1>12. CASE ReconcileBegin(w)
  BY <1>12, <1>p, <1>q DEF ReconcileBegin, PC, Handling, data
<1>13. CASE Reconcile(w)
  BY <1>13, <1>d, <1>q, <1>r, <1>l DEF Reconcile, Handling, RowState
<1>14. CASE SettleOutside(w) \/ RecoveryFails(w)
  BY <1>14, <1>d, <1>q, <1>r, <1>l DEF SettleOutside, RecoveryFails, Handling, held, data, RowState
<1>15. CASE GuardFails(w)
  BY <1>15, <1>d, <1>q, <1>r, <1>l DEF GuardFails, Handling, RowState
<1> QED
  BY <1>1, <1>2, <1>3, <1>4, <1>5, <1>6, <1>7, <1>8, <1>9, <1>10, <1>11, <1>12,
     <1>13, <1>14, <1>15 DEF WorkerStep, Failure

LEMMA LockRoutes ==
    ASSUME LockInv, NEW p \in Sender \cup Office,
           \/ p \in Sender /\ SenderStep(p)
           \/ p \in Office /\ OfficeStep(p)
    PROVE  LockInv'
<1> USE DEF LockInv
<1>a. p \in Process /\ Worker \subseteq Process /\ Nobody \notin Worker /\ \A v \in Worker : v # p
  BY ProcessAssumption DEF Process
<1>p. ASSUME NEW step \in PC, To(p, step)
      PROVE  pc' \in [Process -> PC] /\ \A v \in Worker : pc'[v] = pc[v]
  BY <1>a, <1>p DEF To
<1>s. ASSUME UNCHANGED data PROVE row' \in [Event -> RowState] /\ NothingQueuedWhileDeleted'
  BY <1>s DEF data, NothingQueuedWhileDeleted
<1>l. ASSUME Release(p)
      PROVE  \A v \in Worker : contactLock = v => contactLock' = v
  BY <1>a, <1>l DEF Release
<1>1. CASE SendBegin(p) \/ OfficeBegin(p)
  BY <1>1, <1>p, <1>s DEF SendBegin, OfficeBegin, Open, PC, data
<1>2. CASE SendLock(p)
  BY <1>2, <1>p, <1>s, <1>l DEF SendLock, PC, data
<1>3. CASE SendCommit(p)
  BY <1>3, <1>p, <1>l DEF SendCommit, PC, NothingQueuedWhileDeleted
<1>4. CASE OfficeCommit(p)
  <2>1. \A v \in Worker : pc[v] \notin Handling \cup {"recheck"}
    BY <1>a, <1>4 DEF OfficeCommit
  <2>2. /\ row' \in [Event -> RowState]
        /\ \A e \in Event : row[e] # "absent" => row'[e] # "absent"
    BY <1>4 DEF OfficeCommit, RowState
  <2>3. NothingQueuedWhileDeleted'
    BY <1>4 DEF OfficeCommit, NothingQueuedWhileDeleted
  <2> QED BY <1>4, <1>p, <2>1, <2>2, <2>3 DEF OfficeCommit, PC
<1> QED BY <1>1, <1>2, <1>3, <1>4 DEF SenderStep, OfficeStep

LEMMA LockNext == LockInv /\ [Next]_vars => LockInv'
<1> SUFFICES ASSUME LockInv, [Next]_vars PROVE LockInv'
  OBVIOUS
<1> USE DEF LockInv
<1>1. ASSUME NEW w \in Worker, WorkerStep(w) \/ Failure(w) PROVE LockInv'
  BY <1>1, LockWorker
<1>2. ASSUME NEW h \in Program, Die(h) PROVE LockInv'
  <2> DEFINE dead == {p \in Process : Home[p] = h}
  <2>1. Worker \subseteq Process
    BY Actors
  <2>2. /\ pc' \in [Process -> PC] /\ ev' \in [Worker -> Event \cup {"none"}]
        /\ outcome' \in [Worker -> {"processed", "retry"}]
    BY <1>2 DEF Die, PC
  <2>3. \A w \in Worker : w \in dead => pc'[w] = "idle"
    BY <1>2, <2>1 DEF Die
  <2>4. \A w \in Worker : w \notin dead =>
           pc'[w] = pc[w] /\ ev'[w] = ev[w] /\ (contactLock = w => contactLock' = w)
    BY <1>2, <2>1 DEF Die
  <2>5. UNCHANGED data
    BY <1>2 DEF Die
  <2> HIDE DEF dead
  <2> QED BY <2>2, <2>3, <2>4, <2>5 DEF data, Handling, NothingQueuedWhileDeleted
<1>3. ASSUME NEW e \in Event, Enqueue(e) \/ Due(e) PROVE LockInv'
  <2>1. row' \in [Event -> RowState] /\ NothingQueuedWhileDeleted'
        /\ \A f \in Event : row[f] # "absent" => row'[f] # "absent"
    BY <1>3 DEF Enqueue, Due, RowState, NothingQueuedWhileDeleted
  <2> QED BY <1>3, <2>1 DEF Enqueue, Due, locals, held
<1>4. ASSUME NEW s \in Sender, SenderStep(s) PROVE LockInv'
  BY <1>4, LockRoutes
<1>5. ASSUME NEW o \in Office, OfficeStep(o) PROVE LockInv'
  BY <1>5, LockRoutes
<1>6. CASE Deliver
  BY <1>6 DEF Deliver, locals, held, NothingQueuedWhileDeleted
<1>7. CASE UNCHANGED vars
  BY <1>7 DEF vars, data, locals, held, NothingQueuedWhileDeleted
<1> QED BY <1>1, <1>2, <1>3, <1>4, <1>5, <1>6, <1>7 DEF Next

LEMMA LockAlways == Spec => []LockInv
BY LockInit, LockNext, PTL DEF Spec

\* While a contact is in recovery no message of it waits to be sent: the
\* deletion quarantines what waits, and whoever queues checks under the lock.
THEOREM DeletedStaysQuiet == Spec => []NothingQueuedWhileDeleted
BY LockAlways, PTL DEF LockInv

\* A handler takes effect only for a contact that is active when it begins
\* and when it ends: the lock orders every handler before the deletion.
THEOREM EffectsBeforeDeletion == Spec => NoEffectWhileDeleted
<1>1. LockInv /\ [Next]_vars => [effects' # effects => ~deleted /\ ~deleted']_vars
  <2> SUFFICES ASSUME LockInv, Next, effects' # effects PROVE ~deleted /\ ~deleted'
    OBVIOUS
  <2>1. PICK w \in Worker : \/ HandleOnce(w) \/ HandleText(w) \/ HandleUnanswered(w)
                            \/ AutosendCommit(w)
    BY DEF Next, WorkerStep, Failure, SenderStep, OfficeStep, Select, Resolve, Quarantine,
           Begin, Lock, Recheck, HandleNothing, Note, AutosendBegin, Finalize, FinalizeTooLate,
           FinalizeFails, CommitFails, RecoveryFails, ReconcileBegin, Reconcile,
           SettleOutside, GuardFails,
           Die, Enqueue, Due, SendBegin, SendLock, SendCommit, OfficeBegin, OfficeCommit, Open,
           Deliver, history
  <2> QED BY <2>1 DEF HandleOnce, HandleText, HandleUnanswered, AutosendCommit, LockInv, Handling, data
<1> QED BY <1>1, LockAlways, PTL DEF Spec, NoEffectWhileDeleted

\* What is processed or quarantined stays so: whoever writes a row's outcome
\* requires that it waits still, and a deletion or a clock asks the same.
THEOREM RowsStaySettled == Spec => SettledForGood
<1>1. LockInv /\ [Next]_vars =>
        [\A e \in Event : row[e] \in {"processed", "quarantined"} => row'[e] = row[e]]_vars
  <2> SUFFICES ASSUME LockInv, Next, NEW e \in Event, row[e] \in {"processed", "quarantined"}
               PROVE  row'[e] = row[e]
    OBVIOUS
  <2>t. row \in [Event -> RowState] /\ ~Pending(e)
    BY DEF LockInv, Pending
  <2>s. ASSUME NEW w \in Worker, pc[w] # "idle", NEW t \in RowState, row' = Settled(ev[w], t)
        PROVE  row'[e] = row[e]
    BY <2>s, <2>t, SettledType DEF LockInv
  <2>1. ASSUME NEW w \in Worker, Quarantine(w) \/ Reconcile(w) \/ SettleOutside(w) \/ GuardFails(w)
        PROVE  row'[e] = row[e]
    BY <2>1, <2>s DEF Quarantine, Reconcile, SettleOutside, GuardFails, RowState
  <2>2. ASSUME NEW w \in Worker, Finalize(w) PROVE row'[e] = row[e]
    BY <2>2, <2>t DEF Finalize, Pending
  <2>3. ASSUME NEW f \in Event, Enqueue(f) \/ Due(f) PROVE row'[e] = row[e]
    BY <2>3, <2>t DEF Enqueue, Due
  <2>4. ASSUME NEW o \in Office, OfficeCommit(o) PROVE row'[e] = row[e]
    BY <2>4, <2>t DEF OfficeCommit
  <2>5. CASE UNCHANGED row
    BY <2>5
  <2> QED
    BY <2>1, <2>2, <2>3, <2>4, <2>5
    DEF Next, WorkerStep, Failure, SenderStep, OfficeStep, Select, Resolve, Begin, Lock,
        Recheck, HandleNothing, HandleOnce, HandleText, HandleUnanswered, Note, AutosendBegin,
        AutosendCommit, FinalizeTooLate, FinalizeFails, CommitFails, RecoveryFails,
        ReconcileBegin, Die, SendBegin, SendLock, SendCommit,
        OfficeBegin, Open, Deliver, data
<1> QED BY <1>1, LockAlways, PTL DEF Spec, SettledForGood

-----------------------------------------------------------------------------
(***************************************************************************)
(* Effects.  Under the lock nobody else takes effect, so what the recheck  *)
(* found stays true until the handler has finished: until it takes effect  *)
(* its row has no effect that a death, a loss or an unanswered call does   *)
(* not account for.                                                        *)
(***************************************************************************)

Excused(e)   == effects[e] <= deaths + losses + doubts[e]
Unsettled(e) == row[e] \in {"absent", "due", "waiting"}

\* The handler has taken effect, or knows that it will not.
Ending == {"note", "finalize"}

EffectInv ==
    /\ effects \in [Event -> Nat] /\ doubts \in [Event -> Nat]
    /\ deaths \in Nat /\ losses \in Nat
    /\ \A w \in Worker : pc[w] \in {"handle", "inner"} => Excused(ev[w])
    /\ \A w \in Worker : pc[w] \in Ending /\ outcome[w] = "retry" => Excused(ev[w])
    /\ \A e \in Event :
          Unsettled(e) /\ (\A w \in Worker : pc[w] \in Ending => ev[w] # e) => Excused(e)
    /\ EffectOnce

\* A worker that leaves the effects alone and is not inside a handler after
\* its step, while no settled row is unsettled.
LEMMA EffectQuiet ==
    ASSUME LockInv, EffectInv, NEW w \in Worker, pc[w] \notin Ending,
           pc'[w] \notin Handling,
           \A v \in Worker \ {w} : pc'[v] = pc[v] /\ ev'[v] = ev[v] /\ outcome'[v] = outcome[v],
           UNCHANGED <<effects, deaths, doubts>>, losses' \in {losses, losses + 1},
           \A e \in Event : Unsettled(e)' => Unsettled(e)
    PROVE  EffectInv'
<1> USE DEF EffectInv, Ending
<1>1. losses' \in Nat /\ losses' >= losses
  OBVIOUS
<1>2. \A e \in Event : Excused(e) => Excused(e)'
  BY <1>1 DEF Excused
<1>3. EffectOnce'
  BY <1>1 DEF EffectOnce
<1>4. \A v \in Worker : pc'[v] \in Handling => v # w /\ pc[v] = pc'[v]
  OBVIOUS
<1>5. \A v \in Worker : pc[v] \in Handling => ev[v] \in Event
  BY DEF LockInv, Handling
<1>6. \A v \in Worker : pc'[v] \in {"handle", "inner"} => Excused(ev[v])'
  BY <1>2, <1>4, <1>5 DEF Handling
<1>7. \A v \in Worker : pc'[v] \in Ending /\ outcome'[v] = "retry" => Excused(ev[v])'
  BY <1>2, <1>4, <1>5 DEF Handling
<1>8. ASSUME NEW e \in Event, Unsettled(e)', \A v \in Worker : pc'[v] \in Ending => ev'[v] # e
      PROVE  Excused(e)'
  BY <1>2, <1>8
<1> QED BY <1>1, <1>3, <1>6, <1>7, <1>8

LEMMA EffectWorker ==
    ASSUME LockInv, EffectInv, NEW w \in Worker, WorkerStep(w) \/ Failure(w)
    PROVE  EffectInv'
<1> USE DEF Ending
<1>a. w \in Process /\ Worker \subseteq Process /\ Nobody \notin Worker
  BY Actors
<1>t. pc \in [Process -> PC] /\ ev \in [Worker -> Event \cup {"none"}]
      /\ row \in [Event -> RowState]
  BY DEF LockInv
<1>t2. outcome \in [Worker -> {"processed", "retry"}]
  BY DEF LockInv
<1>p. ASSUME NEW step, To(w, step)
      PROVE  pc'[w] = step /\ \A v \in Worker \ {w} : pc'[v] = pc[v]
  BY <1>a, <1>p, <1>t DEF To
<1>d. ASSUME Done(w)
      PROVE  /\ pc'[w] = "idle"
             /\ \A v \in Worker \ {w} : pc'[v] = pc[v] /\ ev'[v] = ev[v] /\ outcome'[v] = outcome[v]
  BY <1>d, <1>p, <1>t, <1>t2 DEF Done
<1>r. ASSUME pc[w] # "idle", NEW s \in RowState, row' = Settled(ev[w], s)
      PROVE  \A e \in Event : Unsettled(e)' => Unsettled(e)
  BY <1>r, SettledType DEF LockInv, Pending, Unsettled, RowState
<1>u. ASSUME UNCHANGED row PROVE \A e \in Event : Unsettled(e)' => Unsettled(e)
  BY <1>u DEF Unsettled
<1>1. ASSUME NEW e \in Event, Select(w, e) PROVE EffectInv'
  BY <1>1, <1>p, <1>t, <1>u, EffectQuiet DEF Select, Handling, data, held, budgets, history
<1>2. CASE Resolve(w)
  BY <1>2, <1>p, <1>u, EffectQuiet DEF Resolve, Handling, data, budgets, history
<1>3. CASE Quarantine(w)
  BY <1>3, <1>d, <1>r, EffectQuiet DEF Quarantine, Handling, budgets, history, RowState
<1>4. CASE Begin(w) \/ Lock(w) \/ ReconcileBegin(w)
  BY <1>4, <1>p, <1>u, EffectQuiet
  DEF Begin, Lock, ReconcileBegin, Handling, data, budgets, history
<1>5. CASE Reconcile(w) \/ SettleOutside(w)
  BY <1>5, <1>d, <1>r, EffectQuiet
  DEF Reconcile, SettleOutside, Handling, budgets, history, RowState
<1>6. CASE GuardFails(w) \/ RecoveryFails(w)
  BY <1>6, <1>d, <1>r, <1>u, EffectQuiet
  DEF GuardFails, RecoveryFails, Handling, data, history, RowState
<1>7. CASE Recheck(w)
  <2>1. CASE Done(w)
    BY <1>7, <1>d, <1>u, <2>1, EffectQuiet DEF Recheck, Handling, data, budgets, history
  <2>2. CASE To(w, "quarantine") /\ UNCHANGED <<ev, outcome>>
    BY <1>7, <1>p, <1>u, <2>2, EffectQuiet DEF Recheck, Handling, data, budgets, history
  <2>3. CASE Pending(ev[w]) /\ To(w, "handle") /\ UNCHANGED <<ev, outcome>>
    <3>1. pc[w] = "recheck" /\ Unsettled(ev[w]) /\ ev[w] \in Event /\ pc'[w] = "handle"
      BY <1>7, <1>p, <2>3 DEF Recheck, LockInv, Pending, Unsettled
    <3>2. \A v \in Worker \ {w} : pc[v] \notin Handling
      BY <3>1 DEF LockInv
    <3>3. Excused(ev[w])
      BY <3>1, <3>2 DEF EffectInv, Handling
    <3>4. UNCHANGED <<effects, deaths, losses, doubts, row, ev, outcome>>
      BY <1>7, <2>3 DEF Recheck, data, budgets, history
    <3>5. \A v \in Worker \ {w} : pc'[v] = pc[v]
      BY <1>p, <2>3
    <3>6. EffectOnce'
      BY <3>4 DEF EffectInv, EffectOnce
    <3>7. \A e : Excused(e)' <=> Excused(e)
      BY <3>4 DEF Excused
    <3>8. \A e : Unsettled(e)' <=> Unsettled(e)
      BY <3>4 DEF Unsettled
    <3>9. \A v \in Worker : pc'[v] \in Ending <=> pc[v] \in Ending
      BY <3>1, <3>5
    <3> QED
      BY <3>1, <3>3, <3>4, <3>5, <3>6, <3>7, <3>8, <3>9 DEF EffectInv
  <2> QED BY <1>7, <2>1, <2>2, <2>3 DEF Recheck
<1>h. pc[w] \in Handling => ev[w] \in Event /\ \A v \in Worker \ {w} : pc[v] \notin Handling
  BY DEF LockInv, Handling
<1>n. Handling = {"handle", "inner"} \cup Ending
  BY DEF Handling
<1>8. CASE HandleNothing(w) \/ AutosendBegin(w)
  <2>1. /\ pc[w] = "handle" /\ pc'[w] \in {"inner", "finalize"} /\ ev' = ev
        /\ \A v \in Worker \ {w} : pc'[v] = pc[v]
        /\ UNCHANGED <<effects, deaths, losses, doubts, row>>
    BY <1>8, <1>p, <1>t2 DEF HandleNothing, AutosendBegin, data, budgets, history
  <2>2. Excused(ev[w])
    BY <2>1 DEF EffectInv
  <2>3. EffectOnce' /\ (\A e : Excused(e)' <=> Excused(e)) /\ (\A e : Unsettled(e)' <=> Unsettled(e))
    BY <2>1 DEF EffectInv, EffectOnce, Excused, Unsettled
  <2>4. \A v \in Worker : pc[v] \in Ending => pc'[v] \in Ending
    BY <2>1
  <2>5. \A v \in Worker : pc'[v] \in Handling => v = w
    BY <1>h, <1>n, <2>1
  <2> QED BY <1>n, <2>1, <2>2, <2>3, <2>4, <2>5 DEF EffectInv
<1>9. CASE HandleOnce(w) \/ HandleText(w) \/ AutosendCommit(w)
  <2>1. /\ pc[w] \in {"handle", "inner"} /\ pc'[w] \in Ending
        /\ ev' = ev /\ outcome' = [outcome EXCEPT ![w] = "processed"]
        /\ \A v \in Worker \ {w} : pc'[v] = pc[v]
        /\ effects' = [effects EXCEPT ![ev[w]] = @ + 1]
        /\ UNCHANGED <<deaths, losses, doubts, row>>
    BY <1>9, <1>p DEF HandleOnce, HandleText, AutosendCommit, data, budgets
  <2>2. ev[w] \in Event /\ Excused(ev[w])
    BY <1>h, <1>n, <2>1 DEF EffectInv
  <2>3. /\ effects' \in [Event -> Nat] /\ effects'[ev[w]] = effects[ev[w]] + 1
        /\ \A e \in Event : e # ev[w] => effects'[e] = effects[e]
    BY <2>1, <2>2 DEF EffectInv
  <2>4. EffectOnce'
    BY <2>1, <2>2, <2>3 DEF EffectInv, EffectOnce, Excused
  <2>5. \A v \in Worker : pc'[v] \in Handling => v = w
    BY <1>h, <1>n, <2>1
  <2>6. \A v \in Worker : pc'[v] \in {"handle", "inner"} => Excused(ev[v])'
    BY <1>n, <2>1, <2>5
  <2>7. outcome'[w] # "retry" \/ w \notin DOMAIN outcome
    BY <2>1
  <2>8. \A v \in Worker : pc'[v] \in Ending /\ outcome'[v] = "retry" => Excused(ev[v])'
    BY <1>n, <1>t2, <2>1, <2>5, <2>7
  <2>9. ASSUME NEW e \in Event, Unsettled(e)', \A v \in Worker : pc'[v] \in Ending => ev'[v] # e
        PROVE  Excused(e)'
    <3>1. e # ev[w] /\ Unsettled(e)
      BY <2>1, <2>9 DEF Unsettled
    <3>2. \A v \in Worker : pc[v] \in Ending => ev[v] # e
      BY <2>1, <2>9
    <3> QED BY <2>1, <2>3, <3>1, <3>2 DEF EffectInv, Excused
  <2> QED BY <2>1, <2>3, <2>4, <2>6, <2>8, <2>9 DEF EffectInv
<1>10. CASE HandleUnanswered(w)
  <2>1. /\ pc[w] = "handle" /\ pc'[w] = "note" /\ ev' = ev
        /\ \A v \in Worker \ {w} : pc'[v] = pc[v]
        /\ doubts' = [doubts EXCEPT ![ev[w]] = @ + 1]
        /\ UNCHANGED <<deaths, losses, row>>
    BY <1>10, <1>p DEF HandleUnanswered, data
  <2>2. ev[w] \in Event /\ Excused(ev[w])
    BY <1>h, <1>n, <2>1 DEF EffectInv
  <2>3. PICK taken \in {0, 1} : effects' = [effects EXCEPT ![ev[w]] = @ + taken]
    BY <1>10 DEF HandleUnanswered
  <2>4. /\ effects' \in [Event -> Nat] /\ doubts' \in [Event -> Nat]
        /\ effects'[ev[w]] = effects[ev[w]] + taken /\ doubts'[ev[w]] = doubts[ev[w]] + 1
        /\ \A e \in Event : e # ev[w] => effects'[e] = effects[e] /\ doubts'[e] = doubts[e]
    BY <2>1, <2>2, <2>3 DEF EffectInv
  <2>5. \A e \in Event : Excused(e) => Excused(e)'
    BY <2>1, <2>2, <2>3, <2>4 DEF EffectInv, Excused
  <2>6. EffectOnce'
    BY <2>1, <2>2, <2>3, <2>4 DEF EffectInv, EffectOnce
  <2>7. \A v \in Worker : pc'[v] \in Handling => v = w
    BY <1>h, <1>n, <2>1
  <2>8. Excused(ev[w])'
    BY <2>2, <2>5, <2>1
  <2>9. ASSUME NEW e \in Event, Unsettled(e)', \A v \in Worker : pc'[v] \in Ending => ev'[v] # e
        PROVE  Excused(e)'
    <3>1. Unsettled(e) /\ \A v \in Worker : pc[v] \in Ending => ev[v] # e
      BY <2>1, <2>9 DEF Unsettled
    <3> QED BY <2>5, <3>1 DEF EffectInv
  <2> QED BY <1>n, <2>1, <2>4, <2>6, <2>7, <2>8, <2>9 DEF EffectInv
<1>11. CASE Note(w)
  <2>1. /\ pc[w] = "note" /\ pc'[w] = "finalize" /\ ev' = ev
        /\ \A v \in Worker \ {w} : pc'[v] = pc[v]
        /\ UNCHANGED <<effects, deaths, losses, doubts, row>>
    BY <1>11, <1>p DEF Note, budgets, history
  <2>2. outcome'[w] = "retry" => outcome[w] = "retry"
    BY <1>11, <1>t2 DEF Note
  <2>3. EffectOnce' /\ (\A e : Excused(e)' <=> Excused(e)) /\ (\A e : Unsettled(e)' <=> Unsettled(e))
    BY <2>1 DEF EffectInv, EffectOnce, Excused, Unsettled
  <2>4. \A v \in Worker : pc[v] \in Ending => pc'[v] \in Ending
    BY <2>1
  <2>5. \A v \in Worker : pc'[v] \in Handling => v = w
    BY <1>h, <1>n, <2>1
  <2>6. outcome'[w] = "retry" => Excused(ev[w])'
    BY <2>1, <2>2, <2>3 DEF EffectInv, Excused
  <2> QED BY <1>n, <2>1, <2>3, <2>4, <2>5, <2>6 DEF EffectInv
<1>12. CASE Finalize(w) \/ FinalizeTooLate(w)
  <2>1. /\ pc[w] = "finalize" /\ pc'[w] \in {"idle", "reconcile"}
        /\ \A v \in Worker \ {w} : pc'[v] = pc[v] /\ ev'[v] = ev[v] /\ outcome'[v] = outcome[v]
        /\ UNCHANGED <<effects, deaths, losses, doubts>>
    BY <1>12, <1>p, <1>d DEF Finalize, FinalizeTooLate, data, budgets, history
  <2>2. EffectOnce' /\ (\A e : Excused(e)' <=> Excused(e))
    BY <2>1 DEF EffectInv, EffectOnce, Excused
  <2>3. \A v \in Worker : pc'[v] \notin Handling
    BY <1>h, <1>n, <2>1
  <2>4. \A v \in Worker : pc[v] \in Ending => v = w
    BY <1>h, <1>n, <2>1
  <2>5. ASSUME NEW e \in Event, Unsettled(e)' PROVE Excused(e)
    <3>1. CASE e # ev[w]
      <4>1. Unsettled(e)
        BY <1>12, <1>t, <2>5, <3>1 DEF Finalize, FinalizeTooLate, Unsettled, data
      <4> QED BY <2>4, <3>1, <4>1 DEF EffectInv
    <3>2. CASE e = ev[w]
      <4>1. row'[e] \in {"absent", "due", "waiting"}
        BY <2>5 DEF Unsettled
      <4>2. Finalize(w)
        BY <1>12, <1>t, <2>1, <3>2, <4>1 DEF LockInv, FinalizeTooLate, Pending, data, RowState
      <4>3. outcome[w] = "retry"
        BY <1>t, <1>t2, <3>2, <4>1, <4>2 DEF Finalize, Final
      <4> QED BY <2>1, <3>2, <4>3 DEF EffectInv, Excused
    <3> QED BY <3>1, <3>2
  <2> QED BY <1>n, <2>1, <2>2, <2>3, <2>5 DEF EffectInv
<1>13. CASE FinalizeFails(w) \/ CommitFails(w)
  <2>1. /\ pc[w] = "finalize" /\ pc'[w] \in {"reconcile", "settle"} /\ ev' = ev
        /\ \A v \in Worker \ {w} : pc'[v] = pc[v]
        /\ UNCHANGED <<outcome, effects, deaths, doubts>> /\ losses' = losses + 1
    BY <1>13, <1>p DEF FinalizeFails, CommitFails, data, history
  <2>2. losses' \in Nat /\ EffectOnce' /\ \A e \in Event : Excused(e)'
    BY <2>1 DEF EffectInv, EffectOnce, Excused
  <2>3. \A v \in Worker : pc'[v] \notin Handling
    BY <1>h, <1>n, <2>1
  <2> QED BY <1>n, <2>1, <2>2, <2>3 DEF EffectInv
<1> QED
  BY <1>1, <1>2, <1>3, <1>4, <1>5, <1>6, <1>7, <1>8, <1>9, <1>10, <1>11, <1>12, <1>13
  DEF WorkerStep, Failure

\* What the routes, the clock and the delivery leave: the handlers and the
\* effects as they are, and no row unsettled that was settled.
LEMMA EffectOthers ==
    ASSUME EffectInv, \A v \in Worker : pc'[v] = pc[v],
           UNCHANGED <<ev, outcome, effects, deaths, losses, doubts>>,
           \A e \in Event : Unsettled(e)' => Unsettled(e)
    PROVE  EffectInv'
BY DEF EffectInv, EffectOnce, Excused

LEMMA EffectNext == LockInv /\ EffectInv /\ [Next]_vars => EffectInv'
<1> SUFFICES ASSUME LockInv, EffectInv, [Next]_vars PROVE EffectInv'
  OBVIOUS
<1>a. Worker \subseteq Process /\ \A w \in Worker, q \in Sender \cup Office : w # q
  BY ProcessAssumption DEF Process
<1>t. pc \in [Process -> PC] /\ row \in [Event -> RowState]
  BY DEF LockInv
<1>p. ASSUME NEW q \in Sender \cup Office, NEW step, To(q, step)
      PROVE  \A v \in Worker : pc'[v] = pc[v]
  BY <1>a, <1>t, <1>p DEF To
<1>u. UNCHANGED row => \A e \in Event : Unsettled(e)' => Unsettled(e)
  BY DEF Unsettled
<1>1. ASSUME NEW w \in Worker, WorkerStep(w) \/ Failure(w) PROVE EffectInv'
  BY <1>1, EffectWorker
<1>2. ASSUME NEW h \in Program, Die(h) PROVE EffectInv'
  <2> DEFINE dead == {p \in Process : Home[p] = h}
  <2>1. deaths' = deaths + 1 /\ UNCHANGED <<effects, losses, doubts>>
    BY <1>2 DEF Die, history
  <2>2. deaths' \in Nat /\ EffectOnce' /\ \A e \in Event : Excused(e)'
    BY <2>1 DEF EffectInv, EffectOnce, Excused
  <2>3. \A w \in Worker : pc'[w] # "idle" => pc'[w] = pc[w] /\ ev'[w] = ev[w]
    BY <1>2, <1>a DEF Die
  <2>4. \A w \in Worker : pc'[w] # "idle" => ev'[w] \in Event
    BY <2>3 DEF LockInv
  <2>5. \A w \in Worker : pc'[w] # "idle" => Excused(ev[w])'
    <3> SUFFICES ASSUME NEW w \in Worker, pc'[w] # "idle"
                 PROVE  effects'[ev'[w]] <= deaths' + losses' + doubts'[ev'[w]]
      BY DEF Excused
    <3> QED BY <2>2, <2>4 DEF Excused
  <2> QED BY <2>1, <2>2, <2>5 DEF EffectInv, Ending
<1>3. ASSUME NEW e \in Event, Enqueue(e) \/ Due(e) PROVE EffectInv'
  <2>1. \A f \in Event : Unsettled(f)' => Unsettled(f)
    BY <1>3, <1>t DEF Enqueue, Due, Unsettled
  <2> QED BY <1>3, <2>1, EffectOthers DEF Enqueue, Due, locals, budgets, history
<1>4. ASSUME NEW s \in Sender, SenderStep(s) PROVE EffectInv'
  BY <1>4, <1>p, <1>u, EffectOthers
  DEF SenderStep, SendBegin, Open, SendLock, SendCommit, data, budgets, history
<1>5. ASSUME NEW o \in Office, OfficeStep(o) PROVE EffectInv'
  <2>1. CASE OfficeBegin(o)
    BY <1>p, <1>u, <2>1, EffectOthers DEF OfficeBegin, Open, data, budgets, history
  <2>2. CASE OfficeCommit(o)
    <3>1. \A e \in Event : Unsettled(e)' => Unsettled(e)
      BY <2>2 DEF OfficeCommit, Pending, Unsettled
    <3> QED BY <1>p, <2>2, <3>1, EffectOthers DEF OfficeCommit, budgets, history
  <2> QED BY <1>5, <2>1, <2>2 DEF OfficeStep
<1>6. CASE Deliver \/ UNCHANGED vars
  BY <1>6, <1>u, EffectOthers DEF Deliver, vars, data, locals, budgets, history
<1> QED BY <1>1, <1>2, <1>3, <1>4, <1>5, <1>6 DEF Next

\* However many workers hold the same row, its handler takes effect once more
\* at most for every death, every transaction or guard that fails, and every
\* call for the row that the provider leaves unanswered.
THEOREM EffectsAreFew == Spec => []EffectOnce
<1>1. Init => EffectInv
  BY Actors DEF Init, EffectInv, EffectOnce, Excused
<1> QED BY <1>1, EffectNext, LockAlways, PTL DEF Spec, EffectInv

-----------------------------------------------------------------------------
(***************************************************************************)
(* The draft.  Two locks together keep it from being queued twice: a       *)
(* request holds the message's while it waits for the contact's, and the   *)
(* autopilot's transaction runs while its worker holds the contact's.      *)
(***************************************************************************)

DraftInv ==
    /\ sends \in Nat /\ sendRow \in {"absent", "pending", "processed", "quarantined"}
    /\ message = "draft" => sends = 0 /\ sendRow = "absent"
    /\ sendRow = "absent" => sends = 0
    /\ sendRow = "processed" => message = "sent"
    /\ \A w \in Worker : pc[w] = "inner" => message = "draft"
    /\ \A s \in Sender : pc[s] = "contact" => messageLock = s /\ message # "sent"
    /\ DraftSentOnce

\* Steps that leave the draft alone and bring nobody into its transactions.
LEMMA DraftQuiet ==
    ASSUME DraftInv, UNCHANGED <<message, sendRow, sends>>,
           \A w \in Worker : pc'[w] = "inner" => pc[w] = "inner",
           \A s \in Sender : pc'[s] = "contact" =>
               pc[s] = "contact" /\ (messageLock = s => messageLock' = s)
    PROVE  DraftInv'
BY DEF DraftInv, DraftSentOnce

LEMMA DraftWorker ==
    ASSUME LockInv, DraftInv, NEW w \in Worker, WorkerStep(w) \/ Failure(w)
    PROVE  DraftInv'
<1>a. w \in Process /\ Worker \subseteq Process /\ Sender \subseteq Process
      /\ Nobody \notin Worker /\ Nobody \notin Sender /\ \A s \in Sender : s # w
  BY ProcessAssumption DEF Process
<1>t. pc \in [Process -> PC]
  BY DEF LockInv
<1>p. ASSUME NEW step, To(w, step)
      PROVE  pc'[w] = step /\ (\A v \in Worker : v # w => pc'[v] = pc[v])
             /\ \A s \in Sender : pc'[s] = pc[s]
  BY <1>a, <1>t, <1>p DEF To
<1>d. ASSUME Done(w)
      PROVE  pc'[w] = "idle" /\ (\A v \in Worker : v # w => pc'[v] = pc[v])
             /\ \A s \in Sender : pc'[s] = pc[s]
  BY <1>d, <1>p DEF Done
<1>l. ASSUME Release(w) PROVE \A s \in Sender : messageLock = s => messageLock' = s
  BY <1>a, <1>l DEF Release
<1>1. ASSUME NEW e \in Event, Select(w, e) PROVE DraftInv'
  BY <1>1, <1>p, DraftQuiet DEF Select, data, held, history
<1>2. CASE Resolve(w) \/ Begin(w) \/ Lock(w) \/ ReconcileBegin(w)
  BY <1>2, <1>p, DraftQuiet DEF Resolve, Begin, Lock, ReconcileBegin, data, held, history
<1>3. CASE Quarantine(w) \/ SettleOutside(w)
  BY <1>3, <1>d, DraftQuiet DEF Quarantine, SettleOutside, held, history
<1>4. CASE Recheck(w)
  BY <1>4, <1>p, <1>d, <1>l, DraftQuiet DEF Recheck, data, held, history
<1>5. CASE \/ HandleNothing(w) \/ HandleOnce(w)
           \/ HandleText(w) \/ HandleUnanswered(w) \/ Note(w)
  BY <1>5, <1>p, DraftQuiet
  DEF HandleNothing, HandleOnce, HandleText, HandleUnanswered, Note, data, held, history
<1>6. CASE Finalize(w) \/ Reconcile(w) \/ GuardFails(w)
  BY <1>6, <1>d, <1>l, DraftQuiet DEF Finalize, Reconcile, GuardFails, history
<1>7. CASE FinalizeTooLate(w) \/ FinalizeFails(w) \/ CommitFails(w) \/ RecoveryFails(w)
  BY <1>7, <1>p, <1>d, <1>l, DraftQuiet
  DEF FinalizeTooLate, FinalizeFails, CommitFails, RecoveryFails, data, history
<1>8. CASE AutosendBegin(w)
  BY <1>8, <1>p DEF AutosendBegin, data, history, DraftInv, DraftSentOnce
<1>9. CASE AutosendCommit(w)
  <2>1. pc[w] = "inner" /\ message = "draft" /\ sends = 0 /\ sendRow = "absent"
    BY <1>9 DEF AutosendCommit, DraftInv
  <2>2. message' = "queued" /\ sendRow' = "pending" /\ sends' = 1
    BY <1>9, <2>1 DEF AutosendCommit
  <2>3. \A v \in Worker : pc'[v] # "inner"
    BY <1>9, <1>p, <2>1 DEF AutosendCommit, LockInv, Handling
  <2>4. \A s \in Sender : pc'[s] # "contact"
    BY <1>9, <1>a, <1>p DEF AutosendCommit, DraftInv
  <2> QED BY <2>2, <2>3, <2>4 DEF DraftInv, DraftSentOnce
<1> QED
  BY <1>1, <1>2, <1>3, <1>4, <1>5, <1>6, <1>7, <1>8, <1>9 DEF WorkerStep, Failure

LEMMA DraftSender ==
    ASSUME LockInv, DraftInv, NEW s \in Sender, SenderStep(s)
    PROVE  DraftInv'
<1>a. s \in Process /\ Worker \subseteq Process /\ Sender \subseteq Process
      /\ Nobody \notin Worker /\ Nobody \notin Sender /\ \A w \in Worker : s # w
  BY ProcessAssumption DEF Process
<1>p. ASSUME NEW step, To(s, step)
      PROVE  pc'[s] = step /\ (\A w \in Worker : pc'[w] = pc[w])
             /\ \A q \in Sender : q # s => pc'[q] = pc[q]
  BY <1>a, <1>p DEF To, LockInv
<1>l. ASSUME Release(s) PROVE \A q \in Sender : q # s /\ messageLock = q => messageLock' = q
  BY <1>a, <1>l DEF Release
<1>1. CASE SendBegin(s)
  BY <1>1, <1>p, DraftQuiet DEF SendBegin, Open, data, history
<1>2. CASE SendLock(s)
  <2>1. CASE message = "sent"
    BY <1>2, <1>p, <1>l, <2>1, DraftQuiet DEF SendLock, data, history
  <2>2. CASE message # "sent"
    <3>1. /\ messageLock = Nobody /\ messageLock' = s /\ pc'[s] = "contact"
          /\ \A q \in Sender : q # s => pc'[q] = pc[q]
          /\ \A w \in Worker : pc'[w] = pc[w]
          /\ UNCHANGED <<message, sendRow, sends>>
      BY <1>2, <1>p, <2>2 DEF SendLock, data, history
    <3> QED BY <1>a, <2>2, <3>1 DEF DraftInv, DraftSentOnce
  <2> QED BY <2>1, <2>2
<1>3. CASE SendCommit(s)
  <2>1. pc'[s] = "idle" /\ (\A q \in Sender : q # s => pc'[q] = pc[q])
        /\ \A w \in Worker : pc'[w] = pc[w]
    BY <1>3, <1>p DEF SendCommit
  <2>2. pc[s] = "contact" /\ messageLock = s /\ message # "sent" /\ sendRow # "processed"
    BY <1>3 DEF SendCommit, DraftInv
  <2>3. \A q \in Sender : pc'[q] # "contact"
    BY <2>1, <2>2 DEF DraftInv
  <2>4. \A w \in Worker : pc'[w] # "inner"
    BY <1>3, <1>a, <2>1 DEF SendCommit, LockInv, Handling
  <2>5. CASE UNCHANGED <<message, sendRow, sends>>
    BY <2>3, <2>4, <2>5 DEF DraftInv, DraftSentOnce
  <2>6. CASE message' = "queued" /\ sendRow = "pending" /\ UNCHANGED <<sendRow, sends>>
    BY <2>3, <2>4, <2>6 DEF DraftInv, DraftSentOnce
  <2>7. CASE /\ message' = "queued" /\ sendRow \notin {"pending", "quarantined"}
             /\ sendRow' = "pending" /\ sends' = sends + 1
    <3>1. sendRow = "absent" /\ sends = 0
      BY <2>2, <2>7 DEF DraftInv
    <3> QED BY <2>3, <2>4, <2>7, <3>1 DEF DraftInv, DraftSentOnce
  <2> QED BY <1>3, <2>5, <2>6, <2>7 DEF SendCommit
<1> QED BY <1>1, <1>2, <1>3 DEF SenderStep

LEMMA DraftNext == LockInv /\ DraftInv /\ [Next]_vars => DraftInv'
<1> SUFFICES ASSUME LockInv, DraftInv, [Next]_vars PROVE DraftInv'
  OBVIOUS
<1>a. Worker \subseteq Process /\ Sender \subseteq Process /\ Nobody \notin Worker
      /\ Nobody \notin Sender /\ \A o \in Office : o \notin Sender /\ o \notin Worker
  BY ProcessAssumption DEF Process
<1>1. ASSUME NEW w \in Worker, WorkerStep(w) \/ Failure(w) PROVE DraftInv'
  BY <1>1, DraftWorker
<1>2. ASSUME NEW h \in Program, Die(h) PROVE DraftInv'
  <2>1. \A p \in Process : pc'[p] = "idle" \/ (pc'[p] = pc[p] /\ Home[p] # h)
    BY <1>2 DEF Die
  <2>2. \A s \in Sender : Home[s] # h /\ messageLock = s => messageLock' = s
    BY <1>2, <1>a DEF Die
  <2>3. UNCHANGED <<message, sendRow, sends>>
    BY <1>2 DEF Die, data, history
  <2>4. \A w \in Worker : pc'[w] = "inner" => pc[w] = "inner"
    BY <1>a, <2>1
  <2>5. \A s \in Sender : pc'[s] = "contact" =>
           pc[s] = "contact" /\ (messageLock = s => messageLock' = s)
    BY <1>a, <2>1, <2>2
  <2> QED BY <2>3, <2>4, <2>5, DraftQuiet
<1>3. ASSUME NEW e \in Event, Enqueue(e) \/ Due(e) PROVE DraftInv'
  BY <1>3, DraftQuiet DEF Enqueue, Due, locals, held, history
<1>4. ASSUME NEW s \in Sender, SenderStep(s) PROVE DraftInv'
  BY <1>4, DraftSender
<1>5. ASSUME NEW o \in Office, OfficeStep(o) PROVE DraftInv'
  <2>a. o \notin Sender /\ o \notin Worker
    BY <1>a
  <2>b. pc \in [Process -> PC]
    BY DEF LockInv
  <2>c. To(o, "contact") \/ (To(o, "idle") /\ Release(o))
    BY <1>5 DEF OfficeStep, OfficeBegin, OfficeCommit, Open
  <2>1. (\A w \in Worker : pc'[w] = pc[w]) /\ (\A s \in Sender : pc'[s] = pc[s])
    BY <1>a, <2>a, <2>b, <2>c DEF To
  <2>2. \A s \in Sender : messageLock = s => messageLock' = s
    <3>1. CASE OfficeBegin(o)
      BY <3>1 DEF OfficeBegin, Open
    <3>2. CASE OfficeCommit(o)
      BY <2>a, <3>2 DEF OfficeCommit, Release
    <3> QED BY <1>5, <3>1, <3>2 DEF OfficeStep
  <2>3. UNCHANGED <<message, sends>>
    BY <1>5 DEF OfficeStep, OfficeBegin, OfficeCommit, Open, data, history
  <2>4. sendRow' = sendRow \/ (sendRow = "pending" /\ sendRow' = "quarantined")
    BY <1>5 DEF OfficeStep, OfficeBegin, OfficeCommit, Open, data
  <2> QED BY <2>1, <2>2, <2>3, <2>4 DEF DraftInv, DraftSentOnce
<1>6. CASE Deliver
  <2>1. \A w \in Worker : pc'[w] # "inner"
    BY <1>6, <1>a DEF Deliver, locals, LockInv, Handling
  <2>2. \A s \in Sender : pc'[s] # "contact"
    BY <1>6, <1>a DEF Deliver, locals, DraftInv
  <2> QED BY <1>6, <2>1, <2>2 DEF Deliver, history, DraftInv, DraftSentOnce
<1>7. CASE UNCHANGED vars
  BY <1>7, DraftQuiet DEF vars, data, locals, held, history
<1> QED BY <1>1, <1>2, <1>3, <1>4, <1>5, <1>6, <1>7 DEF Next

\* The draft is queued once, by hand or by the autopilot, however their
\* transactions interleave, fail and die.
THEOREM DraftsAreSentOnce == Spec => []DraftSentOnce
<1>1. Init => DraftInv
  BY Actors DEF Init, DraftInv, DraftSentOnce, Process
<1> QED BY <1>1, DraftNext, LockAlways, PTL DEF Spec, DraftInv

-----------------------------------------------------------------------------
(* Types, and the pool: whoever takes a connection has waited for a free one. *)

HeldInv ==
    /\ outer \in SUBSET Process /\ inner \in SUBSET Worker
    /\ \A p \in Process : Used(p) <= Pool

RestType ==
    /\ deleted \in BOOLEAN
    /\ message \in {"draft", "queued", "sent"}
    /\ sendRow \in {"absent", "pending", "processed", "quarantined"}
    /\ contactLock \in Process \cup {Nobody}
    /\ messageLock \in Sender \cup {Nobody}
    /\ deaths \in 0 .. MaxDeaths /\ losses \in 0 .. MaxLosses
    /\ told \in SUBSET Noted /\ doubts \in [Event -> 0 .. MaxDoubts]
    /\ effects \in [Event -> Nat]
    /\ sends \in Nat

LEMMA CountLess ==
    ASSUME NEW S \in SUBSET Process, NEW T \in SUBSET S
    PROVE  Cardinality(S) \in Nat /\ Cardinality(T) \in Nat /\ Cardinality(T) <= Cardinality(S)
<1>1. IsFiniteSet(S)
  BY ProcessAssumption, FS_Subset
<1>2. IsFiniteSet(T) /\ Cardinality(T) <= Cardinality(S)
  BY <1>1, FS_Subset
<1> QED BY <1>1, <1>2, FS_CardinalityType

LEMMA CountMore ==
    ASSUME NEW S \in SUBSET Process, NEW p \in Process
    PROVE  /\ Cardinality(S) \in Nat /\ Cardinality(S \cup {p}) \in Nat
           /\ Cardinality(S \cup {p}) <= Cardinality(S) + 1
<1>1. IsFiniteSet(S)
  BY ProcessAssumption, FS_Subset
<1>2. IsFiniteSet(S \cup {p})
      /\ Cardinality(S \cup {p}) = IF p \in S THEN Cardinality(S) ELSE Cardinality(S) + 1
  BY <1>1, FS_AddElement
<1> QED BY <1>1, <1>2, FS_CardinalityType

\* What a step does to the connections.
Frees == outer' \subseteq outer /\ inner' \subseteq inner
Takes ==
    \/ \E p \in Process : Free(p) /\ outer' = outer \cup {p} /\ inner' = inner
    \/ \E w \in Worker : Free(w) /\ inner' = inner \cup {w} /\ outer' = outer

LEMMA PoolKept ==
    ASSUME HeldInv, Frees \/ Takes
    PROVE  HeldInv'
<1> USE DEF HeldInv
<1>a. Worker \subseteq Process
  BY Actors
<1>1. outer' \in SUBSET Process /\ inner' \in SUBSET Worker
  BY <1>a DEF Frees, Takes
<1>2. ASSUME NEW p \in Process PROVE Used(p)' <= Pool
  <2> DEFINE O == outer \cap Peers(p)
             I == inner \cap Peers(p)
             On == outer' \cap Peers(p)
             In == inner' \cap Peers(p)
  <2>0. /\ O \in SUBSET Process /\ I \in SUBSET Process
        /\ On \in SUBSET Process /\ In \in SUBSET Process
    BY <1>1, <1>a
  <2>1. Used(p) = Cardinality(O) + Cardinality(I) /\ Used(p)' = Cardinality(On) + Cardinality(In)
    BY DEF Used, Peers
  <2>2. Used(p) <= Pool /\ Pool \in Nat
    BY LimitAssumption
  <2>3. /\ Cardinality(O) \in Nat /\ Cardinality(I) \in Nat
        /\ Cardinality(On) \in Nat /\ Cardinality(In) \in Nat
    BY <2>0, CountLess
  <2> HIDE DEF O, I, On, In
  <2>4. CASE On \subseteq O /\ In \subseteq I
    <3>1. Cardinality(On) <= Cardinality(O) /\ Cardinality(In) <= Cardinality(I)
      BY <2>0, <2>4, CountLess
    <3> QED BY <2>1, <2>2, <2>3, <3>1
  <2>5. ASSUME NEW q \in Process, Free(q), q \in Peers(p),
               \/ On = O \cup {q} /\ In = I
               \/ In = I \cup {q} /\ On = O
        PROVE  Used(p)' <= Pool
    <3>1. Used(q) = Used(p)
      BY <2>5 DEF Used, Peers
    <3>2. Used(p) < Pool
      BY <2>5, <3>1 DEF Free
    <3>3. Cardinality(O \cup {q}) <= Cardinality(O) + 1 /\ Cardinality(I \cup {q}) <= Cardinality(I) + 1
      BY <2>0, CountMore
    <3>4. \/ Cardinality(On) <= Cardinality(O) + 1 /\ Cardinality(In) = Cardinality(I)
          \/ Cardinality(In) <= Cardinality(I) + 1 /\ Cardinality(On) = Cardinality(O)
      BY <2>5, <3>3
    <3> QED BY <2>1, <2>2, <2>3, <3>2, <3>4
  <2>6. CASE Frees
    <3>1. On \subseteq O /\ In \subseteq I
      BY <2>6 DEF Frees, On, O, In, I
    <3> QED BY <2>4, <3>1
  <2>7. ASSUME NEW q \in Process, Free(q),
               \/ outer' = outer \cup {q} /\ inner' = inner
               \/ inner' = inner \cup {q} /\ outer' = outer
        PROVE  Used(p)' <= Pool
    <3>1. CASE q \in Peers(p)
      <4>1. \/ On = O \cup {q} /\ In = I
            \/ In = I \cup {q} /\ On = O
        BY <2>7, <3>1 DEF On, O, In, I
      <4> QED BY <2>5, <2>7, <3>1, <4>1
    <3>2. CASE q \notin Peers(p)
      <4>1. On \subseteq O /\ In \subseteq I
        BY <2>7, <3>2 DEF On, O, In, I
      <4> QED BY <2>4, <4>1
    <3> QED BY <3>1, <3>2
  <2> QED BY <1>a, <2>6, <2>7 DEF Takes
<1> QED BY <1>1, <1>2

LEMMA Connections == ASSUME LockInv, Next PROVE Frees \/ Takes
<1>a. Worker \subseteq Process /\ Sender \subseteq Process /\ Office \subseteq Process
  BY Actors
<1>1. ASSUME NEW w \in Worker, WorkerStep(w) \/ Failure(w) PROVE Frees \/ Takes
  <2>1. CASE Begin(w) \/ ReconcileBegin(w)
    BY <1>a, <2>1 DEF Begin, ReconcileBegin, Takes
  <2>2. CASE AutosendBegin(w)
    BY <2>2 DEF AutosendBegin, Takes
  <2>3. CASE ~(Begin(w) \/ ReconcileBegin(w) \/ AutosendBegin(w))
    BY <1>1, <2>3 DEF WorkerStep, Failure, Select, Resolve, Quarantine, Lock, Recheck, HandleNothing,
       HandleOnce, HandleText, HandleUnanswered, Note, AutosendCommit, Finalize,
       FinalizeTooLate, Reconcile, SettleOutside,
       FinalizeFails, CommitFails, RecoveryFails, GuardFails, Release, Frees, held
  <2> QED BY <2>1, <2>2, <2>3
<1>2. ASSUME NEW s \in Sender, SenderStep(s) PROVE Frees \/ Takes
  BY <1>a, <1>2 DEF SenderStep, SendBegin, Open, SendLock, SendCommit, Release, Frees, Takes
<1>3. ASSUME NEW o \in Office, OfficeStep(o) PROVE Frees \/ Takes
  BY <1>a, <1>3 DEF OfficeStep, OfficeBegin, Open, OfficeCommit, Release, Frees, Takes
<1>4. CASE \/ \E h \in Program : Die(h)
           \/ \E e \in Event : Enqueue(e) \/ Due(e)
           \/ Deliver
  BY <1>4 DEF Die, Enqueue, Due, Deliver, Frees, held
<1> QED BY <1>1, <1>2, <1>3, <1>4 DEF Next

LEMMA RestStep == ASSUME LockInv, RestType, Next PROVE RestType'
<1> USE LimitAssumption DEF RestType
<1>a. Worker \subseteq Process /\ Sender \subseteq Process /\ Office \subseteq Process
  BY Actors
<1>r. ASSUME NEW p \in Process, Release(p)
      PROVE  contactLock' \in Process \cup {Nobody} /\ messageLock' \in Sender \cup {Nobody}
  BY <1>r DEF Release
<1>1. ASSUME NEW w \in Worker, WorkerStep(w) \/ Failure(w) PROVE RestType'
  <2>1. deleted' \in BOOLEAN /\ message' \in {"draft", "queued", "sent"}
        /\ sendRow' \in {"absent", "pending", "processed", "quarantined"}
    BY <1>1 DEF WorkerStep, Failure, Select, Resolve, Quarantine, Begin, Lock, Recheck, HandleNothing,
       HandleOnce, HandleText, HandleUnanswered, Note, AutosendBegin, AutosendCommit,
       Finalize, FinalizeTooLate, ReconcileBegin, Reconcile,
       SettleOutside, FinalizeFails, CommitFails, RecoveryFails, GuardFails, data
  <2>2. contactLock' \in Process \cup {Nobody} /\ messageLock' \in Sender \cup {Nobody}
    BY <1>1, <1>a, <1>r DEF WorkerStep, Failure, Select, Resolve, Quarantine, Begin, Lock, Recheck,
       HandleNothing, HandleOnce, HandleText, HandleUnanswered, Note, AutosendBegin,
       AutosendCommit, Finalize, FinalizeTooLate,
       ReconcileBegin, Reconcile, SettleOutside, FinalizeFails, CommitFails, RecoveryFails,
       GuardFails, held
  <2>3. deaths' \in 0 .. MaxDeaths /\ losses' \in 0 .. MaxLosses
    BY <1>1 DEF WorkerStep, Failure, Select, Resolve, Quarantine, Begin, Lock, Recheck, HandleNothing,
       HandleOnce, HandleText, HandleUnanswered, Note, AutosendBegin, AutosendCommit,
       Finalize, FinalizeTooLate, ReconcileBegin, Reconcile,
       SettleOutside, FinalizeFails, CommitFails, RecoveryFails, GuardFails, budgets
  <2>4. effects' \in [Event -> Nat] /\ sends' \in Nat
    BY <1>1 DEF WorkerStep, Failure, Select, Resolve, Quarantine, Begin, Lock, Recheck, HandleNothing,
       HandleOnce, HandleText, HandleUnanswered, Note, AutosendBegin, AutosendCommit,
       Finalize, FinalizeTooLate, ReconcileBegin, Reconcile,
       SettleOutside, FinalizeFails, CommitFails, RecoveryFails, GuardFails, history
  <2>5. told' \in SUBSET Noted /\ doubts' \in [Event -> 0 .. MaxDoubts]
    <3>1. CASE HandleUnanswered(w)
      <4>1. doubts[ev[w]] \in 0 .. MaxDoubts /\ doubts[ev[w]] < MaxDoubts
        BY <1>a, <3>1 DEF HandleUnanswered, LockInv
      <4>2. doubts[ev[w]] + 1 \in 0 .. MaxDoubts
        BY <4>1
      <4> QED BY <3>1, <4>2 DEF HandleUnanswered, data
    <3>2. CASE Note(w)
      BY <3>2 DEF Note, budgets
    <3>3. CASE ~HandleUnanswered(w) /\ ~Note(w)
      BY <1>1, <3>3 DEF WorkerStep, Failure, Select, Resolve, Quarantine, Begin, Lock, Recheck,
         HandleNothing, HandleOnce, HandleText, AutosendBegin, AutosendCommit, Finalize,
         FinalizeTooLate, ReconcileBegin, Reconcile, SettleOutside, FinalizeFails, CommitFails,
         RecoveryFails, GuardFails, data, budgets
    <3> QED BY <3>1, <3>2, <3>3
  <2> QED BY <2>1, <2>2, <2>3, <2>4, <2>5
<1>2. ASSUME NEW s \in Sender, SenderStep(s) PROVE RestType'
  BY <1>a, <1>2, <1>r DEF SenderStep, SendBegin, Open, SendLock, SendCommit, data, budgets, history
<1>3. ASSUME NEW o \in Office, OfficeStep(o) PROVE RestType'
  BY <1>a, <1>3, <1>r DEF OfficeStep, OfficeBegin, Open, OfficeCommit, data, budgets, history
<1>4. ASSUME NEW h \in Program, Die(h) PROVE RestType'
  BY <1>4 DEF Die, data, history
<1>5. CASE (\E e \in Event : Enqueue(e) \/ Due(e)) \/ Deliver
  BY <1>5 DEF Enqueue, Due, Deliver, held, budgets, history
<1> QED BY <1>1, <1>2, <1>3, <1>4, <1>5 DEF Next

\* Every variable has the values the code allows, and no program ever holds
\* more connections than its pool has.
THEOREM TypeCorrect == Spec => []TypeOK
<1>1. Init => HeldInv /\ RestType
  <2> SUFFICES ASSUME Init PROVE HeldInv /\ RestType
    OBVIOUS
  <2>1. \A p \in Process : outer \cap Peers(p) = {} /\ inner \cap Peers(p) = {}
    BY DEF Init
  <2>2. \A p \in Process : Used(p) = 0
    BY <2>1, FS_EmptySet DEF Used
  <2>3. HeldInv
    BY <2>2, LimitAssumption DEF Init, HeldInv
  <2>4. deaths \in 0 .. MaxDeaths /\ losses \in 0 .. MaxLosses
    BY LimitAssumption DEF Init
  <2>5. effects \in [Event -> Nat] /\ sends \in Nat
    BY DEF Init
  <2>6. deleted \in BOOLEAN
    BY DEF Init
  <2>7. told \in SUBSET Noted /\ doubts \in [Event -> 0 .. MaxDoubts]
    BY LimitAssumption DEF Init
  <2> QED BY <2>3, <2>4, <2>5, <2>6, <2>7 DEF Init, RestType
<1>2. LockInv /\ HeldInv /\ RestType /\ [Next]_vars => (HeldInv /\ RestType)'
  <2>1. HeldInv /\ RestType /\ UNCHANGED vars => (HeldInv /\ RestType)'
    BY DEF HeldInv, RestType, Used, Peers, vars, data, held, budgets, history
  <2> QED BY <2>1, Connections, PoolKept, RestStep
<1>3. LockInv /\ HeldInv /\ RestType => TypeOK
  BY DEF LockInv, HeldInv, RestType, TypeOK
<1> QED BY <1>1, <1>2, <1>3, LockAlways, PTL DEF Spec
=============================================================================
