-------------------------- MODULE CardPaymentProofs --------------------------
(***************************************************************************)
(* Proofs about CardPayment for every number of appointments, attempts,    *)
(* orders, executions and faults.  The properties are not inductive: they  *)
(* do not say what a process knows between its steps.  RefInv, BindInv and *)
(* ChargeInv say it: of an order that was claimed, of an answer of Square, *)
(* and of an attempt that is believed not to have been charged.            *)
(***************************************************************************)
EXTENDS CardPayment, TLAPS

\* The attempt and the order a process works on are there when it uses them.
Busy == {"record", "dispatch", "match", "begin", "ask", "confirm", "commit"}
Local ==
    \A w \in Process :
        /\ pc[w] \in Busy => att[w] \in Attempt
        /\ pc[w] \in {"dispatch", "match", "ask", "commit"} => ord[w] \in Order

RowType ==
    /\ status \in [Attempt -> Status]
    /\ order \in [Attempt -> Order \cup {None}]
    /\ nonce \in [Attempt -> BOOLEAN]
    /\ op \in [Attempt -> {"none", "requested", "dispatched", "finished"}]
    /\ opBy \in [Attempt -> Request \cup {None}]
    /\ lapsed \in SUBSET Attempt /\ dismissed \in SUBSET Attempt

WorldType ==
    /\ cash \in SUBSET Appt
    /\ payment \in [Order -> Attempt \cup {None, Review}]
    /\ phone \in SUBSET Attempt
    /\ note \in [Order -> Attempt \cup {None, Stranger}]
    /\ captured \in SUBSET Order /\ exact \in SUBSET Order
    /\ said \in [Attempt -> Said]
    /\ todo \in SUBSET Attempt /\ found \in SUBSET Order
    /\ faults \in 0 .. MaxFaults

LocalType ==
    /\ pc \in [Process -> PC]
    /\ att \in [Process -> Attempt \cup {None}]
    /\ ord \in [Process -> Order \cup {None}]
    /\ way \in [Process -> {"none", "check", "import", "visit", "return"}]
    /\ seen \in [Process -> {"none", "verified", "pending", "mismatch"}]
    /\ blank \in [Process -> BOOLEAN]
    /\ Local

TypeInv == RowType /\ WorldType /\ LocalType

LEMMA TypeIsOK == TypeInv => TypeOK
BY DEF TypeInv, RowType, WorldType, LocalType, TypeOK

LEMMA TypeInit == Init => TypeInv
<1> SUFFICES ASSUME Init PROVE TypeInv
  OBVIOUS
<1>1. RowType
  BY DEF Init, RowType, Status
<1>2. WorldType
  BY FaultAssumption DEF Init, WorldType, Said
<1>3. LocalType
  BY DEF Init, LocalType, Local, PC, Busy
<1> QED BY <1>1, <1>2, <1>3 DEF TypeInv

\* A process comes back from an attempt, takes one up, goes a step further.
LEMMA LeaveType ==
    ASSUME LocalType, NEW w \in Process, NEW step \in PC \ Busy, Leave(w, step)
    PROVE  LocalType'
<1>1. LocalType!1' /\ LocalType!2' /\ LocalType!3'
  BY DEF LocalType, Leave, To
<1>2. LocalType!4' /\ LocalType!5' /\ LocalType!6'
  BY DEF LocalType, Leave
<1>3. Local'
  BY DEF LocalType, Local, Leave, To, Busy
<1> QED BY <1>1, <1>2, <1>3 DEF LocalType

LEMMA EnterType ==
    ASSUME LocalType, NEW w \in Process, NEW how \in {"check", "import", "visit", "return"},
           NEW a \in Attempt, NEW o \in Order \cup {None},
           NEW step \in {"record", "dispatch", "match", "begin"},
           step \in {"dispatch", "match"} => o \in Order,
           Enter(w, how, a, o, step), UNCHANGED seen, blank' \in [Process -> BOOLEAN]
    PROVE  LocalType'
<1>1. pc' \in [Process -> PC] /\ att' \in [Process -> Attempt \cup {None}]
      /\ ord' \in [Process -> Order \cup {None}]
  BY DEF LocalType, Enter, To, PC
<1>2. way' \in [Process -> {"none", "check", "import", "visit", "return"}]
  BY DEF LocalType, Enter
<1>3. Local'
  BY DEF LocalType, Local, Enter, To, Busy
<1> QED BY <1>1, <1>2, <1>3 DEF LocalType

LEMMA StepType ==
    ASSUME LocalType, NEW w \in Process, NEW step \in PC, To(w, step),
           step \in Busy => att[w] \in Attempt,
           step \in {"dispatch", "match", "ask", "commit"} => ord'[w] \in Order,
           \/ UNCHANGED ord
           \/ \E o \in Order : ord' = [ord EXCEPT ![w] = o],
           UNCHANGED <<att, way, blank>>,
           seen' \in [Process -> {"none", "verified", "pending", "mismatch"}]
    PROVE  LocalType'
<1>1. pc' \in [Process -> PC] /\ ord' \in [Process -> Order \cup {None}]
  BY DEF LocalType, To
<1>2. Local'
  BY DEF LocalType, Local, To, Busy
<1> QED BY <1>1, <1>2 DEF LocalType

LEMMA DoneType ==
    ASSUME LocalType, NEW w \in Process, Done(w) \/ Throw(w) PROVE LocalType'
<1>1. \E step \in PC \ Busy : Leave(w, step)
  BY DEF Done, Throw, PC, Busy
<1> QED BY <1>1, LeaveType

\* What people and Square do.
LEMMA TypeWorld ==
    ASSUME TypeInv,
           \/ \E a \in Attempt : Launch(a) \/ Lapse(a) \/ Dismiss(a) \/ Answer(a)
           \/ \E p \in Appt : ManualPay(p) \/ CollectRefused(p)
           \/ \E o \in Order, a \in Attempt : Place(o, a)
           \/ \E o \in Order : PlaceForeign(o) \/ Capture(o) \/ RefundFirst(o)
    PROVE  TypeInv'
<1> USE DEF TypeInv
<1>1. LocalType'
  <2>1. UNCHANGED local
    BY DEF Launch, Lapse, Dismiss, Answer, ManualPay, CollectRefused, Place, PlaceForeign, Capture,
           RefundFirst
  <2> QED BY <2>1 DEF local, LocalType, Local
<1>2. RowType'
  <2>1. ASSUME NEW a \in Attempt, Launch(a) \/ Lapse(a) \/ Dismiss(a) \/ Answer(a) PROVE RowType'
    BY <2>1 DEF Launch, Lapse, Dismiss, Answer, RowType, Put, Status, Active, row
  <2>2. ASSUME NEW p \in Appt, ManualPay(p) \/ CollectRefused(p) PROVE RowType'
    BY <2>2 DEF ManualPay, CollectRefused, RowType, Status, Unresolved, Expired
  <2>3. CASE UNCHANGED row
    BY <2>3 DEF RowType, row
  <2> QED BY <2>1, <2>2, <2>3 DEF Place, PlaceForeign, Capture, RefundFirst
<1>3. WorldType'
  <2>1. ASSUME NEW a \in Attempt, Launch(a) \/ Lapse(a) \/ Dismiss(a) PROVE WorldType'
    BY <2>1 DEF Launch, Lapse, Dismiss, WorldType, Said, ledger, square, local
  <2>2. ASSUME NEW a \in Attempt, Answer(a) PROVE WorldType'
    BY <2>2 DEF Answer, WorldType, Said, ledger, local
  <2>3. ASSUME NEW p \in Appt, ManualPay(p) \/ CollectRefused(p) PROVE WorldType'
    BY <2>3 DEF ManualPay, CollectRefused, WorldType, ledger, square, local
  <2>4. ASSUME NEW o \in Order, NEW a \in Attempt, Place(o, a) PROVE WorldType'
    BY <2>4 DEF Place, WorldType, ledger, local
  <2>5. ASSUME NEW o \in Order, PlaceForeign(o) \/ Capture(o) \/ RefundFirst(o) PROVE WorldType'
    BY <2>5 DEF PlaceForeign, Capture, RefundFirst, Import, WorldType, ledger, local, square
  <2> QED BY <2>1, <2>2, <2>3, <2>4, <2>5
<1> QED BY <1>1, <1>2, <1>3

LEMMA TypeCallback ==
    ASSUME TypeInv, NEW w \in Request,
           \/ \E a \in Attempt : Prepare(w, a) \/ TakeOver(w, a) \/ OwnerRetry(w, a)
           \/ \E o \in Order : Event(w, o)
           \/ Record(w) \/ Dispatch(w)
    PROVE  TypeInv'
<1> USE DEF TypeInv
<1>w. w \in Process
  BY DEF Process
<1>1. ASSUME NEW a \in Attempt, Prepare(w, a) PROVE TypeInv'
  <2>1. RowType'
    BY <1>1 DEF Prepare, Names, RowType
  <2>2. blank' \in [Process -> BOOLEAN]
    BY <1>1, <1>w DEF Prepare, LocalType
  <2>3. \/ said[a] \in Order /\ Enter(w, "return", a, said[a], "dispatch")
        \/ Enter(w, "return", a, None, "record")
    BY <1>1 DEF Prepare, Names
  <2>4. LocalType'
    BY <1>1, <1>w, <2>2, <2>3, EnterType DEF Prepare
  <2> QED BY <1>1, <2>1, <2>4 DEF Prepare, WorldType, ledger, square
<1>2. ASSUME NEW a \in Attempt, TakeOver(w, a) PROVE TypeInv'
  BY <1>2 DEF TakeOver, Put, RowType, Status, Active, WorldType, LocalType, Local, ledger, square, local
<1>3. ASSUME NEW a \in Attempt, OwnerRetry(w, a) PROVE TypeInv'
  <2>1. LocalType'
    BY <1>3, <1>w, EnterType DEF OwnerRetry, LocalType
  <2> QED BY <1>3, <2>1 DEF OwnerRetry, RowType, WorldType, row, ledger, square
<1>4. ASSUME NEW o \in Order, Event(w, o) PROVE TypeInv'
  <2>1. LocalType'
    BY <1>4, <1>w, EnterType DEF Event, Resolve, Targets, LocalType, Local, WorldType
  <2>2. WorldType'
    BY <1>4 DEF Event, Resolve, Import, WorldType, square
  <2> QED BY <1>4, <2>1, <2>2 DEF Event, RowType, row
<1>5. CASE Record(w)
  <2>1. att[w] \in Attempt
    BY <1>5, <1>w DEF Record, LocalType, Local, Busy
  <2>2. LocalType' /\ todo' \in SUBSET Attempt /\ UNCHANGED found
    BY <1>5, <1>w, DoneType DEF Record, Done, Throw, WorldType
  <2>3. RowType'
    BY <1>5, <2>1 DEF Record, Outcome, Put, RowType, Status, Active
  <2> QED BY <1>5, <2>2, <2>3 DEF Record, WorldType, ledger, square
<1>6. CASE Dispatch(w)
  <2>1. att[w] \in Attempt /\ ord[w] \in Order
    BY <1>6, <1>w DEF Dispatch, LocalType, Local, Busy
  <2>2. LocalType'
    BY <1>6, <1>w, <2>1, DoneType, StepType DEF Dispatch, PC, LocalType
  <2>3. todo' \in SUBSET Attempt /\ UNCHANGED found
    BY <1>6 DEF Dispatch, Throw, WorldType
  <2>4. RowType'
    BY <1>6, <2>1 DEF Dispatch, Put, RowType, Status, Active
  <2> QED BY <1>6, <2>2, <2>3, <2>4 DEF Dispatch, WorldType, ledger, square
<1> QED BY <1>1, <1>2, <1>3, <1>4, <1>5, <1>6

LEMMA TypeSweep ==
    ASSUME TypeInv,
           \/ SweepExpire \/ SweepSelect \/ SweepList \/ SweepEnd
           \/ \E a \in Attempt : SweepVisit(a)
           \/ \E o \in Order : SweepImport(o)
    PROVE  TypeInv'
<1> USE DEF TypeInv
<1>w. Sweep \in Process
  BY DEF Process
<1>1. CASE SweepExpire \/ SweepSelect \/ SweepList \/ SweepEnd
  <2>1. \E step \in PC \ Busy : To(Sweep, step)
    BY <1>1 DEF SweepExpire, SweepSelect, SweepList, SweepEnd, PC, Busy
  <2>2. LocalType'
    BY <1>1, <1>w, <2>1 DEF SweepExpire, SweepSelect, SweepList, SweepEnd, To, LocalType, Local, Busy
  <2>3. RowType'
    BY <1>1 DEF SweepExpire, SweepSelect, SweepList, SweepEnd, Expired, RowType, Status, Unresolved, row
  <2>4. todo' \in SUBSET Attempt /\ found' \in SUBSET Order
    BY <1>1 DEF SweepExpire, SweepSelect, SweepList, SweepEnd, WorldType
  <2>5. UNCHANGED <<ledger, square, faults>>
    BY <1>1 DEF SweepExpire, SweepSelect, SweepList, SweepEnd
  <2> QED BY <2>2, <2>3, <2>4, <2>5 DEF WorldType, ledger, square
<1>2. ASSUME NEW a \in Attempt, SweepVisit(a) PROVE TypeInv'
  <2>1. LocalType'
    BY <1>2, <1>w, EnterType DEF SweepVisit, LocalType, RowType
  <2> QED BY <1>2, <2>1 DEF SweepVisit, RowType, WorldType, row, ledger, square
<1>3. ASSUME NEW o \in Order, SweepImport(o) PROVE TypeInv'
  <2>1. LocalType'
    BY <1>3, <1>w, EnterType DEF SweepImport, Resolve, Targets, LocalType, Local, WorldType
  <2> QED BY <1>3, <2>1 DEF SweepImport, Resolve, Import, RowType, WorldType, row, square
<1> QED BY <1>1, <1>2, <1>3

LEMMA TypeReconcile ==
    ASSUME TypeInv, NEW w \in Process, Reconcile(w) \/ Die(w)
    PROVE  TypeInv'
<1> USE DEF TypeInv
<1>1. CASE Match(w)
  <2>1. att[w] \in Attempt /\ ord[w] \in Order
    BY <1>1 DEF Match, LocalType, Local, Busy
  <2>2. LocalType'
    BY <1>1, <2>1, DoneType, StepType DEF Match, PC, LocalType
  <2>3. WorldType'
    BY <1>1, <2>1 DEF Match, Import, Done, WorldType, square
  <2> QED BY <1>1, <2>2, <2>3 DEF Match, RowType, row
<1>2. CASE Begin(w)
  <2>1. att[w] \in Attempt
    BY <1>2 DEF Begin, LocalType, Local, Busy
  <2>2. Wanted(w) \in Order \cup {None}
    BY <2>1 DEF Wanted, LocalType, RowType
  <2>3. CASE Done(w)
    BY <1>2, <2>3, DoneType DEF Begin, Done, RowType, WorldType, row, ledger, square
  <2>4. CASE ~Done(w)
    <3>1. LocalType'
      BY <1>2, <2>1, <2>2, <2>4, StepType DEF Begin, PC, LocalType
    <3> QED BY <1>2, <2>4, <3>1 DEF Begin, RowType, WorldType, row, ledger, square
  <2> QED BY <2>3, <2>4
<1>3. CASE Ask(w)
  <2>1. att[w] \in Attempt /\ ord[w] \in Order
    BY <1>3 DEF Ask, LocalType, Local, Busy
  <2>2. \E answer \in {"verified", "pending", "mismatch"} : Answers(w, answer)
    BY <1>3 DEF Ask
  <2>3. LocalType'
    BY <1>3, <2>1, <2>2, StepType DEF Ask, Answers, PC, LocalType
  <2>4. faults' \in 0 .. MaxFaults
    BY <1>3, FaultAssumption DEF Ask, WorldType
  <2> QED BY <1>3, <2>3, <2>4 DEF Ask, RowType, WorldType, row, ledger, square
<1>4. CASE Confirm(w) \/ CommitUnverified(w) \/ CommitVerified(w)
  <2>1. att[w] \in Attempt
    BY <1>4 DEF Confirm, CommitUnverified, CommitVerified, LocalType, Local, Busy
  <2>2. LocalType' /\ todo' \in SUBSET Attempt /\ UNCHANGED found
    BY <1>4, DoneType DEF Confirm, CommitUnverified, CommitVerified, Write, Refuse, Skip, Done, Throw,
                          WorldType
  <2>3. UNCHANGED <<opBy, lapsed, dismissed, cash, square, faults>>
    BY <1>4 DEF Confirm, CommitUnverified, CommitVerified, ledger
  <2>4. op' \in [Attempt -> {"none", "requested", "dispatched", "finished"}] /\ nonce' \in [Attempt -> BOOLEAN]
    BY <1>4, <2>1 DEF Confirm, CommitUnverified, CommitVerified, Write, Refuse, Skip, Finish, RowType
  <2>5. status' \in [Attempt -> Status] /\ order' \in [Attempt -> Order \cup {None}]
    BY <1>4, <2>1 DEF Confirm, CommitUnverified, CommitVerified, Write, Refuse, Skip, Put, RowType,
                      LocalType, Status, Active, Unresolved
  <2>6. payment' \in [Order -> Attempt \cup {None, Review}]
    BY <1>4, <2>1 DEF Confirm, CommitUnverified, CommitVerified, Write, Refuse, Skip, WorldType,
                      ledger
  <2> QED BY <2>2, <2>3, <2>4, <2>5, <2>6 DEF RowType, WorldType, square
<1>5. CASE Die(w)
  <2>1. LocalType'
    BY <1>5, LeaveType DEF Die, PC, Busy
  <2>2. WorldType'
    BY <1>5, FaultAssumption DEF Die, WorldType, ledger, square
  <2> QED BY <1>5, <2>1, <2>2 DEF Die, RowType, row
<1> QED BY <1>1, <1>2, <1>3, <1>4, <1>5 DEF Reconcile

LEMMA TypeStep == TypeInv /\ [Next]_vars => TypeInv'
<1> SUFFICES ASSUME TypeInv, [Next]_vars PROVE TypeInv'
  OBVIOUS
<1>1. CASE UNCHANGED vars
  BY <1>1 DEF vars, row, ledger, square, local, TypeInv, RowType, WorldType, LocalType, Local
<1> QED BY <1>1, TypeWorld, TypeCallback, TypeSweep, TypeReconcile DEF Next

LEMMA TypeAlways == Spec => []TypeInv
BY TypeInit, TypeStep, PTL DEF Spec

\* Every variable has a value the columns and the code allow.
THEOREM TypeCorrect == Spec => []TypeOK
BY TypeAlways, TypeIsOK, PTL

-----------------------------------------------------------------------------
(* What is known of Square is not forgotten.                                 *)

\* An attempt that was never launched has left no trace, and the callback that
\* goes on to dispatch has written its order.
Unlaunched ==
    \A a \in Attempt : status[a] = "none" =>
        order[a] = None /\ said[a] = "none" /\ Chargeless(a)
Claimed == \A w \in Process : pc[w] = "dispatch" => order[att[w]] = ord[w]
RefInv == Unlaunched /\ Claimed

OrdersStay == \A a \in Attempt : order[a] # None => order'[a] = order[a]
RowsStay == \A o \in Order : payment[o] # None => payment'[o] = payment[o]

\* Only two steps lead a process to where it acts on what it has learned: the
\* callback's preparation and the call of Square.
Keeps(v) ==
    /\ pc'[v] = pc[v] /\ att'[v] = att[v] /\ ord'[v] = ord[v]
    /\ seen'[v] = seen[v] /\ blank'[v] = blank[v]
Elsewhere(v) == pc'[v] \notin {"record", "dispatch", "commit"}

LEMMA LocalMoves ==
    ASSUME TypeInv, Next, NEW v \in Process
    PROVE  \/ Keeps(v)
           \/ Elsewhere(v)
           \/ v \in Request /\ \E a \in Attempt : Prepare(v, a)
           \/ Ask(v)
<1> USE DEF TypeInv, LocalType
<1> DEFINE Stops(w) == \E step \in PC \ Busy : Leave(w, step)
           Takes(w) == \E step \in {"match", "begin"}, how \in {"check", "import", "visit"},
                          a \in Attempt, o \in Order \cup {None} :
                          Enter(w, how, a, o, step) /\ UNCHANGED <<seen, blank>>
           Goes(w) == \E step \in {"begin", "ask", "confirm", "select", "attempts", "payments", "idle"} :
                          /\ To(w, step) /\ UNCHANGED <<att, seen, blank>>
                          /\ \A q \in Process \ {w} : ord'[q] = ord[q]
<1>1. ASSUME NEW w \in Process, Stops(w) \/ Takes(w) \/ Goes(w)
      PROVE  Keeps(v) \/ Elsewhere(v)
  <2>1. CASE Stops(w)
    BY <2>1 DEF Leave, To, Busy, Keeps, Elsewhere
  <2>2. CASE Takes(w)
    BY <2>2 DEF Enter, To, Keeps, Elsewhere
  <2>3. CASE Goes(w)
    BY <2>3 DEF To, Keeps, Elsewhere
  <2> QED BY <1>1, <2>1, <2>2, <2>3
<1>2. CASE UNCHANGED <<pc, att, ord, seen, blank>>
  BY <1>2 DEF Keeps
<1>3. ASSUME NEW w \in Process, Reconcile(w) \/ Die(w), ~Ask(w) PROVE Stops(w) \/ Goes(w)
  BY <1>3 DEF Reconcile, Die, Match, Begin, Confirm, CommitUnverified, CommitVerified,
              Write, Refuse, Skip, Done, Throw, PC, Busy
<1>4. ASSUME NEW w \in Process, Ask(w) PROVE Ask(v) \/ Keeps(v)
  <2>1. w = v \/ Keeps(v)
    BY <1>4 DEF Ask, Answers, To, Keeps
  <2> QED BY <1>4, <2>1
<1>5. ASSUME NEW w \in Request, Record(w) \/ Dispatch(w) PROVE Stops(w) \/ Goes(w)
  BY <1>5 DEF Record, Dispatch, Done, Throw, PC, Busy
<1>6. ASSUME NEW w \in Request, NEW o \in Order, Event(w, o)
      PROVE  UNCHANGED <<pc, att, ord, seen, blank>> \/ Takes(w)
  BY <1>6 DEF Event, Resolve, Targets
<1>7. ASSUME NEW o \in Order, SweepImport(o)
      PROVE  UNCHANGED <<pc, att, ord, seen, blank>> \/ Takes(Sweep)
  BY <1>7 DEF SweepImport, Resolve, Targets
<1>8. ASSUME NEW w \in Request, NEW a \in Attempt, TakeOver(w, a) \/ OwnerRetry(w, a)
      PROVE  UNCHANGED <<pc, att, ord, seen, blank>> \/ Takes(w)
  BY <1>8 DEF TakeOver, OwnerRetry, local
<1>9. ASSUME NEW w \in Request, NEW a \in Attempt, Prepare(w, a)
      PROVE  (v \in Request /\ Prepare(v, a)) \/ Keeps(v)
  <2>1. w = v \/ Keeps(v)
    BY <1>9 DEF Prepare, Enter, To, Keeps
  <2> QED BY <1>9, <2>1
<1>10. ASSUME NEW a \in Attempt, SweepVisit(a) PROVE Takes(Sweep)
  <2>1. order[a] \in Order \cup {None}
    BY DEF RowType
  <2> QED BY <1>10, <2>1 DEF SweepVisit
<1>11. ASSUME SweepExpire \/ SweepSelect \/ SweepList \/ SweepEnd PROVE Goes(Sweep)
  BY <1>11 DEF SweepExpire, SweepSelect, SweepList, SweepEnd
<1>12. ASSUME \/ \E a \in Attempt : Launch(a) \/ Lapse(a) \/ Dismiss(a) \/ Answer(a)
              \/ \E p \in Appt : ManualPay(p) \/ CollectRefused(p)
              \/ \E o \in Order, a \in Attempt : Place(o, a)
              \/ \E o \in Order : PlaceForeign(o) \/ Capture(o) \/ RefundFirst(o)
       PROVE  UNCHANGED <<pc, att, ord, seen, blank>>
  BY <1>12 DEF Launch, Lapse, Dismiss, Answer, ManualPay, CollectRefused, Place, PlaceForeign,
               Capture, RefundFirst, local
<1>p. Request \subseteq Process /\ Sweep \in Process
  BY DEF Process
<1> HIDE DEF Stops, Takes, Goes
<1> QED
  BY <1>1, <1>2, <1>3, <1>4, <1>5, <1>6, <1>7, <1>8, <1>9, <1>10, <1>11, <1>12, <1>p DEF Next

LEMMA UnlaunchedStep ==
    ASSUME TypeInv, RefInv, Next
    PROVE  OrdersStay /\ RowsStay /\ Unlaunched'
<1> USE DEF TypeInv, RowType, WorldType
<1>1. ASSUME NEW a \in Attempt, Launch(a) PROVE OrdersStay /\ RowsStay /\ Unlaunched'
  <2>1. order[a] = None
    BY <1>1, HomeAssumption DEF Launch, Collectable, Retryable, AttemptsOf, Settled, RefInv, Unlaunched
  <2>2. Unlaunched'
    BY <1>1 DEF Launch, Put, RefInv, Unlaunched, Chargeless
  <2> QED BY <1>1, <2>1, <2>2 DEF Launch, OrdersStay, RowsStay, ledger
<1>2. ASSUME NEW a \in Attempt, Lapse(a) \/ Dismiss(a) \/ Answer(a)
      PROVE  OrdersStay /\ RowsStay /\ Unlaunched'
  BY <1>2 DEF Lapse, Dismiss, Answer, Put, Unresolved, OrdersStay, RowsStay, RefInv, Unlaunched,
              Chargeless, ledger, square, row
<1>3. ASSUME NEW p \in Appt, ManualPay(p) \/ CollectRefused(p)
      PROVE  OrdersStay /\ RowsStay /\ Unlaunched'
  BY <1>3 DEF ManualPay, CollectRefused, Expired, Retryable, OrdersStay, RowsStay, RefInv, Unlaunched,
              Chargeless, ledger, square
<1>4. ASSUME NEW o \in Order, \/ PlaceForeign(o) \/ Capture(o) \/ RefundFirst(o)
                              \/ \E a \in Attempt : Place(o, a)
      PROVE  OrdersStay /\ RowsStay /\ Unlaunched'
  BY <1>4, NameAssumption DEF PlaceForeign, Capture, RefundFirst, Place, Import, OrdersStay, RowsStay,
              RefInv, Unlaunched, Chargeless, ledger, square, row
<1>5. ASSUME NEW w \in Request, NEW a \in Attempt, Prepare(w, a) \/ TakeOver(w, a) \/ OwnerRetry(w, a)
      PROVE  OrdersStay /\ RowsStay /\ Unlaunched'
  BY <1>5, NameAssumption DEF Prepare, TakeOver, OwnerRetry, Binding, Names, Put, OrdersStay, RowsStay,
              RefInv, Unlaunched, Chargeless, ledger, square, row
<1>6. ASSUME NEW o \in Order, SweepImport(o) \/ \E w \in Request : Event(w, o)
      PROVE  OrdersStay /\ RowsStay /\ Unlaunched'
  BY <1>6 DEF SweepImport, Event, Resolve, Import, OrdersStay, RowsStay,
              RefInv, Unlaunched, Chargeless, square, row
<1>7. ASSUME NEW w \in Request, Record(w) \/ Dispatch(w)
      PROVE  OrdersStay /\ RowsStay /\ Unlaunched'
  <2>w. w \in Process
    BY DEF Process
  <2>1. Dispatch(w) => order' = order \/ order' = [order EXCEPT ![att[w]] = order[att[w]]]
    BY <2>w DEF Dispatch, RefInv, Claimed
  <2>2. OrdersStay /\ RowsStay
    BY <1>7, <2>1 DEF Record, Dispatch, OrdersStay, RowsStay, ledger
  <2>3. \A a \in Attempt : status'[a] = "none" => status[a] = "none" /\ order'[a] = order[a]
    BY <1>7, <2>1 DEF Record, Dispatch, Outcome, Put
  <2> QED BY <1>7, <2>2, <2>3 DEF Record, Dispatch, RefInv, Unlaunched, Chargeless, square
<1>8. CASE \/ SweepExpire \/ SweepSelect \/ SweepList \/ SweepEnd \/ \E a \in Attempt : SweepVisit(a)
  BY <1>8 DEF SweepExpire, SweepSelect, SweepList, SweepEnd, SweepVisit, Expired, OrdersStay, RowsStay,
              RefInv, Unlaunched, Chargeless, ledger, square, row
<1>9. ASSUME NEW w \in Process, Match(w) \/ Begin(w) \/ Ask(w) \/ Confirm(w) \/ Die(w)
      PROVE  OrdersStay /\ RowsStay /\ Unlaunched'
  BY <1>9 DEF Match, Begin, Ask, Confirm, Die, Import, OrdersStay, RowsStay, RefInv, Unlaunched,
              Chargeless, ledger, square, row
<1>10. ASSUME NEW w \in Process, CommitUnverified(w) \/ CommitVerified(w)
       PROVE  OrdersStay /\ RowsStay /\ Unlaunched'
  <2>a. att[w] \in Attempt /\ ord[w] \in Order
    BY <1>10 DEF CommitUnverified, CommitVerified, LocalType, Local, Busy
  <2>1. OrdersStay
    BY <1>10, <2>a DEF CommitUnverified, CommitVerified, Write, Refuse, Skip, Fence, OrdersStay
  <2>2. RowsStay
    BY <1>10, <2>a DEF CommitUnverified, CommitVerified, Write, Refuse, Skip, Taken, RowsStay, ledger
  <2>3. \A a \in Attempt : status'[a] = "none" => status[a] = "none" /\ order'[a] = order[a]
    BY <1>10, <2>a DEF CommitUnverified, CommitVerified, Write, Refuse, Skip, Put
  <2> QED BY <1>10, <2>1, <2>2, <2>3
          DEF CommitUnverified, CommitVerified, RefInv, Unlaunched, Chargeless, square
<1> QED BY <1>1, <1>2, <1>3, <1>4, <1>5, <1>6, <1>7, <1>8, <1>9, <1>10 DEF Next, Reconcile

LEMMA RefStep ==
    ASSUME TypeInv, RefInv, Next
    PROVE  RefInv' /\ OrdersStay /\ RowsStay
<1>1. OrdersStay /\ RowsStay /\ Unlaunched'
  BY UnlaunchedStep
<1>2. ASSUME NEW w \in Process, pc'[w] = "dispatch" PROVE order'[att'[w]] = ord'[w]
  <2>1. CASE Keeps(w)
    BY <1>1, <1>2, <2>1, NameAssumption
       DEF Keeps, RefInv, Claimed, OrdersStay, TypeInv, LocalType, Local, Busy
  <2>2. CASE w \in Request /\ \E a \in Attempt : Prepare(w, a)
    BY <1>2, <2>2 DEF Prepare, Enter, To, TypeInv, LocalType, RowType
  <2>3. CASE Ask(w)
    BY <1>2, <2>3 DEF Ask, Answers, To, TypeInv, LocalType
  <2> QED BY <1>2, <2>1, <2>2, <2>3, LocalMoves DEF Elsewhere
<1> QED BY <1>1, <1>2 DEF RefInv, Claimed

LEMMA RefAlways == Spec => []RefInv
<1>1. Init => RefInv
  BY NameAssumption DEF Init, RefInv, Unlaunched, Chargeless, Claimed
<1>2. TypeInv /\ RefInv /\ [Next]_vars => RefInv'
  <2>1. RefInv /\ UNCHANGED vars => RefInv'
    BY DEF RefInv, Unlaunched, Chargeless, Claimed, vars, row, square, local
  <2> QED BY <2>1, RefStep
<1> QED BY <1>1, <1>2, TypeAlways, PTL DEF Spec

\* What an attempt knows of Square, and what the ledger says of a payment, is
\* never taken back: the fence of every commit, the callback's binding and the
\* safety of a relaunch together.
THEOREM ReferencesAreKept == Spec => ReferencesStay
<1>1. TypeInv /\ RefInv /\ [Next]_vars =>
        [/\ \A a \in Attempt : order[a] # None => order'[a] = order[a]
         /\ \A o \in Order : payment[o] # None => payment'[o] = payment[o]]_vars
  BY RefStep DEF OrdersStay, RowsStay
<1> QED BY <1>1, TypeAlways, RefAlways, PTL DEF Spec, ReferencesStay

-----------------------------------------------------------------------------
(* The ledger is backed by charges.                                          *)

\* An answer of Square stays true: notes and charges are not taken back.
Good(o, a) == note[o] = a /\ o \in captured \cap exact

Answered ==
    \A w \in Process : pc[w] = "commit" /\ seen[w] = "verified" => Good(ord[w], att[w])
BindInv == Answered /\ LedgerIsBacked

LEMMA SquareMoves ==
    ASSUME TypeInv, Next
    PROVE  /\ \A o \in Order : note[o] # None => note'[o] = note[o]
           /\ captured \subseteq captured' /\ exact' = exact
<1> USE DEF TypeInv, WorldType
<1>1. CASE \E o \in Order : PlaceForeign(o) \/ Capture(o) \/ \E a \in Attempt : Place(o, a)
  BY <1>1 DEF PlaceForeign, Capture, Place
<1>2. CASE UNCHANGED <<note, captured, exact>>
  BY <1>2
<1>3. ASSUME NEW w \in Process, Reconcile(w) \/ Die(w) PROVE UNCHANGED <<note, captured, exact>>
  BY <1>3 DEF Reconcile, Die, Match, Begin, Ask, Confirm, CommitUnverified, CommitVerified, square
<1> QED BY <1>1, <1>2, <1>3
        DEF Next, Launch, Lapse, Dismiss, Answer, ManualPay, CollectRefused, RefundFirst, Prepare,
            TakeOver, OwnerRetry, Event, Record, Dispatch, SweepExpire, SweepSelect, SweepList,
            SweepEnd, SweepVisit, SweepImport, square

LEMMA AnsweredStep ==
    ASSUME TypeInv, Answered, Next
    PROVE  Answered'
<1> SUFFICES ASSUME NEW w \in Process, pc'[w] = "commit", seen'[w] = "verified"
             PROVE  Good(ord[w], att[w])'
  BY DEF Answered, Good
<1>1. CASE Keeps(w)
  <2>1. Good(ord[w], att[w]) /\ att[w] \in Attempt /\ ord[w] \in Order
    BY <1>1 DEF Keeps, Answered, TypeInv, LocalType, Local, Busy
  <2> QED BY <1>1, <2>1, SquareMoves, NameAssumption DEF Keeps, Good
<1>2. CASE Ask(w)
  <2>1. Good(ord[w], att[w])
    BY <1>2 DEF Ask, Answers, Good, TypeInv, LocalType
  <2> QED BY <1>2, <2>1 DEF Ask, Good, square
<1>3. CASE w \in Request /\ \E a \in Attempt : Prepare(w, a)
  BY <1>3 DEF Prepare, Enter, To, TypeInv, LocalType
<1> QED BY <1>1, <1>2, <1>3, LocalMoves DEF Elsewhere

\* The two halves of LedgerIsBacked move apart: a row is bound by a verified
\* commit only, and it alone completes an attempt.
LEMMA Binds ==
    ASSUME TypeInv, RefInv, Answered, Next, NEW o \in Order, NEW a \in Attempt,
           payment'[o] = a
    PROVE  payment[o] = a \/ (Good(o, a) /\ order'[a] = o)
<1> USE DEF TypeInv, WorldType
<1>1. CASE payment' = payment
  BY <1>1
<1>2. CASE \E x \in Order : Import(x)
  BY <1>2, NameAssumption DEF Import
<1>3. ASSUME NEW w \in Process, CommitVerified(w)
      PROVE  payment[o] = a \/ (Good(o, a) /\ order'[a] = o)
  <2>1. att[w] \in Attempt /\ ord[w] \in Order /\ Good(ord[w], att[w])
    BY <1>3 DEF CommitVerified, Answered, LocalType, Local, Busy
  <2>2. \/ payment' = payment
        \/ payment' = [payment EXCEPT ![ord[w]] = att[w]] /\ order' = [order EXCEPT ![att[w]] = ord[w]]
    BY <1>3 DEF CommitVerified, Write, Refuse, Skip
  <2> QED BY <2>1, <2>2 DEF RowType
<1>4. ASSUME NEW w \in Process, Reconcile(w) \/ Die(w), ~CommitVerified(w)
      PROVE  payment' = payment \/ \E x \in Order : Import(x)
  BY <1>4 DEF Reconcile, Die, Match, Begin, Ask, Confirm, CommitUnverified, Write, Refuse, Skip,
              ledger, LocalType, Local, Busy
<1>5. ASSUME NEW x \in Order, SweepImport(x) \/ RefundFirst(x) \/ \E w \in Request : Event(w, x)
      PROVE  payment' = payment \/ Import(x)
  BY <1>5 DEF SweepImport, RefundFirst, Event, Resolve
<1> QED BY <1>1, <1>2, <1>3, <1>4, <1>5
        DEF Next, Launch, Lapse, Dismiss, Answer, ManualPay, CollectRefused, Place, PlaceForeign,
            Capture, Prepare, TakeOver, OwnerRetry, Record, Dispatch, SweepExpire, SweepSelect,
            SweepList, SweepEnd, SweepVisit, ledger

LEMMA Completes ==
    ASSUME TypeInv, Next, NEW a \in Attempt, status'[a] = "completed"
    PROVE  status[a] = "completed" \/ \E o \in Order : payment'[o] = a
<1> USE DEF TypeInv, RowType, WorldType
<1>1. CASE UNCHANGED status
  BY <1>1
<1>2. CASE \E b \in Attempt, s \in Status \ {"completed"} : Put(b, s)
  BY <1>2 DEF Put
<1>3. CASE \E s \in SUBSET Attempt : status' = Expired(s)
  BY <1>3 DEF Expired
<1>4. ASSUME NEW p \in Appt, ManualPay(p) PROVE status[a] = "completed"
  BY <1>4 DEF ManualPay
<1>5. ASSUME NEW w \in Process, CommitVerified(w)
      PROVE  status[a] = "completed" \/ \E o \in Order : payment'[o] = a
  <2>1. att[w] \in Attempt /\ ord[w] \in Order
    BY <1>5 DEF CommitVerified, LocalType, Local, Busy
  <2> QED BY <1>5, <2>1 DEF CommitVerified, Write, Refuse, Skip, Put
<1>6. ASSUME NEW w \in Process, Reconcile(w) \/ Die(w), ~CommitVerified(w)
      PROVE  UNCHANGED status \/ \E b \in Attempt, s \in Status \ {"completed"} : Put(b, s)
  BY <1>6 DEF Reconcile, Die, Match, Begin, Ask, Confirm, CommitUnverified, Write, Refuse, Skip, row,
              LocalType, Local, Busy, Status, Active, Unresolved
<1>7. ASSUME NEW w \in Request, Record(w) \/ Dispatch(w)
      PROVE  UNCHANGED status \/ \E b \in Attempt, s \in Status \ {"completed"} : Put(b, s)
  BY <1>7 DEF Record, Dispatch, Outcome, LocalType, Local, Busy, Process, Status, Active
<1>8. ASSUME NEW b \in Attempt, Launch(b) \/ Dismiss(b) \/ \E w \in Request : TakeOver(w, b)
      PROVE  \E s \in Status \ {"completed"} : Put(b, s)
  BY <1>8 DEF Launch, Dismiss, TakeOver, Status, Active
<1>9. ASSUME SweepExpire \/ \E p \in Appt : CollectRefused(p)
      PROVE  \E s \in SUBSET Attempt : status' = Expired(s)
  BY <1>9 DEF SweepExpire, CollectRefused, AttemptsOf
<1> QED BY <1>1, <1>2, <1>3, <1>4, <1>5, <1>6, <1>7, <1>8, <1>9
        DEF Next, Lapse, Answer, Place, PlaceForeign, Capture, RefundFirst, Prepare, OwnerRetry, Event,
            SweepSelect, SweepList, SweepEnd, SweepVisit, SweepImport, row

LEMMA BindStep ==
    ASSUME TypeInv, RefInv, BindInv, Next
    PROVE  BindInv'
<1>1. Answered'
  BY AnsweredStep DEF BindInv
<1>2. ASSUME NEW o \in Order, NEW a \in Attempt, payment'[o] = a
      PROVE  note'[o] = a /\ o \in captured' \cap exact' /\ order'[a] = o
  <2>1. Good(o, a) /\ order'[a] = o
    BY <1>2, Binds, RefStep, NameAssumption DEF BindInv, LedgerIsBacked, Good, OrdersStay
  <2> QED BY <2>1, SquareMoves, NameAssumption DEF Good
<1>3. ASSUME NEW a \in Attempt, status'[a] = "completed" PROVE \E o \in Order : payment'[o] = a
  BY <1>3, Completes, RefStep, NameAssumption DEF BindInv, LedgerIsBacked, RowsStay
<1> QED BY <1>1, <1>2, <1>3 DEF BindInv, LedgerIsBacked

LEMMA BindAlways == Spec => []BindInv
<1>1. Init => BindInv
  BY NameAssumption DEF Init, BindInv, Answered, LedgerIsBacked
<1>2. TypeInv /\ RefInv /\ BindInv /\ [Next]_vars => BindInv'
  <2>1. BindInv /\ UNCHANGED vars => BindInv'
    BY DEF BindInv, Answered, Good, LedgerIsBacked, vars, row, ledger, square, local
  <2> QED BY <2>1, BindStep
<1> QED BY <1>1, <1>2, TypeAlways, RefAlways, PTL DEF Spec

\* Every bound row of the ledger stands for a charge that Square completed for
\* that attempt, and every completed attempt has one, whichever of the four
\* sides reconciles it and whatever the attempt has become since it was read.
THEOREM LedgerIsTrue == Spec => []LedgerIsBacked
BY BindAlways, PTL DEF BindInv

-----------------------------------------------------------------------------
(* Nobody is charged a second time.                                          *)

\* Where the phone denied a charge, where a callback is about to record that
\* nothing was charged, and where an attempt is free to be launched again,
\* there is no order and the phone can no longer place one.
Heard == \A a \in Attempt : said[a] = "canceled" => Chargeless(a)
Denied ==
    \A w \in Process :
        pc[w] = "record" /\ blank[w] /\ Holds(w, "requested") => said[att[w]] = "canceled"
Free ==
    \A a \in Attempt :
        status[a] \in {"canceled", "retryable"} /\ order[a] = None /\ a \notin dismissed
        => Chargeless(a)
ChargeInv == Heard /\ Denied /\ Free

LEMMA ChargelessStays ==
    ASSUME TypeInv, Next, NEW a \in Attempt, Chargeless(a), ~Launch(a)
    PROVE  Chargeless(a)'
<1> USE DEF TypeInv, WorldType
<1>1. CASE UNCHANGED <<phone, note>>
  BY <1>1 DEF Chargeless
<1>2. ASSUME NEW b \in Attempt, Launch(b) PROVE Chargeless(a)'
  BY <1>2 DEF Launch, Chargeless
<1>3. ASSUME NEW b \in Attempt, Answer(b) PROVE Chargeless(a)'
  BY <1>3 DEF Answer, Chargeless
<1>4. ASSUME NEW o \in Order, PlaceForeign(o) \/ \E b \in Attempt : Place(o, b)
      PROVE  Chargeless(a)'
  BY <1>4, NameAssumption DEF PlaceForeign, Place, Chargeless
<1>5. ASSUME NEW w \in Process, Reconcile(w) \/ Die(w) PROVE UNCHANGED <<phone, note>>
  BY <1>5 DEF Reconcile, Die, Match, Begin, Ask, Confirm, CommitUnverified, CommitVerified, square
<1> QED BY <1>1, <1>2, <1>3, <1>4, <1>5
        DEF Next, Lapse, Dismiss, ManualPay, CollectRefused, Capture, RefundFirst, Prepare,
            TakeOver, OwnerRetry, Event, Record, Dispatch, SweepExpire, SweepSelect, SweepList,
            SweepEnd, SweepVisit, SweepImport, square

LEMMA SaidMoves ==
    ASSUME TypeInv, Next, NEW a \in Attempt
    PROVE  said'[a] = said[a] \/ Launch(a) \/ Answer(a)
<1> USE DEF TypeInv, WorldType
<1>1. ASSUME NEW b \in Attempt, Launch(b) \/ Answer(b)
      PROVE  said'[a] = said[a] \/ Launch(a) \/ Answer(a)
  <2>1. b = a \/ said'[a] = said[a]
    BY <1>1 DEF Launch, Answer
  <2> QED BY <1>1, <2>1
<1>2. ASSUME NEW w \in Process, Reconcile(w) \/ Die(w) PROVE said' = said
  BY <1>2 DEF Reconcile, Die, Match, Begin, Ask, Confirm, CommitUnverified, CommitVerified, square
<1> QED BY <1>1, <1>2
        DEF Next, Lapse, Dismiss, ManualPay, CollectRefused, Place, PlaceForeign, Capture, RefundFirst,
            Prepare, TakeOver, OwnerRetry, Event, Record, Dispatch, SweepExpire, SweepSelect,
            SweepList, SweepEnd, SweepVisit, SweepImport, square

LEMMA HoldMoves ==
    ASSUME TypeInv, Next, NEW a \in Attempt, NEW w \in Process,
           op'[a] = "requested", opBy'[a] = w
    PROVE  \/ op[a] = "requested" /\ opBy[a] = w
           \/ w \in Request /\ Prepare(w, a)
<1> USE DEF TypeInv, RowType
<1>1. CASE UNCHANGED <<op, opBy>>
  BY <1>1
<1>2. CASE \E b \in Attempt, phase \in {"none", "dispatched", "finished"} :
             op' = [op EXCEPT ![b] = phase] /\ \A c \in Attempt \ {b} : opBy'[c] = opBy[c]
  BY <1>2
<1>3. ASSUME NEW b \in Attempt, NEW v \in Request, Prepare(v, b)
      PROVE  \/ op[a] = "requested" /\ opBy[a] = w
             \/ w \in Request /\ Prepare(w, a)
  <2>1. CASE a = b
    <3>1. opBy'[a] = v
      BY <1>3, <2>1 DEF Prepare
    <3> QED BY <1>3, <2>1, <3>1
  <2>2. CASE a # b
    BY <1>3, <2>2 DEF Prepare
  <2> QED BY <2>1, <2>2
<1> DEFINE Drops == \E b \in Attempt, phase \in {"none", "dispatched", "finished"} :
                      op' = [op EXCEPT ![b] = phase] /\ \A c \in Attempt \ {b} : opBy'[c] = opBy[c]
<1>4. ASSUME NEW v \in Process, Reconcile(v) \/ Die(v) PROVE UNCHANGED <<op, opBy>> \/ Drops
  BY <1>4 DEF Reconcile, Die, Match, Begin, Ask, Confirm, CommitUnverified, CommitVerified, Write,
              Refuse, Skip, Finish, row, LocalType, Local, Busy
<1>5. ASSUME NEW v \in Request, Record(v) \/ Dispatch(v) PROVE UNCHANGED <<op, opBy>> \/ Drops
  BY <1>5 DEF Record, Dispatch, LocalType, Local, Busy, Process
<1>6. ASSUME NEW b \in Attempt, Launch(b) \/ \E v \in Request : TakeOver(v, b) PROVE Drops
  BY <1>6 DEF Launch, TakeOver
<1> QED BY <1>1, <1>2, <1>3, <1>4, <1>5, <1>6
        DEF Next, Lapse, Dismiss, Answer, ManualPay, CollectRefused, Place, PlaceForeign, Capture,
            RefundFirst, OwnerRetry, Event, SweepExpire, SweepSelect, SweepList, SweepEnd, SweepVisit,
            SweepImport, row

\* How an attempt gets closed.
Closed(a) == status[a] \in {"canceled", "retryable"}

LEMMA CloseMoves ==
    ASSUME TypeInv, Next, NEW a \in Attempt, Closed(a)'
    PROVE  \/ Closed(a) \/ a \in dismissed'
           \/ \E w \in Request : /\ Record(w) /\ att[w] = a /\ blank[w]
                                 /\ Holds(w, "requested")
<1> USE DEF TypeInv, RowType, Closed
<1>1. CASE UNCHANGED status
  BY <1>1
<1>2. CASE \E b \in Attempt, s \in Status \ {"canceled", "retryable"} : Put(b, s)
  BY <1>2 DEF Put
<1>3. CASE \E s \in SUBSET Attempt : status' = Expired(s)
  BY <1>3 DEF Expired
<1>4. ASSUME NEW p \in Appt, ManualPay(p) PROVE Closed(a)
  BY <1>4 DEF ManualPay, Retryable
<1>5. ASSUME NEW b \in Attempt, Dismiss(b) PROVE Closed(a) \/ a \in dismissed'
  BY <1>5 DEF Dismiss, Put
<1>6. ASSUME NEW w \in Request, Record(w), ~Closed(a)
      PROVE  att[w] = a /\ blank[w] /\ Holds(w, "requested")
  BY <1>6 DEF Record, Outcome, Put, LocalType, Local, Busy, Process
<1> DEFINE Other == \E b \in Attempt, s \in Status \ {"canceled", "retryable"} : Put(b, s)
<1>7. ASSUME NEW w \in Request, Dispatch(w) PROVE UNCHANGED status \/ Other
  BY <1>7 DEF Dispatch, LocalType, Local, Busy, Process, Status, Active
<1>8. ASSUME NEW b \in Attempt, Launch(b) \/ \E w \in Request : TakeOver(w, b) PROVE Other
  BY <1>8 DEF Launch, TakeOver, Status, Active
<1>9. ASSUME SweepExpire \/ \E p \in Appt : CollectRefused(p)
      PROVE  \E s \in SUBSET Attempt : status' = Expired(s)
  BY <1>9 DEF SweepExpire, CollectRefused, AttemptsOf
<1>10. ASSUME NEW w \in Process, Reconcile(w) \/ Die(w) PROVE UNCHANGED status \/ Other
  BY <1>10 DEF Reconcile, Die, Match, Begin, Ask, Confirm, CommitUnverified, CommitVerified, Write,
               Refuse, Skip, row, LocalType, Local, Busy, Status, Active, Unresolved
<1> QED BY <1>1, <1>2, <1>3, <1>4, <1>5, <1>6, <1>7, <1>8, <1>9, <1>10
        DEF Next, Lapse, Answer, Place, PlaceForeign, Capture, RefundFirst, Prepare, OwnerRetry, Event,
            SweepSelect, SweepList, SweepEnd, SweepVisit, SweepImport, row

LEMMA DismissedStay ==
    ASSUME Next PROVE dismissed \subseteq dismissed'
<1>1. ASSUME NEW w \in Process, Reconcile(w) \/ Die(w) PROVE UNCHANGED dismissed
  BY <1>1 DEF Reconcile, Die, Match, Begin, Ask, Confirm, CommitUnverified, CommitVerified, row
<1> QED BY <1>1
        DEF Next, Launch, Lapse, Dismiss, Answer, ManualPay, CollectRefused, Place, PlaceForeign,
            Capture, RefundFirst, Prepare, TakeOver, OwnerRetry, Event, Record, Dispatch, SweepExpire,
            SweepSelect, SweepList, SweepEnd, SweepVisit, SweepImport, row

LEMMA ChargeStep ==
    ASSUME TypeInv, RefInv, ChargeInv, Next
    PROVE  ChargeInv'
<1> USE DEF TypeInv
<1>1. ASSUME NEW a \in Attempt, said'[a] = "canceled" PROVE Chargeless(a)'
  <2>1. CASE said'[a] = said[a] /\ ~Launch(a)
    BY <1>1, <2>1, ChargelessStays DEF ChargeInv, Heard
  <2>2. CASE Launch(a)
    BY <1>1, <2>2 DEF Launch, WorldType
  <2>3. CASE Answer(a)
    BY <1>1, <2>3, NameAssumption DEF Answer, Chargeless, WorldType, ChargeInv, Heard
  <2> QED BY <2>1, <2>2, <2>3, SaidMoves
<1>2. ASSUME NEW w \in Process, pc'[w] = "record", blank'[w],
             op'[att'[w]] = "requested", opBy'[att'[w]] = w
      PROVE  said'[att'[w]] = "canceled"
  <2>1. CASE Keeps(w)
    <3>1. att[w] \in Attempt /\ pc[w] = "record" /\ blank[w] /\ att'[w] = att[w]
      BY <1>2, <2>1 DEF Keeps, LocalType, Local, Busy
    <3>2. op[att[w]] = "requested" /\ opBy[att[w]] = w
      BY <1>2, <3>1, HoldMoves DEF Prepare
    <3>3. said[att[w]] = "canceled"
      BY <3>1, <3>2 DEF ChargeInv, Denied, Holds
    <3>4. ~Launch(att[w])
      BY <1>2, <3>1 DEF Launch, RowType
    <3>5. ~Answer(att[w])
      BY <3>3 DEF Answer
    <3> QED BY <3>1, <3>3, <3>4, <3>5, SaidMoves
  <2>2. ASSUME w \in Request, NEW a \in Attempt, Prepare(w, a) PROVE said'[att'[w]] = "canceled"
    BY <1>2, <2>2 DEF Prepare, Enter, LocalType, square
  <2>3. CASE Ask(w)
    BY <1>2, <2>3 DEF Ask, Answers, To, LocalType
  <2> QED BY <1>2, <2>1, <2>2, <2>3, LocalMoves DEF Elsewhere
<1>3. ASSUME NEW a \in Attempt, Closed(a)', order'[a] = None, a \notin dismissed'
      PROVE  Chargeless(a)'
  <2>1. ~Launch(a)
    BY <1>3 DEF Launch, Put, Closed, RowType
  <2>2. order[a] = None /\ a \notin dismissed
    BY <1>3, RefStep, DismissedStay DEF OrdersStay
  <2>3. Closed(a) => Chargeless(a)
    BY <2>2 DEF Closed, ChargeInv, Free
  <2>4. ASSUME NEW w \in Request, Record(w), att[w] = a, blank[w], Holds(w, "requested")
        PROVE  Chargeless(a)
    BY <2>4 DEF Record, ChargeInv, Denied, Heard, Process
  <2> QED BY <1>3, <2>1, <2>3, <2>4, CloseMoves, ChargelessStays
<1> QED BY <1>1, <1>2, <1>3 DEF ChargeInv, Heard, Denied, Free, Holds, Closed

LEMMA ChargeAlways == Spec => []ChargeInv
<1>1. Init => ChargeInv
  BY DEF Init, ChargeInv, Heard, Denied, Free, Process
<1>2. TypeInv /\ RefInv /\ ChargeInv /\ [Next]_vars => ChargeInv'
  <2>1. ChargeInv /\ UNCHANGED vars => ChargeInv'
    BY DEF ChargeInv, Heard, Denied, Free, Holds, Chargeless, vars, row, square, local
  <2> QED BY <2>1, ChargeStep
<1> QED BY <1>1, <1>2, TypeAlways, RefAlways, PTL DEF Spec

LEMMA CollectMoves ==
    ASSUME TypeInv, Next, NEW p \in Appt, Collected(p)
    PROVE  Collectable(p)
<1> USE DEF TypeInv, RowType, WorldType
<1>1. ASSUME NEW a \in AttemptsOf(p), status[a] # "launched", status'[a] = "launched"
      PROVE  Launch(a)
  <2>a. a \in Attempt
    BY DEF AttemptsOf
  <2> DEFINE Other == \E b \in Attempt, s \in Status \ {"launched"} : Put(b, s)
  <2>1. ~Other /\ status' # status
    BY <1>1, <2>a DEF Put
  <2>2. ASSUME NEW b \in Attempt, Launch(b) PROVE Launch(a)
    BY <1>1, <2>2, <2>a DEF Launch, Put
  <2>3. ASSUME NEW w \in Process, Reconcile(w) \/ Die(w) PROVE UNCHANGED status \/ Other
    BY <2>3 DEF Reconcile, Die, Match, Begin, Ask, Confirm, CommitUnverified, CommitVerified, Write,
                Refuse, Skip, row, LocalType, Local, Busy, Status, Active, Unresolved
  <2>4. ASSUME NEW w \in Request, Record(w) \/ Dispatch(w) PROVE UNCHANGED status \/ Other
    BY <2>4 DEF Record, Dispatch, Outcome, LocalType, Local, Busy, Process, Status, Active
  <2>5. ASSUME NEW b \in Attempt, Dismiss(b) \/ \E w \in Request : TakeOver(w, b) PROVE Other
    BY <2>5 DEF Dismiss, TakeOver, Status, Active
  <2>6. ASSUME SweepExpire \/ \E q \in Appt : ManualPay(q) \/ CollectRefused(q) PROVE FALSE
    BY <1>1, <2>6, <2>a DEF SweepExpire, ManualPay, CollectRefused, Expired
  <2> QED BY <2>1, <2>2, <2>3, <2>4, <2>5, <2>6
          DEF Next, Lapse, Answer, Place, PlaceForeign, Capture, RefundFirst, Prepare, OwnerRetry,
              Event, SweepSelect, SweepList, SweepEnd, SweepVisit, SweepImport, row
<1>2. ASSUME p \notin cash, p \in cash' PROVE ManualPay(p)
  <2>1. ASSUME NEW q \in Appt, ManualPay(q) PROVE ManualPay(p)
    BY <1>2, <2>1 DEF ManualPay
  <2>2. ASSUME NEW w \in Process, Reconcile(w) \/ Die(w) PROVE UNCHANGED cash
    BY <2>2 DEF Reconcile, Die, Match, Begin, Ask, Confirm, CommitUnverified, CommitVerified, ledger
  <2> QED BY <1>2, <2>1, <2>2
          DEF Next, Launch, Lapse, Dismiss, Answer, CollectRefused, Place, PlaceForeign, Capture,
              RefundFirst, Prepare, TakeOver, OwnerRetry, Event, Record, Dispatch, SweepExpire,
              SweepSelect, SweepList, SweepEnd, SweepVisit, SweepImport, ledger
<1> QED BY <1>1, <1>2 DEF Collected, Launch, ManualPay, AttemptsOf

LEMMA CollectedSafely ==
    ASSUME TypeInv, RefInv, ChargeInv, NEW p \in Appt, Collectable(p),
           NEW o \in Order, note[o] \in AttemptsOf(p)
    PROVE  note[o] \in dismissed /\ order[note[o]] = None
<1> DEFINE a == note[o]
<1>1. a \in Attempt /\ Settled(a) /\ \A x \in Order : payment[x] # a
  BY DEF Collectable, AttemptsOf
<1>2. status[a] # "none"
  BY <1>1 DEF RefInv, Unlaunched, Chargeless
<1>3. status[a] \in {"canceled", "retryable"} /\ order[a] = None
  BY <1>1, <1>2 DEF Settled
<1> QED BY <1>1, <1>3 DEF ChargeInv, Free, Chargeless

\* When a collector is allowed to ask for money, by card or in cash, no charge of
\* the appointment is out, whatever callbacks, webhooks and sweeps are under way,
\* but one the owner dismissed without an order.
THEOREM NobodyPaysTwice == Spec => NoSecondCharge
<1>1. TypeInv /\ RefInv /\ ChargeInv /\ [Next]_vars =>
        [\A p \in Appt : Collected(p) =>
            \A o \in Order : note[o] \in AttemptsOf(p) =>
               note[o] \in dismissed /\ order[note[o]] = None]_vars
  BY CollectMoves, CollectedSafely
<1> QED BY <1>1, TypeAlways, RefAlways, ChargeAlways, PTL DEF Spec, NoSecondCharge

-----------------------------------------------------------------------------
(* One way to pay.                                                           *)

\* Where collection may start, no attempt has a charge or can get one.
LEMMA CollectableIsChargeless ==
    ASSUME TypeInv, RefInv, ChargeInv, NEW p \in Appt, Collectable(p),
           NEW a \in AttemptsOf(p) \ dismissed
    PROVE  Chargeless(a)
<1>1. a \in Attempt /\ Settled(a) /\ \A x \in Order : payment[x] # a
  BY DEF Collectable, AttemptsOf
<1>2. CASE status[a] = "none"
  BY <1>1, <1>2 DEF RefInv, Unlaunched
<1>3. CASE status[a] \in {"canceled", "retryable"} /\ order[a] = None
  BY <1>1, <1>3 DEF ChargeInv, Free
<1> QED BY <1>1, <1>2, <1>3 DEF Settled

LEMMA WayStep ==
    ASSUME TypeInv, RefInv, ChargeInv, OneWayToPay, Next
    PROVE  OneWayToPay'
<1>d. dismissed \subseteq dismissed'
  BY DismissedStay
<1>1. CASE \E b \in Attempt : Launch(b)
  <2>1. PICK b \in Attempt : Launch(b)
    BY <1>1
  <2>2. /\ Home[b] \in Appt /\ Collectable(Home[b]) /\ Home[b] \notin cash
        /\ UNCHANGED <<note, cash, dismissed>> /\ phone' = phone \cup {b}
    BY <2>1, HomeAssumption DEF Launch, Collectable, ledger
  <2>3. \A a \in Attempt \ {b} : Chargeless(a) => Chargeless(a)'
    BY <2>2 DEF Chargeless
  <2>4. \A a \in AttemptsOf(Home[b]) \ dismissed : Chargeless(a)
    BY <2>2, CollectableIsChargeless
  <2> QED BY <2>2, <2>3, <2>4 DEF OneWayToPay, AttemptsOf
<1>2. CASE \A b \in Attempt : ~Launch(b)
  <2>1. \A a \in Attempt : Chargeless(a) => Chargeless(a)'
    BY <1>2, ChargelessStays
  <2>2. ASSUME NEW p \in Appt, p \in cash', NEW a \in AttemptsOf(p) \ dismissed
        PROVE  Chargeless(a)
    <3>1. CASE p \in cash
      BY <2>2, <3>1 DEF OneWayToPay
    <3>2. CASE p \notin cash
      <4>1. Collectable(p)
        BY <2>2, <3>2, CollectMoves DEF Collected
      <4> QED BY <4>1, CollectableIsChargeless
    <3> QED BY <3>1, <3>2
  <2> QED BY <1>d, <2>1, <2>2 DEF OneWayToPay, AttemptsOf
<1> QED BY <1>1, <1>2

\* A customer pays for an appointment under one attempt or in cash: whatever
\* phones, callbacks and sweeps are still under way, no second attempt has a
\* charge or can get one, unless the owner dismissed one of the two.
THEOREM PaidOneWay == Spec => []OneWayToPay
<1>1. Init => OneWayToPay
  BY NameAssumption DEF Init, OneWayToPay, Chargeless, AttemptsOf
<1>2. TypeInv /\ RefInv /\ ChargeInv /\ OneWayToPay /\ [Next]_vars => OneWayToPay'
  <2>1. OneWayToPay /\ UNCHANGED vars => OneWayToPay'
    BY DEF OneWayToPay, Chargeless, vars, row, ledger, square
  <2> QED BY <2>1, WayStep
<1> QED BY <1>1, <1>2, TypeAlways, RefAlways, ChargeAlways, PTL DEF Spec

\* The revenue of an appointment is booked once: of the attempts the owner did
\* not dismiss, at most one has a row of the ledger, and one only; none has one
\* where a manual payment was recorded.
BookedOnce ==
    \A p \in Appt :
        LET kept == AttemptsOf(p) \ dismissed
        IN  /\ \A x, y \in Order : payment[x] \in kept /\ payment[y] \in kept => x = y
            /\ p \in cash => \A o \in Order : payment[o] \notin kept

THEOREM RevenueIsBookedOnce == Spec => []BookedOnce
<1>1. LedgerIsBacked /\ OneWayToPay => BookedOnce
  <2> SUFFICES ASSUME LedgerIsBacked, OneWayToPay, NEW p \in Appt
               PROVE  LET kept == AttemptsOf(p) \ dismissed
                      IN  /\ \A x, y \in Order :
                                payment[x] \in kept /\ payment[y] \in kept => x = y
                          /\ p \in cash => \A o \in Order : payment[o] \notin kept
    BY DEF BookedOnce
  <2> DEFINE kept == AttemptsOf(p) \ dismissed
  <2>1. ASSUME NEW o \in Order, payment[o] \in kept
        PROVE  ~Chargeless(payment[o]) /\ order[payment[o]] = o
    BY <2>1 DEF LedgerIsBacked, Chargeless, AttemptsOf
  <2>2. ASSUME NEW x \in Order, NEW y \in Order, payment[x] \in kept, payment[y] \in kept
        PROVE  x = y
    <3>1. payment[x] = payment[y]
      BY <2>1, <2>2 DEF OneWayToPay
    <3> QED BY <2>1, <2>2, <3>1
  <2>3. ASSUME p \in cash, NEW o \in Order PROVE payment[o] \notin kept
    BY <2>1, <2>3 DEF OneWayToPay
  <2> QED BY <2>2, <2>3
<1> QED BY <1>1, LedgerIsTrue, PaidOneWay, PTL
=============================================================================
