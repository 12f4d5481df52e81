--------------------------- MODULE AccessLinkProofs ---------------------------
(***************************************************************************)
(* Proofs about AccessLink for every number of executions, visits, keys,   *)
(* channels, claims and faults.  The argument has one root: how a single   *)
(* operation row may move (OperationMoves).  That no two executions send   *)
(* for one user, and that nothing is under way while the organization is   *)
(* deleted, follow from it without another look at the actions.            *)
(***************************************************************************)
EXTENDS AccessLink, TLAPS

\* What TypeOK needs beside itself: an execution that has begun has a key,
\* one that has not has no operation.
TypeInv ==
    /\ TypeOK
    /\ \A k \in Key : record[k].status = "none" => record[k].claims = 0
    /\ \A r \in Request : pc[r] # "idle" => key[r] \in Key
    /\ \A p \in Process : pc[p] = "idle" => op[p] = "none"

LEMMA TypeInit == Init => TypeInv
<1> SUFFICES ASSUME Init PROVE TypeInv
  OBVIOUS
<1>1. op \in [Process -> OpState] /\ pc \in [Process -> PC] /\ faults \in 0 .. MaxFaults
  BY LimitAssumption DEF Init, OpState, PC
<1>2. record \in [Key -> Record]
  <2>1. [status |-> "none", holder |-> Nobody, open |-> FALSE, claims |-> 0] \in Record
    BY LimitAssumption DEF Record
  <2> QED BY <2>1 DEF Init
<1>3. answer \in [Process -> [Channel -> Answer]]
  BY DEF Init, Answer
<1> QED BY <1>1, <1>2, <1>3 DEF Init, TypeInv, TypeOK, Process

\* The rows an update of a row that somebody holds may write.
LEMMA Fields ==
    ASSUME NEW row \in Record, NEW open \in BOOLEAN,
           NEW status \in {"in_progress", "succeeded", "failed"}
    PROVE  /\ [row EXCEPT !.open = open] \in Record
           /\ [row EXCEPT !.open = open].status = row.status
           /\ [row EXCEPT !.status = status] \in Record
           /\ [row EXCEPT !.status = status].status = status
           /\ [row EXCEPT !.open = open].claims = row.claims
BY DEF Record

LEMMA RowType ==
    ASSUME TypeInv, NEW k \in Key, NEW new \in Record,
           new.status = "none" => new.claims = 0,
           record' = [record EXCEPT ![k] = new]
    PROVE  /\ record' \in [Key -> Record]
           /\ \A j \in Key : record'[j].status = "none" => record'[j].claims = 0
BY DEF TypeInv, TypeOK

\* The steps of an execution's counter, and of an operation's state.
LEMMA StepType ==
    ASSUME TypeInv, NEW p \in Process, NEW step \in PC \ {"idle"}, To(p, step),
           UNCHANGED <<op, key>>, p \in Request => key[p] \in Key
    PROVE  /\ pc' \in [Process -> PC]
           /\ \A r \in Request : pc'[r] # "idle" => key'[r] \in Key
           /\ \A q \in Process : pc'[q] = "idle" => op'[q] = "none"
BY DEF TypeInv, TypeOK, To, PC

\* The same for a step that writes the operation of the execution itself.
LEMMA PutType ==
    ASSUME TypeInv, NEW p \in Process, NEW step \in PC \ {"idle"}, To(p, step),
           NEW state \in OpState, Put(p, state), UNCHANGED key,
           p \in Request => key[p] \in Key
    PROVE  /\ pc' \in [Process -> PC] /\ op' \in [Process -> OpState]
           /\ \A r \in Request : pc'[r] # "idle" => key'[r] \in Key
           /\ \A q \in Process : pc'[q] = "idle" => op'[q] = "none"
BY DEF TypeInv, TypeOK, To, Put, PC

LEMMA TakeType ==
    ASSUME TypeInv, NEW r \in Request, NEW k \in Key, Claimable(k), Take(r, k)
    PROVE  /\ record' \in [Key -> Record]
           /\ \A j \in Key : record'[j].status = "none" => record'[j].claims = 0
<1>1. record[k] \in Record /\ record[k].claims + 1 \in 0 .. MaxClaims
  BY LimitAssumption DEF TypeInv, TypeOK, Record, Claimable
<1> QED BY <1>1 DEF TypeInv, TypeOK, Record, Take

LEMMA CompleteType ==
    ASSUME TypeInv, NEW r \in Request, key[r] \in Key, NEW state \in OpState,
           Complete(r, state)
    PROVE  /\ record' \in [Key -> Record]
           /\ \A j \in Key : record'[j].status = "none" => record'[j].claims = 0
<1> DEFINE status == IF state = "succeeded" THEN "succeeded" ELSE "failed"
           new == [record[key[r]] EXCEPT !.status = status]
<1>1. record[key[r]] \in Record /\ status \in {"in_progress", "succeeded", "failed"}
  BY DEF TypeInv, TypeOK
<1>2. new \in Record /\ new.status # "none"
  BY <1>1, Fields
<1>3. record' = [record EXCEPT ![key[r]] = new]
  BY DEF Complete
<1> QED BY <1>2, <1>3, RowType

LEMMA TerminalType ==
    \A p \in Process : Terminal(p) \in OpState /\ SecondTerminal(p) \in OpState
BY DEF Terminal, SecondTerminal, OpState

LEMMA TypeRequest ==
    ASSUME TypeInv, NEW r \in Request, RequestStep(r)
    PROVE  TypeInv'
<1> USE DEF TypeInv
<1>p. r \in Process /\ Request \subseteq Process
  BY DEF Process
<1>k. pc[r] # "idle" => key[r] \in Key
  OBVIOUS
<1>1. ASSUME NEW k \in Key, Submit(r, k) PROVE TypeInv'
  BY <1>1, <1>p DEF Submit, To, TypeOK, PC, access, ledger, history
<1>2. CASE Claim(r)
  BY <1>2, <1>p, <1>k, StepType, TakeType DEF Claim, TypeOK, PC, access, ledger, history
<1>3. CASE Extend(r)
  <2>1. record' \in [Key -> Record] /\ \A k \in Key : record'[k].status = "none" => record'[k].claims = 0
    <3> DEFINE new == [record[key[r]] EXCEPT !.open = TRUE]
    <3>1. CASE Holds(r)
      <4>1. key[r] \in Key /\ record[key[r]] \in Record /\ record[key[r]].status = "in_progress"
        BY <1>3, <1>k, <3>1 DEF Extend, Holds, TypeOK
      <4>2. new \in Record /\ new.status # "none"
        BY <4>1, Fields
      <4>3. record' = [record EXCEPT ![key[r]] = new]
        BY <1>3, <3>1 DEF Extend
      <4> QED BY <4>1, <4>2, <4>3, RowType
    <3> QED BY <1>3, <3>1 DEF Extend, TypeOK
  <2> QED BY <1>3, <1>p, <1>k, <2>1, StepType DEF Extend, TypeOK, PC, access, ledger, history
<1>4. CASE Prepare(r)
  BY <1>4, <1>p, <1>k, StepType, PutType DEF Prepare, TypeOK, PC, OpState, history
<1>5. CASE Settle(r)
  <2>1. record' \in [Key -> Record] /\ \A k \in Key : record'[k].status = "none" => record'[k].claims = 0
    <3> DEFINE settled == [record[key[r]] EXCEPT !.status = "failed"]
               expired == [record[key[r]] EXCEPT !.open = FALSE]
    <3>1. CASE Holds(r)
      <4>1. key[r] \in Key /\ record[key[r]] \in Record /\ record[key[r]].status = "in_progress"
        BY <1>5, <1>k, <3>1 DEF Settle, Holds, TypeOK
      <4>2. settled \in Record /\ settled.status # "none" /\ expired \in Record /\ expired.status # "none"
        BY <4>1, Fields
      <4>3. \/ record' = [record EXCEPT ![key[r]] = settled]
            \/ record' = [record EXCEPT ![key[r]] = expired]
        BY <1>5, <3>1 DEF Settle
      <4> QED BY <4>1, <4>2, <4>3, RowType
    <3> QED BY <1>5, <3>1 DEF Settle, TypeOK
  <2> QED BY <1>5, <1>p, <1>k, <2>1, StepType DEF Settle, TypeOK, PC, access, ledger, history
<1>6. CASE Finalize(r)
  <2>1. faults' \in 0 .. MaxFaults
    BY <1>6, LimitAssumption DEF Finalize, TypeOK
  <2> QED BY <1>6, <1>p, <1>k, <2>1, PutType, CompleteType, TerminalType
          DEF Finalize, TypeOK, PC, access
<1>7. CASE FinalizeRefused(r)
  BY <1>7, <1>p, <1>k, StepType DEF FinalizeRefused, TypeOK, PC, access, ledger, claims, history
<1>8. CASE Reclaim(r)
  BY <1>8, <1>p, <1>k, StepType, TakeType DEF Reclaim, TypeOK, PC, access, ledger, history
<1>9. CASE Again(r)
  BY <1>9, <1>p, <1>k, StepType, PutType, CompleteType, TerminalType
  DEF Again, TypeOK, PC, access, history
<1> QED BY <1>1, <1>2, <1>3, <1>4, <1>5, <1>6, <1>7, <1>8, <1>9 DEF RequestStep

LEMMA TypeVisit ==
    ASSUME TypeInv, NEW v \in Visit, VisitStep(v)
    PROVE  TypeInv'
<1> USE DEF TypeInv
<1>p. v \in Process /\ v \notin Request
  BY ProcessAssumption DEF Process
<1>1. CASE VisitPrepare(v)
  BY <1>1, <1>p, StepType, PutType DEF VisitPrepare, TypeOK, PC, OpState, claims, history
<1>2. CASE VisitFinalize(v)
  BY <1>2, <1>p, StepType, PutType, TerminalType DEF VisitFinalize, TypeOK, PC, access, claims, history
<1>3. CASE VisitAgain(v)
  BY <1>3, <1>p, StepType, PutType, TerminalType DEF VisitAgain, TypeOK, PC, access, claims, history
<1>4. CASE VisitUnsent(v)
  BY <1>4, <1>p, StepType, PutType DEF VisitUnsent, TypeOK, PC, OpState, access, claims, history
<1> QED BY <1>1, <1>2, <1>3, <1>4 DEF VisitStep

LEMMA TypeCommon ==
    ASSUME TypeInv, NEW p \in Process, CommonStep(p) \/ Fail(p) \/ Die(p) \/ Recover(p)
    PROVE  TypeInv'
<1> USE DEF TypeInv
<1>k. p \in Request /\ pc[p] # "idle" => key[p] \in Key
  OBVIOUS
<1>f. faults < MaxFaults /\ faults' = faults + 1 => faults' \in 0 .. MaxFaults
  BY LimitAssumption DEF TypeOK
<1>1. CASE Mark(p)
  BY <1>1, <1>k, <1>f, PutType DEF Mark, Undone, TypeOK, PC, OpState, access, claims
<1>2. CASE MarkRefused(p) \/ Sent(p)
  BY <1>2, <1>k, StepType DEF MarkRefused, Sent, TypeOK, PC, access, ledger, claims, history
<1>3. ASSUME NEW ch \in Channel, Send(p, ch) PROVE TypeInv'
  <2>1. answer' \in [Process -> [Channel -> Answer]] /\ accepted' \in SUBSET (Process \X Channel)
    BY <1>3 DEF Send, TypeOK
  <2> QED BY <1>3, <2>1 DEF Send, TypeOK, access, ledger, claims
<1>4. CASE Fail(p)
  <2>1. PICK step \in PC \ {"idle"} : pc[p] # "idle" /\ To(p, step)
    BY <1>4 DEF Fail, Undone, PC
  <2> QED BY <1>4, <1>k, <1>f, <2>1, StepType DEF Fail, TypeOK, access, ledger, claims
<1>5. CASE Die(p)
  BY <1>5, <1>k, <1>f, StepType DEF Die, TypeOK, PC, access, ledger, claims
<1>6. CASE Recover(p)
  BY <1>6 DEF Recover, Put, TypeOK, OpState, claims, locals, history
<1> QED BY <1>1, <1>2, <1>3, <1>4, <1>5, <1>6 DEF CommonStep

LEMMA TypeOffice ==
    ASSUME TypeInv, OfficeStep \/ \E k \in Key : LeaseEnds(k)
    PROVE  TypeInv'
<1> USE DEF TypeInv
<1>1. ASSUME NEW p \in Process, NEW sent \in BOOLEAN, Review(p, sent) PROVE TypeInv'
  BY <1>1 DEF Review, TypeOK, claims, locals, history
<1>2. CASE Deactivate
  BY <1>2 DEF Deactivate, TypeOK, OpState, locals, history
<1>3. CASE Activate
  BY <1>3 DEF Activate, TypeOK, ledger, locals, history
<1>4. CASE Delete
  BY <1>4 DEF Delete, TypeOK, OpState, claims, locals, history
<1>5. CASE Restore \/ SignIn
  BY <1>5 DEF Restore, SignIn, TypeOK, ledger, claims, locals, history
<1>6. ASSUME NEW k \in Key, LeaseEnds(k) PROVE TypeInv'
  <2>1. record' \in [Key -> Record] /\ \A j \in Key : record'[j].status = "none" => record'[j].claims = 0
    <3> DEFINE new == [record[k] EXCEPT !.open = FALSE]
    <3>1. record[k] \in Record /\ (record[k].status = "none" => record[k].claims = 0)
      BY DEF TypeOK
    <3>2. new \in Record /\ (new.status = "none" => new.claims = 0)
      BY <3>1, Fields
    <3>3. record' = [record EXCEPT ![k] = new]
      BY <1>6 DEF LeaseEnds
    <3> QED BY <3>2, <3>3, RowType
  <2> QED BY <1>6, <2>1 DEF LeaseEnds, TypeOK, access, ledger, locals, history
<1> QED BY <1>1, <1>2, <1>3, <1>4, <1>5, <1>6 DEF OfficeStep

LEMMA TypeNext == TypeInv /\ [Next]_vars => TypeInv'
<1>1. TypeInv /\ UNCHANGED vars => TypeInv'
  BY DEF TypeInv, TypeOK, vars, access, ledger, claims, locals, history
<1> QED BY <1>1, TypeRequest, TypeVisit, TypeCommon, TypeOffice DEF Next

LEMMA TypeAlways == Spec => []TypeInv
BY TypeInit, TypeNext, PTL DEF Spec

\* Every reachable state has the declared types: in particular a key is never
\* claimed more often than MAX_CLAIM_ATTEMPTS allows.
THEOREM TypeCorrect == Spec => []TypeOK
<1>1. TypeInv => TypeOK
  BY DEF TypeInv
<1> QED BY <1>1, TypeAlways, PTL

-----------------------------------------------------------------------------
(***************************************************************************)
(* How one operation may move.                                             *)
(***************************************************************************)

Calls(p) == pc[p] = "send"
NoNewCall(p) == Calls(p)' => Calls(p)

Starts(p) ==
    /\ op[p] = "none" /\ op'[p] = "requested" /\ ~Calls(p)'
    /\ ~deleted /\ ~deleted'
    /\ \A q \in Process : ~Unresolved(q)
    /\ \A q \in Process : q # p => op'[q] = op[q]

Moves(p) ==
    \/ op'[p] = op[p] /\ NoNewCall(p)
    \/ Starts(p)
    \/ op[p] = "requested" /\ op'[p] = "failed" /\ NoNewCall(p)
    \/ op[p] = "requested" /\ op'[p] = "dispatched" /\ UNCHANGED deleted
    \/ op[p] = "dispatched" /\ op'[p] = "reconciliation_required" /\ NoNewCall(p)
    \/ op[p] = "dispatched" /\ op'[p] \in {"succeeded", "failed"} /\ ~Calls(p)'

ReviewMoves ==
    /\ reviewed \subseteq reviewed'
    /\ \A p \in Process : p \in reviewed' /\ p \notin reviewed =>
           op[p] = "reconciliation_required" /\ op'[p] = op[p]

DeletionMoves ==
    ~deleted /\ deleted' =>
        /\ Erasable /\ UNCHANGED <<reviewed, pc>>
        /\ \A p \in Process : op'[p] = IF op[p] = "requested" THEN "failed" ELSE op[p]

AllMoves == (\A p \in Process : Moves(p)) /\ ReviewMoves /\ DeletionMoves

\* A step that leaves the operations alone and lets nobody call a provider.
LEMMA StillMoves ==
    ASSUME TypeInv, UNCHANGED <<deleted, op, reviewed>>, \A p \in Process : NoNewCall(p)
    PROVE  AllMoves
BY DEF AllMoves, Moves, ReviewMoves, DeletionMoves

\* A step of one execution that moves its own operation.
LEMMA OwnMoves ==
    ASSUME TypeInv, NEW p \in Process, NEW step \in PC, To(p, step),
           NEW state \in OpState, Put(p, state), UNCHANGED <<deleted, reviewed>>,
           \/ /\ op[p] = "none" /\ state = "requested" /\ step # "send"
              /\ ~deleted /\ \A q \in Process : ~Unresolved(q)
           \/ op[p] = "requested" /\ state = "dispatched"
           \/ op[p] = "requested" /\ state = "failed" /\ step # "send"
           \/ /\ op[p] = "dispatched" /\ step # "send"
              /\ state \in {"succeeded", "failed", "reconciliation_required"}
    PROVE  AllMoves
<1>1. op'[p] = state /\ pc'[p] = step
  BY DEF TypeInv, TypeOK, Put, To
<1>2. \A q \in Process : q # p => op'[q] = op[q] /\ pc'[q] = pc[q]
  BY DEF TypeInv, TypeOK, Put, To
<1>3. Moves(p)
  BY <1>1, <1>2 DEF Moves, Starts, Calls, NoNewCall
<1>4. \A q \in Process : q # p => Moves(q)
  BY <1>2 DEF Moves, Calls, NoNewCall
<1> QED BY <1>3, <1>4 DEF AllMoves, ReviewMoves, DeletionMoves

LEMMA TerminalState ==
    \A p \in Process : /\ Terminal(p) \in {"succeeded", "failed", "reconciliation_required"}
                       /\ SecondTerminal(p) \in {"failed", "reconciliation_required"}
BY DEF Terminal, SecondTerminal

LEMMA MovesRequest ==
    ASSUME TypeInv, NEW r \in Request, RequestStep(r)
    PROVE  AllMoves
<1>p. r \in Process
  BY DEF Process
<1>s. ASSUME NEW step \in PC \ {"send"}, To(r, step) PROVE \A p \in Process : NoNewCall(p)
  BY <1>p, <1>s DEF To, TypeInv, TypeOK, NoNewCall, Calls
<1>1. ASSUME NEW k \in Key, Submit(r, k) PROVE AllMoves
  BY <1>1, <1>s, StillMoves DEF Submit, PC, access, ledger
<1>2. CASE Claim(r) \/ Extend(r)
  BY <1>2, <1>s, StillMoves DEF Claim, Extend, PC, access, ledger
<1>3. CASE Prepare(r)
  <2>1. CASE Fit(r)
    <3>1. op[r] = "none"
      BY <2>1 DEF Fit
    <3> QED BY <1>3, <1>p, <2>1, <3>1, OwnMoves DEF Prepare, Fit, PC, OpState
  <2> QED BY <1>3, <1>s, <2>1, StillMoves DEF Prepare, PC
<1>4. CASE Settle(r) \/ FinalizeRefused(r) \/ Reclaim(r)
  BY <1>4, <1>s, StillMoves DEF Settle, FinalizeRefused, Reclaim, PC, access, ledger
<1>5. CASE Finalize(r)
  BY <1>5, <1>p, OwnMoves, TerminalState, TerminalType DEF Finalize, PC, access
<1>6. CASE Again(r)
  BY <1>6, <1>p, <1>s, OwnMoves, StillMoves, TerminalState, TerminalType DEF Again, PC, access
<1> QED BY <1>1, <1>2, <1>3, <1>4, <1>5, <1>6 DEF RequestStep

LEMMA MovesVisit ==
    ASSUME TypeInv, NEW v \in Visit, VisitStep(v)
    PROVE  AllMoves
<1>p. v \in Process
  BY DEF Process
<1>s. ASSUME NEW step \in PC \ {"send"}, To(v, step) PROVE \A p \in Process : NoNewCall(p)
  BY <1>p, <1>s DEF To, TypeInv, TypeOK, NoNewCall, Calls
<1>1. CASE VisitPrepare(v)
  <2>1. op[v] = "none"
    BY <1>1, <1>p DEF VisitPrepare, TypeInv
  <2> QED BY <1>1, <1>p, <1>s, <2>1, OwnMoves, StillMoves DEF VisitPrepare, PC, OpState
<1>2. CASE VisitFinalize(v) \/ VisitAgain(v)
  BY <1>2, <1>p, <1>s, OwnMoves, StillMoves, TerminalState, TerminalType
  DEF VisitFinalize, VisitAgain, PC, access
<1>3. CASE VisitUnsent(v)
  BY <1>3, <1>p, <1>s, OwnMoves, StillMoves DEF VisitUnsent, PC, OpState, access
<1> QED BY <1>1, <1>2, <1>3 DEF VisitStep

LEMMA MovesCommon ==
    ASSUME TypeInv, NEW p \in Process, CommonStep(p) \/ Fail(p) \/ Die(p) \/ Recover(p)
    PROVE  AllMoves
<1>s. ASSUME NEW step \in PC \ {"send"}, To(p, step) PROVE \A q \in Process : NoNewCall(q)
  BY <1>s DEF To, TypeInv, TypeOK, NoNewCall, Calls
<1>1. CASE Mark(p)
  BY <1>1, OwnMoves DEF Mark, Undone, PC, OpState, access
<1>2. CASE MarkRefused(p) \/ Sent(p) \/ Die(p)
  BY <1>2, <1>s, StillMoves DEF MarkRefused, Sent, Die, PC, access, ledger
<1>3. ASSUME NEW ch \in Channel, Send(p, ch) PROVE AllMoves
  BY <1>3, StillMoves DEF Send, NoNewCall, Calls, access, ledger
<1>4. CASE Fail(p)
  <2>1. PICK step \in PC \ {"send"} : To(p, step)
    BY <1>4 DEF Fail, Undone, PC
  <2> QED BY <1>4, <1>s, <2>1, StillMoves DEF Fail, access, ledger
<1>5. CASE Recover(p)
  <2>1. \A q \in Process : Moves(q)
    BY <1>5 DEF Recover, Put, TypeInv, TypeOK, Moves, NoNewCall, Calls, locals
  <2> QED BY <1>5, <2>1 DEF Recover, AllMoves, ReviewMoves, DeletionMoves
<1> QED BY <1>1, <1>2, <1>3, <1>4, <1>5 DEF CommonStep

LEMMA MovesOffice ==
    ASSUME TypeInv, OfficeStep \/ \E k \in Key : LeaseEnds(k)
    PROVE  AllMoves
<1> USE DEF NoNewCall, Calls
<1>1. ASSUME NEW p \in Process, NEW sent \in BOOLEAN, Review(p, sent) PROVE AllMoves
  BY <1>1 DEF Review, AllMoves, Moves, ReviewMoves, DeletionMoves, locals
<1>2. CASE Deactivate
  <2>1. \A q \in Process : Moves(q)
    BY <1>2 DEF Deactivate, TypeInv, TypeOK, Moves, locals
  <2> QED BY <1>2, <2>1 DEF Deactivate, AllMoves, ReviewMoves, DeletionMoves
<1>3. CASE Delete
  <2>1. \A q \in Process : Moves(q)
    BY <1>3 DEF Delete, TypeInv, TypeOK, Moves, locals
  <2> QED BY <1>3, <2>1 DEF Delete, AllMoves, ReviewMoves, DeletionMoves, locals
<1>4. CASE Activate \/ SignIn \/ \E k \in Key : LeaseEnds(k)
  BY <1>4, StillMoves DEF Activate, SignIn, LeaseEnds, access, ledger, locals
<1>5. CASE Restore
  BY <1>5 DEF Restore, AllMoves, Moves, ReviewMoves, DeletionMoves, ledger, locals
<1> QED BY <1>1, <1>2, <1>3, <1>4, <1>5 DEF OfficeStep

LEMMA OperationMoves == TypeInv /\ [Next]_vars => AllMoves
<1>1. TypeInv /\ UNCHANGED vars => AllMoves
  BY StillMoves DEF vars, access, ledger, locals, NoNewCall, Calls
<1> QED BY <1>1, MovesRequest, MovesVisit, MovesCommon, MovesOffice DEF Next

-----------------------------------------------------------------------------
(***************************************************************************)
(* Who calls a provider has an operation that blocks every other one.      *)
(***************************************************************************)

OpInv ==
    /\ \A p \in Process : p \in reviewed => op[p] = "reconciliation_required"
    /\ \A p \in Process : Calls(p) => op[p] \in {"dispatched", "reconciliation_required"}
    /\ \A p, q \in Process : Unresolved(p) /\ Unresolved(q) => p = q

LEMMA OpNext == TypeInv /\ OpInv /\ [Next]_vars => OpInv'
<1> SUFFICES ASSUME TypeInv, OpInv, AllMoves PROVE OpInv'
  BY OperationMoves
<1>m. \A p \in Process : Moves(p)
  BY DEF AllMoves
<1>1. \A p \in Process : p \in reviewed' => op'[p] = "reconciliation_required"
  BY <1>m DEF AllMoves, ReviewMoves, OpInv, Moves, Starts
<1>2. \A p \in Process : Calls(p)' => op'[p] \in {"dispatched", "reconciliation_required"}
  BY <1>m DEF OpInv, Moves, Starts, NoNewCall
<1>3. ASSUME NEW p \in Process, NEW q \in Process, Unresolved(p)', Unresolved(q)' PROVE p = q
  <2>1. ASSUME NEW x \in Process, Unresolved(x)' PROVE Unresolved(x) \/ Starts(x)
    BY <1>m, <2>1 DEF AllMoves, ReviewMoves, Moves, Unresolved
  <2>2. CASE Starts(p)
    <3>1. ~Unresolved(q) /\ (q # p => op'[q] = op[q])
      BY <2>2 DEF Starts
    <3> QED BY <2>1, <2>2, <3>1, <1>3 DEF Starts
  <2>3. CASE Starts(q)
    <3>1. ~Unresolved(p) /\ (q # p => op'[p] = op[p])
      BY <2>3 DEF Starts
    <3> QED BY <2>1, <2>3, <3>1, <1>3 DEF Starts
  <2> QED BY <1>3, <2>1, <2>2, <2>3 DEF OpInv
<1> QED BY <1>1, <1>2, <1>3 DEF OpInv

LEMMA OpAlways == Spec => [](TypeInv /\ OpInv)
<1>1. Init => OpInv
  BY DEF Init, OpInv, Calls, Unresolved
<1> QED BY <1>1, OpNext, TypeAlways, PTL DEF Spec

\* Two executions are never at the providers for the user at once, whatever
\* keys and routes they came by, unless a reviewer closed the operation of one.
THEOREM SendsAreSingle == Spec => []OneSendAtATime
<1>1. OpInv => OneSendAtATime
  BY DEF OpInv, OneSendAtATime, Calls, Unresolved
<1> QED BY <1>1, OpAlways, PTL

\* Late results, sweeps and deactivations never change a settled operation,
\* nor make a dispatched one look unsent.
THEOREM OperationsAdvance == Spec => OperationsOnlyAdvance
<1>1. TypeInv /\ [Next]_vars =>
        [\A p \in Process :
            /\ op[p] \in {"succeeded", "failed", "reconciliation_required"} => op'[p] = op[p]
            /\ op[p] = "dispatched" => op'[p] # "requested"
            /\ p \in reviewed => p \in reviewed']_vars
  BY OperationMoves DEF AllMoves, Moves, ReviewMoves, Starts
<1> QED BY <1>1, TypeAlways, PTL DEF Spec, OperationsOnlyAdvance

\* While the organization is deleted no link of it is under way, unreviewed,
\* or being handed to a provider.
THEOREM DeletionWaits == Spec => []DeletedIsQuiet
<1>1. Init => DeletedIsQuiet
  BY DEF Init, DeletedIsQuiet
<1>2. TypeInv /\ OpInv /\ DeletedIsQuiet /\ [Next]_vars => DeletedIsQuiet'
  <2> SUFFICES ASSUME OpInv, DeletedIsQuiet, AllMoves, deleted', NEW p \in Process
               PROVE  /\ op'[p] \notin {"requested", "dispatched"}
                      /\ Unresolved(p)' \/ Calls(p)' => p \in reviewed'
    BY OperationMoves DEF DeletedIsQuiet, Calls
  <2>m. Moves(p)
    BY DEF AllMoves
  <2>1. CASE deleted
    <3>1. op'[p] = op[p] /\ NoNewCall(p)
      BY <2>1, <2>m DEF Moves, Starts, DeletedIsQuiet
    <3> QED BY <2>1, <3>1 DEF AllMoves, ReviewMoves, DeletedIsQuiet, Unresolved, NoNewCall, Calls
  <2>2. CASE ~deleted
    <3>1. Erasable /\ UNCHANGED <<reviewed, pc>>
          /\ op'[p] = IF op[p] = "requested" THEN "failed" ELSE op[p]
      BY <2>2 DEF AllMoves, DeletionMoves
    <3>2. op[p] = "dispatched" => Unresolved(p)
      BY DEF OpInv, Unresolved
    <3> QED BY <3>1, <3>2 DEF OpInv, Erasable, Unresolved, Calls
  <2> QED BY <2>1, <2>2
<1> QED BY <1>1, <1>2, OpAlways, PTL DEF Spec

-----------------------------------------------------------------------------
(***************************************************************************)
(* The way in.  Tokens and sessions need no more than their own property.  *)
(***************************************************************************)

\* Deactivation and deletion shut every way in, and nothing that runs on
\* afterwards, late sweeps and restores included, opens one.
THEOREM ClosedIsClosed == Spec => []ClosedMeansClosed
<1>1. Init => ClosedMeansClosed
  BY DEF Init, ClosedMeansClosed
<1>2. TypeInv /\ ClosedMeansClosed /\ [Next]_vars => ClosedMeansClosed'
  <2> SUFFICES ASSUME TypeInv, ClosedMeansClosed, [Next]_vars PROVE ClosedMeansClosed'
    OBVIOUS
  <2> USE DEF ClosedMeansClosed
  <2>0. CASE UNCHANGED access
    BY <2>0 DEF access
  <2>1. ASSUME NEW r \in Request, Prepare(r) PROVE ClosedMeansClosed'
    BY <2>1 DEF Prepare, Fit
  <2>2. ASSUME NEW v \in Visit, VisitPrepare(v) PROVE ClosedMeansClosed'
    BY <2>2 DEF VisitPrepare
  <2>3. ASSUME NEW p \in Process, Recover(p) PROVE ClosedMeansClosed'
    BY <2>3 DEF Recover
  <2>4. ASSUME NEW p \in Process, NEW sent \in BOOLEAN, Review(p, sent) PROVE ClosedMeansClosed'
    BY <2>4 DEF Review
  <2>5. CASE Deactivate \/ Activate \/ Delete \/ Restore \/ SignIn
    BY <2>5 DEF Deactivate, Activate, Delete, Restore, SignIn, TypeInv, TypeOK
  <2> QED
    BY <2>0, <2>1, <2>2, <2>3, <2>4, <2>5
    DEF Next, RequestStep, VisitStep, CommonStep, OfficeStep, vars, Submit, Claim, Extend,
        Settle, Finalize, FinalizeRefused, Reclaim, Again, VisitFinalize, VisitAgain,
        VisitUnsent, Mark, MarkRefused, Send, Sent, Fail, Die, LeaseEnds
<1> QED BY <1>1, <1>2, TypeAlways, PTL DEF Spec

-----------------------------------------------------------------------------
(***************************************************************************)
(* What is recorded of an operation is what the providers did with it.     *)
(***************************************************************************)

Early == {"idle", "claim", "extend", "prepare", "renew", "mark", "unsent", "refused", "retryable"}

\* Until it calls a provider an execution has no answer, and an answer that
\* is definite is true.
HonestInv ==
    /\ \A p \in Process, ch \in Channel :
          /\ answer[p][ch] = "accepted" => <<p, ch>> \in accepted
          /\ answer[p][ch] \in {"none", "not_sent"} => <<p, ch>> \notin accepted
    /\ \A p \in Process :
          pc[p] \in Early => \A ch \in Channel : answer[p][ch] = "none"
    /\ SettledHonestly

\* The part of HonestInv that a step keeps which calls no provider.
LEMMA AnswersStay ==
    ASSUME TypeInv, HonestInv, NEW p \in Process, NEW step \in PC, To(p, step),
           step \in Early => pc[p] \in Early,
           UNCHANGED <<answer, accepted>>, SettledHonestly'
    PROVE  HonestInv'
BY DEF TypeInv, TypeOK, HonestInv, To, Early

LEMMA HonestStill ==
    ASSUME TypeInv, HonestInv, NEW p \in Process, NEW step \in PC, To(p, step),
           step \in Early => pc[p] \in Early,
           UNCHANGED <<op, answer, accepted>>
    PROVE  HonestInv'
<1>1. SettledHonestly'
  BY DEF HonestInv, SettledHonestly
<1> QED BY <1>1, AnswersStay

\* An execution settles its own operation: on success it has an acceptance to
\* show, on failure no channel has one.
LEMMA HonestPut ==
    ASSUME TypeInv, HonestInv, NEW p \in Process, NEW step \in PC, To(p, step),
           step \in Early => pc[p] \in Early,
           NEW state \in OpState, Put(p, state), UNCHANGED <<answer, accepted>>,
           state \in {"none", "requested", "failed"} => \A ch \in Channel : <<p, ch>> \notin accepted,
           state = "succeeded" => \E ch \in Channel : <<p, ch>> \in accepted
    PROVE  HonestInv'
<1>1. op'[p] = state /\ \A q \in Process : q # p => op'[q] = op[q]
  BY DEF TypeInv, TypeOK, Put
<1>2. SettledHonestly'
  BY <1>1 DEF HonestInv, SettledHonestly
<1> QED BY <1>2, AnswersStay

\* What both finalizations write is honest.
LEMMA TerminalIsHonest ==
    ASSUME HonestInv, NEW p \in Process
    PROVE  /\ Terminal(p) = "failed" => \A ch \in Channel : <<p, ch>> \notin accepted
           /\ Terminal(p) = "succeeded" => \E ch \in Channel : <<p, ch>> \in accepted
           /\ SecondTerminal(p) = "failed" => \A ch \in Channel : <<p, ch>> \notin accepted
BY DEF HonestInv, Terminal, SecondTerminal, Known, Took

\* An execution that has not called a provider can settle as it likes.
LEMMA EarlyIsHonest ==
    ASSUME HonestInv, NEW p \in Process, pc[p] \in Early
    PROVE  \A ch \in Channel : <<p, ch>> \notin accepted
BY DEF HonestInv, Early

LEMMA HonestRequest ==
    ASSUME TypeInv, HonestInv, NEW r \in Request, RequestStep(r)
    PROVE  HonestInv'
<1>p. r \in Process
  BY DEF Process
<1>1. ASSUME NEW k \in Key, Submit(r, k) PROVE HonestInv'
  BY <1>1, <1>p, HonestStill DEF Submit, PC, Early, ledger, history
<1>2. CASE Claim(r) \/ Extend(r) \/ Settle(r)
  BY <1>2, <1>p, HonestStill DEF Claim, Extend, Settle, PC, Early, ledger, history
<1>3. CASE FinalizeRefused(r) \/ Reclaim(r)
  BY <1>3, <1>p, HonestStill DEF FinalizeRefused, Reclaim, PC, Early, ledger, history
<1>4. CASE Prepare(r)
  BY <1>4, <1>p, HonestStill, HonestPut, EarlyIsHonest DEF Prepare, PC, Early, OpState, history
<1>5. CASE Finalize(r)
  BY <1>5, <1>p, HonestPut, TerminalIsHonest, TerminalState, TerminalType DEF Finalize, PC, Early
<1>6. CASE Again(r)
  BY <1>6, <1>p, HonestStill, HonestPut, TerminalIsHonest, TerminalState, TerminalType
  DEF Again, PC, Early, history
<1> QED BY <1>1, <1>2, <1>3, <1>4, <1>5, <1>6 DEF RequestStep

LEMMA HonestVisit ==
    ASSUME TypeInv, HonestInv, NEW v \in Visit, VisitStep(v)
    PROVE  HonestInv'
<1>p. v \in Process
  BY DEF Process
<1>1. CASE VisitPrepare(v) \/ VisitUnsent(v)
  BY <1>1, <1>p, HonestStill, HonestPut, EarlyIsHonest
  DEF VisitPrepare, VisitUnsent, PC, Early, OpState, history
<1>2. CASE VisitFinalize(v) \/ VisitAgain(v)
  BY <1>2, <1>p, HonestStill, HonestPut, TerminalIsHonest, TerminalState, TerminalType
  DEF VisitFinalize, VisitAgain, PC, Early, history
<1> QED BY <1>1, <1>2 DEF VisitStep

LEMMA HonestCommon ==
    ASSUME TypeInv, OpInv, HonestInv, NEW p \in Process, CommonStep(p) \/ Fail(p) \/ Die(p)
    PROVE  HonestInv'
<1>1. CASE Mark(p)
  BY <1>1, HonestPut, EarlyIsHonest DEF Mark, Undone, PC, Early, OpState
<1>2. CASE MarkRefused(p) \/ Sent(p) \/ Die(p)
  BY <1>2, HonestStill DEF MarkRefused, Sent, Die, PC, Early, ledger, history
<1>3. ASSUME NEW ch \in Channel, Send(p, ch) PROVE HonestInv'
  <2>1. PICK a \in Answer \ {"none"} :
            /\ answer' = [answer EXCEPT ![p][ch] = a]
            /\ \/ a # "accepted" /\ UNCHANGED accepted
               \/ a # "not_sent" /\ accepted' = accepted \cup {<<p, ch>>}
    BY <1>3 DEF Send
  <2>2. /\ answer'[p][ch] = a
        /\ \A q \in Process, c \in Channel : <<q, c>> # <<p, ch>> => answer'[q][c] = answer[q][c]
    BY <2>1 DEF TypeInv, TypeOK
  <2>3. <<p, ch>> \notin accepted
    BY <1>3 DEF Send, HonestInv
  <2>4. \A q \in Process, c \in Channel :
            <<q, c>> # <<p, ch>> => (<<q, c>> \in accepted' <=> <<q, c>> \in accepted)
    BY <2>1
  <2>5. \A q \in Process, c \in Channel :
            /\ answer'[q][c] = "accepted" => <<q, c>> \in accepted'
            /\ answer'[q][c] \in {"none", "not_sent"} => <<q, c>> \notin accepted'
    <3> SUFFICES ASSUME NEW q \in Process, NEW c \in Channel
                 PROVE  /\ answer'[q][c] = "accepted" => <<q, c>> \in accepted'
                        /\ answer'[q][c] \in {"none", "not_sent"} => <<q, c>> \notin accepted'
      OBVIOUS
    <3>1. CASE q = p /\ c = ch
      <4>1. CASE a = "accepted"
        BY <2>1, <2>2, <3>1, <4>1
      <4>2. CASE a # "accepted"
        BY <2>1, <2>2, <2>3, <3>1, <4>2
      <4> QED BY <4>1, <4>2
    <3>2. CASE <<q, c>> # <<p, ch>>
      BY <2>2, <2>4, <3>2 DEF HonestInv
    <3> QED BY <3>1, <3>2
  <2>6. pc[p] = "send" /\ UNCHANGED <<pc, op>> /\ op[p] \in {"dispatched", "reconciliation_required"}
    BY <1>3 DEF Send, ledger, OpInv, Calls
  <2>7. \A q \in Process : pc'[q] \in Early => \A c \in Channel : answer'[q][c] = "none"
    BY <2>2, <2>6 DEF HonestInv, Early
  <2>8. SettledHonestly'
    BY <2>4, <2>6 DEF HonestInv, SettledHonestly
  <2> QED BY <2>5, <2>7, <2>8 DEF HonestInv, Early
<1>4. CASE Fail(p)
  <2>1. PICK step \in PC : To(p, step) /\ (step \in Early => pc[p] \in Early)
    BY <1>4 DEF Fail, Undone, PC, Early
  <2> QED BY <1>4, <2>1, HonestStill DEF Fail, ledger
<1> QED BY <1>1, <1>2, <1>3, <1>4 DEF CommonStep

LEMMA HonestRest ==
    ASSUME TypeInv, HonestInv,
           OfficeStep \/ (\E k \in Key : LeaseEnds(k)) \/ (\E p \in Process : Recover(p))
    PROVE  HonestInv'
<1>1. UNCHANGED <<pc, answer, accepted>>
  BY DEF OfficeStep, Review, Deactivate, Activate, Delete, Restore, SignIn, LeaseEnds, Recover,
         locals, history
<1>2. \A q \in Process :
        \/ op'[q] = op[q]
        \/ op[q] = "requested" /\ op'[q] = "failed"
        \/ op'[q] = "reconciliation_required"
  BY DEF OfficeStep, Review, Deactivate, Activate, Delete, Restore, SignIn, LeaseEnds, Recover,
         Put, ledger, TypeInv, TypeOK
<1>3. SettledHonestly'
  BY <1>1, <1>2 DEF HonestInv, SettledHonestly
<1> QED BY <1>1, <1>3 DEF HonestInv

LEMMA HonestNext == TypeInv /\ OpInv /\ HonestInv /\ [Next]_vars => HonestInv'
<1>1. HonestInv /\ UNCHANGED vars => HonestInv'
  BY DEF HonestInv, SettledHonestly, vars, ledger, locals, history
<1> QED BY <1>1, HonestRequest, HonestVisit, HonestCommon, HonestRest DEF Next

\* An operation recorded as failed reached nobody, one recorded as succeeded
\* reached somebody, whoever settled it and whatever failed on the way.
THEOREM RecordsAreHonest == Spec => []SettledHonestly
<1>1. Init => HonestInv
  BY DEF Init, HonestInv, SettledHonestly
<1>2. HonestInv => SettledHonestly
  BY DEF HonestInv
<1> QED BY <1>1, <1>2, HonestNext, OpAlways, PTL DEF Spec

-----------------------------------------------------------------------------
(***************************************************************************)
(* Each operation on its own implements OneDelivery.                       *)
(***************************************************************************)

Taken(p) == \E ch \in Channel : <<p, ch>> \in accepted

\* What the providers accept changes only for an operation that is at one.
LEMMA AcceptMoves ==
    ASSUME TypeInv, OpInv, [Next]_vars, NEW p \in Process
    PROVE  \/ Taken(p)' = Taken(p)
           \/ Taken(p)' /\ UNCHANGED op /\ op[p] \in {"dispatched", "reconciliation_required"}
<1>1. ASSUME NEW q \in Process, NEW ch \in Channel, Send(q, ch)
      PROVE  \/ Taken(p)' = Taken(p)
             \/ Taken(p)' /\ UNCHANGED op /\ op[p] \in {"dispatched", "reconciliation_required"}
  <2>1. op' = op /\ Calls(q)
    BY <1>1 DEF Send, Calls, ledger
  <2>2. CASE q = p
    <3>1. op[p] \in {"dispatched", "reconciliation_required"}
      BY <2>1, <2>2 DEF OpInv
    <3>2. UNCHANGED accepted \/ <<p, ch>> \in accepted'
      BY <1>1, <2>2 DEF Send
    <3> QED BY <2>1, <3>1, <3>2 DEF Taken
  <2>3. CASE q # p
    <3>1. \A c \in Channel : <<p, c>> \in accepted' <=> <<p, c>> \in accepted
      BY <1>1, <2>3 DEF Send
    <3> QED BY <3>1 DEF Taken
  <2> QED BY <2>2, <2>3
<1>2. ASSUME UNCHANGED accepted PROVE Taken(p)' = Taken(p)
  BY <1>2 DEF Taken
<1> QED
  BY <1>1, <1>2
  DEF Next, RequestStep, VisitStep, CommonStep, OfficeStep, vars, history, Submit, Claim, Extend,
      Prepare, Settle, Finalize, FinalizeRefused, Reclaim, Again, VisitPrepare, VisitFinalize,
      VisitAgain, VisitUnsent, Mark, MarkRefused, Sent, Fail, Die, Recover, Review, Deactivate,
      Activate, Delete, Restore, SignIn, LeaseEnds

\* An operation is sent, refused or put up for review once and for all, and
\* never open again after a provider took its link.
THEOREM PromiseKept == Spec => KeepsPromise
<1>1. Init => \A p \in Process : Promise(p)!Init
  BY DEF Init, Promise!Init, Stage
<1>2. ASSUME TypeInv, OpInv, HonestInv, HonestInv', [Next]_vars, NEW p \in Process
      PROVE  [Promise(p)!Next]_(Promise(p)!vars)
  <2>m. Moves(p)
    BY <1>2, OperationMoves DEF AllMoves
  <2>a. \/ Taken(p)' = Taken(p)
        \/ Taken(p)' /\ op'[p] = op[p] /\ op[p] \in {"dispatched", "reconciliation_required"}
    BY <1>2, AcceptMoves
  <2>h. /\ op'[p] = "succeeded" => Taken(p)'
        /\ op'[p] = "failed" => ~Taken(p)'
    BY <1>2 DEF HonestInv, SettledHonestly, Taken
  <2> QED
    BY <2>m, <2>a, <2>h
    DEF Moves, Starts, Stage, Taken, Promise!Next, Promise!vars, Promise!Begin, Promise!Accept,
        Promise!Refuse, Promise!Confirm, Promise!Suspect
<1>3. TypeInv /\ OpInv /\ HonestInv /\ HonestInv' /\ [Next]_vars =>
        [\A p \in Process : [Promise(p)!Next]_(Promise(p)!vars)]_vars
  BY <1>2
<1>4. Init => HonestInv
  BY DEF Init, HonestInv, SettledHonestly
<1> QED BY <1>1, <1>3, <1>4, HonestNext, OpAlways, PTL DEF Spec, KeepsPromise

-----------------------------------------------------------------------------
(***************************************************************************)
(* The receipt of a key.                                                   *)
(***************************************************************************)

Sealed(k) == record[k].status = "succeeded"

LEMMA ReceiptStill ==
    ASSUME ReceiptMatches, UNCHANGED key,
           \A k \in Key : Sealed(k)' <=> Sealed(k),
           \A r \in Request : op'[r] = "succeeded" <=> op[r] = "succeeded"
    PROVE  ReceiptMatches'
BY DEF ReceiptMatches, Sealed

\* Only a key that is in progress is written to, so a receipt of success
\* stays, and only the completion writes another.
LEMMA RowSealed ==
    ASSUME TypeInv, NEW k \in Key, ~Sealed(k), NEW new \in Record,
           record' = [record EXCEPT ![k] = new], new.status # "succeeded"
    PROVE  \A j \in Key : Sealed(j)' <=> Sealed(j)
BY DEF TypeInv, TypeOK, Sealed

LEMMA TakeSealed ==
    ASSUME TypeInv, NEW r \in Request, NEW k \in Key, Claimable(k), Take(r, k)
    PROVE  \A j \in Key : Sealed(j)' <=> Sealed(j)
<1>1. ~Sealed(k)
  BY DEF Claimable, Sealed
<1> QED BY <1>1 DEF Take, Sealed, TypeInv, TypeOK

LEMMA CompleteReceipt ==
    ASSUME TypeInv, ReceiptMatches, NEW r \in Request, key[r] \in Key, Holds(r),
           op[r] = "dispatched", NEW state \in OpState, Put(r, state), Complete(r, state),
           UNCHANGED key
    PROVE  ReceiptMatches'
<1>p. r \in Process /\ Request \subseteq Process
  BY DEF Process
<1>1. \A q \in Request : key[q] = key[r] => op[q] # "succeeded"
  BY DEF Holds, ReceiptMatches
<1>2. op'[r] = state /\ \A q \in Request : q # r => op'[q] = op[q]
  BY <1>p DEF TypeInv, TypeOK, Put
<1>3. Sealed(key[r])' <=> state = "succeeded"
  <2> DEFINE status == IF state = "succeeded" THEN "succeeded" ELSE "failed"
             new == [record[key[r]] EXCEPT !.status = status]
  <2>1. record[key[r]] \in Record /\ status \in {"in_progress", "succeeded", "failed"}
    BY DEF TypeInv, TypeOK
  <2>2. new.status = status
    BY <2>1, Fields
  <2>3. record' = [record EXCEPT ![key[r]] = new]
    BY DEF Complete
  <2>4. record'[key[r]] = new
    BY <2>3 DEF TypeInv, TypeOK
  <2> QED BY <2>2, <2>4 DEF Sealed
<1>4. \A k \in Key : k # key[r] => record'[k] = record[k]
  BY DEF Complete, TypeInv, TypeOK
<1>5. ASSUME NEW k \in Key
      PROVE  record'[k].status = "succeeded" <=> \E q \in Request : key[q] = k /\ op'[q] = "succeeded"
  <2>1. CASE k = key[r]
    BY <1>1, <1>2, <1>3, <2>1 DEF Sealed
  <2>2. CASE k # key[r]
    BY <1>2, <1>4, <2>2 DEF ReceiptMatches
  <2> QED BY <2>1, <2>2
<1> QED BY <1>5 DEF ReceiptMatches

LEMMA ReceiptRequest ==
    ASSUME TypeInv, ReceiptMatches, NEW r \in Request, RequestStep(r)
    PROVE  ReceiptMatches'
<1>p. r \in Process /\ Request \subseteq Process
  BY DEF Process
<1>k. pc[r] # "idle" => key[r] \in Key
  BY DEF TypeInv
<1>1. ASSUME NEW k \in Key, Submit(r, k) PROVE ReceiptMatches'
  <2>1. op[r] = "none" /\ UNCHANGED <<op, record>> /\ \A q \in Request : q # r => key'[q] = key[q]
    BY <1>1, <1>p DEF Submit, TypeInv, TypeOK, ledger
  <2> QED BY <2>1 DEF ReceiptMatches
<1>2. CASE Claim(r) \/ Reclaim(r)
  <2>1. \A j \in Key : Sealed(j)' <=> Sealed(j)
    BY <1>2, <1>k, TakeSealed DEF Claim, Reclaim, Sealed
  <2> QED BY <1>2, <2>1, ReceiptStill DEF Claim, Reclaim, ledger
<1>3. CASE Extend(r)
  <2> DEFINE new == [record[key[r]] EXCEPT !.open = TRUE]
  <2>1. CASE Holds(r)
    <3>1. key[r] \in Key /\ record[key[r]] \in Record /\ ~Sealed(key[r])
      BY <1>3, <1>k, <2>1 DEF Extend, Holds, Sealed, TypeInv, TypeOK
    <3>2. new \in Record /\ new.status # "succeeded"
      BY <3>1, Fields DEF Sealed
    <3>3. record' = [record EXCEPT ![key[r]] = new]
      BY <1>3, <2>1 DEF Extend
    <3>4. \A j \in Key : Sealed(j)' <=> Sealed(j)
      BY <3>1, <3>2, <3>3, RowSealed
    <3> QED BY <1>3, <3>4, ReceiptStill DEF Extend, ledger
  <2> QED BY <1>3, <2>1, ReceiptStill DEF Extend, ledger, Sealed
<1>4. CASE Settle(r)
  <2> DEFINE settled == [record[key[r]] EXCEPT !.status = "failed"]
             expired == [record[key[r]] EXCEPT !.open = FALSE]
  <2>1. CASE Holds(r)
    <3>1. key[r] \in Key /\ record[key[r]] \in Record /\ ~Sealed(key[r])
      BY <1>4, <1>k, <2>1 DEF Settle, Holds, Sealed, TypeInv, TypeOK
    <3>2. /\ settled \in Record /\ settled.status # "succeeded"
          /\ expired \in Record /\ expired.status # "succeeded"
      BY <3>1, Fields DEF Sealed
    <3>3. \/ record' = [record EXCEPT ![key[r]] = settled]
          \/ record' = [record EXCEPT ![key[r]] = expired]
      BY <1>4, <2>1 DEF Settle
    <3>4. \A j \in Key : Sealed(j)' <=> Sealed(j)
      BY <3>1, <3>2, <3>3, RowSealed
    <3> QED BY <1>4, <3>4, ReceiptStill DEF Settle, ledger
  <2> QED BY <1>4, <2>1, ReceiptStill DEF Settle, ledger, Sealed
<1>5. CASE Prepare(r)
  <2>1. CASE Fit(r)
    <3>1. op[r] = "none" /\ \A q \in Request : op'[q] = IF q = r THEN "requested" ELSE op[q]
      BY <1>5, <1>p, <2>1 DEF Prepare, Fit, Put, TypeInv, TypeOK
    <3> QED BY <1>5, <3>1, ReceiptStill DEF Prepare, Sealed
  <2> QED BY <1>5, <2>1, ReceiptStill DEF Prepare, Sealed
<1>6. CASE Finalize(r)
  BY <1>6, <1>p, <1>k, CompleteReceipt, TerminalType DEF Finalize
<1>7. CASE Again(r)
  BY <1>7, <1>p, <1>k, CompleteReceipt, ReceiptStill, TerminalType DEF Again, Sealed
<1>8. CASE FinalizeRefused(r)
  BY <1>8, ReceiptStill DEF FinalizeRefused, Sealed, ledger, claims
<1> QED BY <1>1, <1>2, <1>3, <1>4, <1>5, <1>6, <1>7, <1>8 DEF RequestStep

\* Nobody but the executions of the route itself makes an operation of theirs
\* succeed or writes a receipt.
LEMMA ReceiptOthers ==
    ASSUME TypeInv, ReceiptMatches,
           \/ \E v \in Visit : VisitStep(v)
           \/ \E p \in Process : CommonStep(p) \/ Fail(p) \/ Die(p) \/ Recover(p)
           \/ OfficeStep \/ UNCHANGED vars
    PROVE  ReceiptMatches'
<1>1. UNCHANGED <<record, key>>
  BY DEF VisitStep, CommonStep, OfficeStep, VisitPrepare, VisitFinalize, VisitAgain, VisitUnsent,
         Mark, MarkRefused, Send, Sent, Fail, Die, Recover, Review, Deactivate, Activate, Delete,
         Restore, SignIn, vars, claims, locals
<1>2. \A r \in Request : op'[r] = "succeeded" <=> op[r] = "succeeded"
  <2>1. ASSUME NEW v \in Visit, VisitStep(v), NEW r \in Request PROVE op'[r] = op[r]
    <3>1. v # r
      BY ProcessAssumption
    <3> QED BY <2>1, <3>1 DEF VisitStep, VisitPrepare, VisitFinalize, VisitAgain, VisitUnsent, Put,
              TypeInv, TypeOK, Process
  <2>2. ASSUME NEW p \in Process, CommonStep(p) \/ Fail(p) \/ Die(p) \/ Recover(p), NEW r \in Request
        PROVE  op'[r] = "succeeded" <=> op[r] = "succeeded"
    <3>1. \/ op' = op
          \/ \E state \in OpState \ {"succeeded"} : op[p] # "succeeded" /\ Put(p, state)
      BY <2>2 DEF CommonStep, Mark, MarkRefused, Send, Sent, Fail, Die, Recover, ledger, OpState
    <3>2. op \in [Process -> OpState] /\ r \in Process
      BY DEF TypeInv, TypeOK, Process
    <3> QED BY <3>1, <3>2 DEF Put
  <2>3. ASSUME OfficeStep \/ UNCHANGED vars, NEW r \in Request
        PROVE  op'[r] = "succeeded" <=> op[r] = "succeeded"
    <3>1. \A q \in Process : op'[q] = "succeeded" <=> op[q] = "succeeded"
      <4>1. CASE Deactivate
        BY <4>1 DEF Deactivate
      <4>2. CASE Delete
        BY <4>2 DEF Delete
      <4>3. CASE UNCHANGED op
        BY <4>3
      <4> QED BY <2>3, <4>1, <4>2, <4>3
              DEF OfficeStep, Review, Activate, Restore, SignIn, vars, ledger
    <3> QED BY <3>1 DEF Process
  <2> QED BY <2>1, <2>2, <2>3
<1> QED BY <1>1, <1>2, ReceiptStill DEF Sealed

LEMMA ReceiptClock ==
    ASSUME TypeInv, ReceiptMatches, NEW k \in Key, LeaseEnds(k)
    PROVE  ReceiptMatches'
<1> DEFINE new == [record[k] EXCEPT !.open = FALSE]
<1>1. record[k] \in Record
  BY DEF TypeInv, TypeOK
<1>2. new.status = record[k].status
  BY <1>1, Fields
<1>3. record' = [record EXCEPT ![k] = new]
  BY DEF LeaseEnds
<1>4. \A j \in Key : Sealed(j)' <=> Sealed(j)
  BY <1>2, <1>3 DEF Sealed, TypeInv, TypeOK
<1> QED BY <1>4, ReceiptStill DEF LeaseEnds, ledger, locals

\* A receipt of success is replayed exactly for a key one of whose executions
\* sent the link, through takeovers, lost commits and late sweeps.
THEOREM ReceiptsAreTrue == Spec => []ReceiptMatches
<1>1. Init => ReceiptMatches
  BY DEF Init, ReceiptMatches, Process
<1>2. TypeInv /\ ReceiptMatches /\ [Next]_vars => ReceiptMatches'
  BY ReceiptRequest, ReceiptOthers, ReceiptClock DEF Next
<1> QED BY <1>1, <1>2, TypeAlways, PTL DEF Spec
=============================================================================
