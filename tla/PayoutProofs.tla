---------------------------- MODULE PayoutProofs ----------------------------
(* Theorems of Payout: what the locks of the job, of the week and of its     *)
(* commissions guarantee, for every number of jobs, weeks and executions.    *)
EXTENDS Payout, TLAPS

-----------------------------------------------------------------------------
(* Types.                                                                    *)

LEMMA FreeType == Free \in Steps
  BY NameAssumption DEF Free, Steps, Place, Kind

\* A turn to the next job of a list leaves everything but the place, the job
\* and the rest of the list.
LEMMA TurnMoves ==
  ASSUME NEW e \in Exec, NEW x \in Steps, Turn(e, x)
  PROVE  \E y \in Steps : /\ Become(e, y)
                          /\ y.kind = x.kind /\ y.to = x.to /\ y.week = x.week
                          /\ y.held = x.held /\ y.got = x.got
                          /\ y.at \in {"read", "end"}
                          /\ y.at = "read" => y.job \in Job
  <1>1. CASE x.todo = {}
    <2> DEFINE y == [x EXCEPT !.at = "end", !.job = None]
    <2>1. y \in Steps BY DEF Steps, Place
    <2>2. y.kind = x.kind /\ y.to = x.to /\ y.week = x.week /\ y.held = x.held /\ y.got = x.got
          /\ y.at = "end"  BY DEF Steps
    <2>3. Become(e, y) BY <1>1 DEF Turn
    <2> QED BY <2>1, <2>2, <2>3
  <1>2. CASE x.todo # {}
    <2>1. PICK j \in x.todo : Become(e, [x EXCEPT !.at = "read", !.job = j, !.todo = @ \ {j}])
      BY <1>2 DEF Turn
    <2> DEFINE y == [x EXCEPT !.at = "read", !.job = j, !.todo = @ \ {j}]
    <2>2. j \in Job BY DEF Steps
    <2>3. y \in Steps BY <2>2 DEF Steps, Place
    <2>4. y.kind = x.kind /\ y.to = x.to /\ y.week = x.week /\ y.held = x.held /\ y.got = x.got
          /\ y.at = "read" /\ y.job = j  BY DEF Steps
    <2> QED BY <2>1, <2>2, <2>3, <2>4
  <1> QED BY <1>1, <1>2

LEMMA BecomeType ==
  ASSUME exec \in [Exec -> Steps], NEW e \in Exec, NEW y \in Steps, Become(e, y)
  PROVE  /\ exec' \in [Exec -> Steps]
         /\ exec'[e] = y /\ \A f \in Exec \ {e} : exec'[f] = exec[f]
  BY DEF Become

LEMMA ReadFact ==
  ASSUME TypeOK, NEW j \in Job
  PROVE  FactOf(j) \in Fact \cup {None}
  BY DEF TypeOK, FactOf, Work

-----------------------------------------------------------------------------
(* What an execution knows of the state, wherever it is.                     *)

\* A list is worked through by a recalculation, which holds what it writes.
ListGood(x) ==
    /\ x.at \in {"read", "write"} => x.kind # "save" /\ x.job \in Job
    /\ x.at = "write" => x.job \in x.held

\* A job route has the week its job counts in, and past its decision a week
\* that is not finalized.
SaveGood(x) ==
    x.kind = "save" =>
        /\ x.at \in {"period", "commission"}
        /\ x.job \in Job
        /\ work[x.job] # None \/ x.to # None
        /\ x.week = WeekOf(x.job, x.to)
        /\ x.at = "commission" => Decide(x)

\* The run that is being locked is a draft.
CloseGood(x) == x.kind = "close" => x.week \in Period /\ run[x.week] = "draft"

\* What was read under the lock of a job's commissions is still so, unless the
\* job was reopened: nobody completes it again while the lock is held.
HeldGood(x) == \A j \in x.held : work[j] = None \/ x.got[j] = work[j].fact

Good(x) == ListGood(x) /\ SaveGood(x) /\ CloseGood(x) /\ HeldGood(x)

Holds(x, p) == x.week = p /\ ((x.kind = "save" /\ x.at = "commission") \/ x.kind = "close")

OneRow == \A e, f \in Exec, j \in Job : RowHeldBy(e, j) /\ RowHeldBy(f, j) => e = f
OnePeriod == \A e, f \in Exec, p \in Period : PeriodHeldBy(e, p) /\ PeriodHeldBy(f, p) => e = f

Moves(e, y) ==
    /\ Become(e, y)
    /\ Good(y)
    /\ y.kind = "save" => RowHeldBy(e, y.job) \/ ~RowHeld(y.job)
    /\ \A p \in Period : Holds(y, p) => PeriodHeldBy(e, p) \/ ~PeriodHeld(p)

Inv ==
    /\ TypeOK
    /\ \A e \in Exec : Good(exec[e])
    /\ OneRow
    /\ OnePeriod
    /\ CommissionsAreCurrent
    /\ FinalizedIsTrue

LEMMA FreeGood == Good(Free)
  BY DEF Good, ListGood, SaveGood, CloseGood, HeldGood, Free

LEMMA FreeMoves ==
  ASSUME NEW e \in Exec, Become(e, Free)
  PROVE  \E y \in Steps : Moves(e, y)
  <1>1. Free.kind = "none" BY DEF Free
  <1>2. Moves(e, Free) BY <1>1, FreeGood DEF Moves, Holds
  <1> QED BY <1>2, FreeType

\* A turn moves well if the list it goes through does.
LEMMA TurnGood ==
  ASSUME NEW e \in Exec, NEW x \in Steps, Turn(e, x), x.kind # "save",
         CloseGood(x), HeldGood(x),
         \A p \in Period : Holds(x, p) => PeriodHeldBy(e, p) \/ ~PeriodHeld(p)
  PROVE  \E y \in Steps : Moves(e, y)
  <1>1. PICK y \in Steps : /\ Become(e, y)
                           /\ y.kind = x.kind /\ y.to = x.to /\ y.week = x.week
                           /\ y.held = x.held /\ y.got = x.got
                           /\ y.at \in {"read", "end"}
                           /\ y.at = "read" => y.job \in Job
    BY TurnMoves
  <1>2. Good(y) BY <1>1 DEF Good, ListGood, SaveGood, CloseGood, HeldGood
  <1>3. \A p \in Period : Holds(y, p) => PeriodHeldBy(e, p) \/ ~PeriodHeld(p)
    BY <1>1 DEF Holds
  <1>4. Moves(e, y) BY <1>1, <1>2, <1>3 DEF Moves
  <1> QED BY <1>4

LEMMA SaveMoves ==
  ASSUME TypeOK, NEW e \in Exec, NEW j \in Job, NEW to \in Work \cup {None}, Save(e, j, to)
  PROVE  \E y \in Steps : Moves(e, y)
  <1> DEFINE x == [Free EXCEPT !.at = "period", !.kind = "save", !.job = j,
                               !.to = to, !.week = WeekOf(j, to)]
  <1>1. WeekOf(j, to) \in Period
    BY DEF Save, WeekOf, TypeOK, Work
  <1>2. x \in Steps BY <1>1, FreeType DEF Steps, Place, Kind
  <1>3. /\ x.at = "period" /\ x.kind = "save" /\ x.job = j /\ x.to = to
        /\ x.week = WeekOf(j, to) /\ x.held = {}
    BY DEF Free
  <1>4. Become(e, x) /\ ~RowHeld(j) /\ to # work[j] BY DEF Save
  <1> HIDE DEF x
  <1>5. Good(x) BY <1>3, <1>4 DEF Good, ListGood, SaveGood, CloseGood, HeldGood
  <1>6. Moves(e, x) BY <1>3, <1>4, <1>5 DEF Moves, Holds
  <1> QED BY <1>2, <1>6

LEMMA SavePeriodMoves ==
  ASSUME TypeOK, NEW e \in Exec, Good(exec[e]), SavePeriod(e)
  PROVE  \E y \in Steps : Moves(e, y)
  <1> DEFINE x == exec[e]
  <1> DEFINE y == [x EXCEPT !.at = "commission"]
  <1>0. x \in Steps BY DEF TypeOK
  <1>1. CASE ~Decide(x) BY <1>1, FreeMoves DEF SavePeriod
  <1>2. CASE Decide(x)
    <2>1. y \in Steps BY <1>0 DEF Steps, Place
    <2>2. /\ y.at = "commission" /\ y.kind = x.kind /\ y.job = x.job /\ y.to = x.to
          /\ y.week = x.week /\ y.held = x.held /\ y.got = x.got
      BY <1>0 DEF Steps
    <2>3. Become(e, y) /\ x.kind = "save" /\ ~PeriodHeld(x.week)
      BY <1>2 DEF SavePeriod, In
    <2>4. Decide(y) BY <1>2, <2>2 DEF Decide
    <2> HIDE DEF y
    <2>5. Good(y) BY <2>2, <2>3, <2>4 DEF Good, ListGood, SaveGood, CloseGood, HeldGood
    <2>6. RowHeldBy(e, y.job) BY <2>2, <2>3 DEF RowHeldBy
    <2>7. Moves(e, y) BY <2>2, <2>3, <2>5, <2>6 DEF Moves, Holds
    <2> QED BY <2>1, <2>7
  <1> QED BY <1>1, <1>2

LEMMA ReadMoves ==
  ASSUME TypeOK, NEW e \in Exec, Good(exec[e]), Read(e)
  PROVE  \E y \in Steps : Moves(e, y)
  <1> DEFINE x == exec[e]
             j == x.job
             y == [x EXCEPT !.at = "write", !.held = @ \cup {j}, !.got[j] = FactOf(j)]
  <1>0. x \in Steps BY DEF TypeOK
  <1>1. x.at = "read" /\ x.kind # "save" /\ j \in Job /\ Become(e, y)
    BY DEF Read, At, Good, ListGood
  <1>2. FactOf(j) \in Fact \cup {None} BY <1>1, ReadFact
  <1>3. y \in Steps BY <1>0, <1>1, <1>2 DEF Steps, Place
  <1>4. /\ y.at = "write" /\ y.kind = x.kind /\ y.job = j /\ y.week = x.week
        /\ y.held = x.held \cup {j}
        /\ y.got[j] = FactOf(j) /\ \A i \in Job \ {j} : y.got[i] = x.got[i]
    BY <1>0, <1>1 DEF Steps
  <1>5. x.held \subseteq Job BY <1>0 DEF Steps
  <1> HIDE DEF y
  <1>6. HeldGood(y)
    <2>1. HeldGood(x) BY DEF Good
    <2> QED BY <1>1, <1>4, <1>5, <2>1 DEF HeldGood, FactOf
  <1>7. Good(y) BY <1>1, <1>4, <1>6 DEF Good, ListGood, SaveGood, CloseGood
  <1>8. \A p \in Period : Holds(y, p) => PeriodHeldBy(e, p)
    BY <1>1, <1>4 DEF Holds, PeriodHeldBy, In
  <1>9. Moves(e, y) BY <1>1, <1>4, <1>7, <1>8 DEF Moves
  <1> QED BY <1>3, <1>9

LEMMA WriteMoves ==
  ASSUME TypeOK, NEW e \in Exec, Good(exec[e]), TallyWrite(e) \/ CloseWrite(e)
  PROVE  \E y \in Steps : Moves(e, y)
  <1> DEFINE x == exec[e]
  <1>0. x \in Steps BY DEF TypeOK
  <1>1. CASE TallyWrite(e)
    <2> DEFINE z == [x EXCEPT !.held = {}, !.got[x.job] = None]
    <2>1. Turn(e, z) /\ x.kind = "tally" /\ x.at = "write" BY <1>1 DEF TallyWrite, In
    <2>2. x.job \in Job BY <2>1 DEF Good, ListGood
    <2>3. z \in Steps BY <1>0, <2>2 DEF Steps
    <2>4. z.kind = "tally" /\ z.held = {} BY <1>0, <2>1 DEF Steps
    <2> HIDE DEF z
    <2>5. CloseGood(z) /\ HeldGood(z) /\ \A p \in Period : ~Holds(z, p)
      BY <2>4 DEF CloseGood, HeldGood, Holds
    <2> QED BY <2>1, <2>3, <2>4, <2>5, TurnGood
  <1>2. CASE CloseWrite(e)
    <2>1. Turn(e, x) /\ x.kind = "close" BY <1>2 DEF CloseWrite, In
    <2>2. CloseGood(x) /\ HeldGood(x) BY DEF Good
    <2>3. \A p \in Period : Holds(x, p) => PeriodHeldBy(e, p)
      BY <2>1 DEF Holds, PeriodHeldBy
    <2> QED BY <1>0, <2>1, <2>2, <2>3, TurnGood
  <1> QED BY <1>1, <1>2

LEMMA ListMoves ==
  ASSUME TypeOK, NEW e \in Exec,
         \/ \E p \in Period : (\E create \in BOOLEAN : Tally(e, p, create)) \/ Close(e, p)
         \/ \E j \in Job : Override(e, j)
  PROVE  \E y \in Steps : Moves(e, y)
  <1>1. ASSUME NEW p \in Period, NEW create \in BOOLEAN, Tally(e, p, create)
        PROVE  \E y \in Steps : Moves(e, y)
    <2> DEFINE z == [Free EXCEPT !.kind = "tally", !.todo = WorkOf(p),
                                 !.week = IF create THEN p ELSE None]
    <2>1. z \in Steps BY FreeType DEF Steps, Kind, WorkOf
    <2>2. z.kind = "tally" /\ z.held = {} /\ Turn(e, z) BY <1>1 DEF Free, Tally
    <2> HIDE DEF z
    <2>3. CloseGood(z) /\ HeldGood(z) /\ \A q \in Period : ~Holds(z, q)
      BY <2>2 DEF CloseGood, HeldGood, Holds
    <2> QED BY <2>1, <2>2, <2>3, TurnGood
  <1>2. ASSUME NEW p \in Period, Close(e, p)
        PROVE  \E y \in Steps : Moves(e, y)
    <2> DEFINE z == [Free EXCEPT !.kind = "close", !.week = p, !.todo = WorkOf(p)]
    <2>1. z \in Steps BY FreeType DEF Steps, Kind, WorkOf
    <2>2. z.kind = "close" /\ z.week = p /\ z.held = {} /\ Turn(e, z) BY <1>2 DEF Free, Close
    <2>3. run[p] = "draft" /\ ~PeriodHeld(p) BY <1>2 DEF Close, MayLock
    <2> HIDE DEF z
    <2>4. CloseGood(z) /\ HeldGood(z) /\ \A q \in Period : Holds(z, q) => ~PeriodHeld(q)
      BY <2>2, <2>3 DEF CloseGood, HeldGood, Holds
    <2> QED BY <2>1, <2>2, <2>4, TurnGood
  <1>3. ASSUME NEW j \in Job, Override(e, j)
        PROVE  \E y \in Steps : Moves(e, y)
    <2> DEFINE z == [Free EXCEPT !.kind = "tally", !.todo = {j}]
    <2>1. z \in Steps BY FreeType DEF Steps, Kind
    <2>2. z.kind = "tally" /\ z.held = {} /\ Turn(e, z) BY <1>3 DEF Free, Override
    <2> HIDE DEF z
    <2>3. CloseGood(z) /\ HeldGood(z) /\ \A q \in Period : ~Holds(z, q)
      BY <2>2 DEF CloseGood, HeldGood, Holds
    <2> QED BY <2>1, <2>2, <2>3, TurnGood
  <1> QED BY <1>1, <1>2, <1>3
-----------------------------------------------------------------------------
(* Every step moves at most one execution.                                   *)

\* What a step does to the executions: nothing, or a good move of one.
LEMMA NextMoves ==
  ASSUME TypeOK, \A e \in Exec : Good(exec[e]), Next
  PROVE  UNCHANGED exec \/ \E e \in Exec, y \in Steps : Moves(e, y)
  <1>1. ASSUME NEW e \in Exec, NEW j \in Job,
               (\E to \in Work \cup {None} : Save(e, j, to)) \/ Override(e, j)
        PROVE  \E y \in Steps : Moves(e, y)
    BY <1>1, SaveMoves, ListMoves
  <1>2. ASSUME NEW e \in Exec, NEW p \in Period,
               (\E create \in BOOLEAN : Tally(e, p, create)) \/ Close(e, p)
        PROVE  \E y \in Steps : Moves(e, y)
    BY <1>2, ListMoves
  <1>3. ASSUME NEW e \in Exec,
               \/ SavePeriod(e) \/ SaveCommit(e) \/ Read(e) \/ TallyWrite(e)
               \/ CloseWrite(e) \/ TallyEnd(e) \/ CloseCommit(e) \/ Victim(e) \/ Die(e)
        PROVE  \E y \in Steps : Moves(e, y)
    <2>1. CASE SavePeriod(e) BY <2>1, SavePeriodMoves
    <2>2. CASE Read(e) BY <2>2, ReadMoves
    <2>3. CASE TallyWrite(e) \/ CloseWrite(e) BY <2>3, WriteMoves
    <2>4. CASE SaveCommit(e) \/ TallyEnd(e) \/ CloseCommit(e) \/ Victim(e) \/ Die(e)
      BY <2>4, FreeMoves DEF SaveCommit, TallyEnd, CloseCommit, Victim, Die
    <2> QED BY <1>3, <2>1, <2>2, <2>3, <2>4
  <1>4. ASSUME NEW j \in Job, Reopen(j)  PROVE UNCHANGED exec
    BY <1>4 DEF Reopen
  <1>5. ASSUME NEW p \in Period, Pay(p) \/ \E c \in Claim : AddClaim(p, c) \/ RemoveClaim(p, c)
        PROVE  UNCHANGED exec
    BY <1>5 DEF Pay, AddClaim, RemoveClaim
  <1> QED BY <1>1, <1>2, <1>3, <1>4, <1>5 DEF Next

LEMMA StepsType ==
  ASSUME TypeOK, UNCHANGED exec \/ \E e \in Exec, y \in Steps : Moves(e, y)
  PROVE  exec' \in [Exec -> Steps]
  BY BecomeType DEF TypeOK, Moves

\* The locks of rows and weeks exclude each other.
LEMMA LocksExclude ==
  ASSUME TypeOK, OneRow, OnePeriod,
         UNCHANGED exec \/ \E e \in Exec, y \in Steps : Moves(e, y)
  PROVE  OneRow' /\ OnePeriod'
  <1>1. CASE UNCHANGED exec
    BY <1>1 DEF OneRow, OnePeriod, RowHeldBy, PeriodHeldBy, In
  <1>2. CASE \E e \in Exec, y \in Steps : Moves(e, y)
    <2>1. PICK e \in Exec, y \in Steps : Moves(e, y) BY <1>2
    <2>2. exec'[e] = y /\ \A f \in Exec \ {e} : exec'[f] = exec[f]
      BY <2>1, BecomeType DEF Moves, TypeOK
    <2>3. OneRow' BY <2>1, <2>2 DEF OneRow, RowHeldBy, RowHeld, Moves
    <2>4. OnePeriod'
      BY <2>1, <2>2 DEF OnePeriod, PeriodHeldBy, PeriodHeld, Holds, Moves, In
    <2> QED BY <2>3, <2>4
  <1> QED BY <1>1, <1>2
-----------------------------------------------------------------------------
(* What an execution knows stays so while others move.                       *)

LEMMA GoodKept ==
  ASSUME NEW x \in Steps, Good(x),
         x.kind = "save" => work'[x.job] = work[x.job],
         \A j \in x.held : work'[j] = work[j] \/ work'[j] = None,
         x.kind = "save" /\ x.at = "commission" => run'[x.week] \notin Final,
         x.kind = "close" => run'[x.week] = "draft"
  PROVE  Good(x)'
  <1>1. ListGood(x)' BY DEF Good, ListGood
  <1>2. SaveGood(x)' BY DEF Good, SaveGood, WeekOf, Decide
  <1>3. CloseGood(x)' BY DEF Good, CloseGood
  <1>4. HeldGood(x)' BY DEF Good, HeldGood
  <1> QED BY <1>1, <1>2, <1>3, <1>4 DEF Good

\* A step that ends an execution and changes the state keeps the others good
\* if each of them is kept good.
LEMMA OthersGood ==
  ASSUME Inv, NEW e \in Exec, Become(e, Free),
         \A f \in Exec \ {e} :
           /\ exec[f].kind = "save" => work'[exec[f].job] = work[exec[f].job]
           /\ \A j \in exec[f].held : work'[j] = work[j] \/ work'[j] = None
           /\ exec[f].kind = "save" /\ exec[f].at = "commission" => run'[exec[f].week] \notin Final
           /\ exec[f].kind = "close" => run'[exec[f].week] = "draft"
  PROVE  \A f \in Exec : Good(exec[f])'
  <1> SUFFICES ASSUME NEW f \in Exec PROVE Good(exec[f])'
    OBVIOUS
  <1>1. exec'[e] = Free /\ \A g \in Exec \ {e} : exec'[g] = exec[g]
    BY FreeType, BecomeType DEF Inv, TypeOK
  <1>2. CASE f = e
    BY <1>1, <1>2 DEF Good, ListGood, SaveGood, CloseGood, HeldGood, Free
  <1>3. CASE f # e
    <2>1. PICK x \in Steps : x = exec[f] BY DEF Inv, TypeOK
    <2>2. Good(x) BY <2>1 DEF Inv
    <2>3. Good(x)' BY <1>3, <2>1, <2>2, GoodKept
    <2>4. exec'[f] = x BY <1>1, <1>3, <2>1
    <2> QED BY <2>3, <2>4 DEF Good, ListGood, SaveGood, CloseGood, HeldGood, Decide, WeekOf
  <1> QED BY <1>2, <1>3

\* So does a step that leaves the executions alone.
LEMMA AllGood ==
  ASSUME Inv, UNCHANGED exec,
         \A f \in Exec :
           /\ exec[f].kind = "save" => work'[exec[f].job] = work[exec[f].job]
           /\ \A j \in exec[f].held : work'[j] = work[j] \/ work'[j] = None
           /\ exec[f].kind = "save" /\ exec[f].at = "commission" => run'[exec[f].week] \notin Final
           /\ exec[f].kind = "close" => run'[exec[f].week] = "draft"
  PROVE  \A f \in Exec : Good(exec[f])'
  <1> SUFFICES ASSUME NEW f \in Exec PROVE Good(exec[f])'
    OBVIOUS
  <1>1. PICK x \in Steps : x = exec[f] BY DEF Inv, TypeOK
  <1>2. Good(x) BY <1>1 DEF Inv
  <1>3. Good(x)' BY <1>1, <1>2, GoodKept
  <1>4. exec'[f] = x BY <1>1
  <1> QED BY <1>3, <1>4 DEF Good, ListGood, SaveGood, CloseGood, HeldGood, Decide, WeekOf

\* And one that moves an execution and changes neither jobs nor runs.
LEMMA QuietGood ==
  ASSUME Inv, UNCHANGED <<work, run>>,
         UNCHANGED exec \/ \E e \in Exec, y \in Steps : Moves(e, y)
  PROVE  \A f \in Exec : Good(exec[f])'
  <1> SUFFICES ASSUME NEW f \in Exec PROVE Good(exec[f])'
    OBVIOUS
  <1>1. exec' \in [Exec -> Steps] BY StepsType DEF Inv
  <1>2. Good(exec'[f])
    <2>1. CASE UNCHANGED exec BY <2>1 DEF Inv
    <2>2. CASE \E e \in Exec, y \in Steps : Moves(e, y)
      <3>1. PICK e \in Exec, y \in Steps : Moves(e, y) BY <2>2
      <3>2. exec'[e] = y /\ \A g \in Exec \ {e} : exec'[g] = exec[g]
        BY <3>1, BecomeType DEF Moves, Inv, TypeOK
      <3>3. CASE f = e BY <3>1, <3>2, <3>3 DEF Moves
      <3>4. CASE f # e BY <3>2, <3>4 DEF Inv
      <3> QED BY <3>3, <3>4
    <2> QED BY <2>1, <2>2
  <1>3. PICK x \in Steps : x = exec'[f] BY <1>1
  <1>4. Good(x) BY <1>2, <1>3
  <1>5. /\ x.kind = "save" => work'[x.job] = work[x.job]
        /\ \A j \in x.held : work'[j] = work[j] \/ work'[j] = None
        /\ x.kind = "save" /\ x.at = "commission" => run'[x.week] \notin Final
        /\ x.kind = "close" => run'[x.week] = "draft"
    BY <1>4 DEF Good, SaveGood, CloseGood, Decide
  <1>6. Good(x)' BY <1>4, <1>5, GoodKept
  <1> QED BY <1>3, <1>6 DEF Good, ListGood, SaveGood, CloseGood, HeldGood, Decide, WeekOf

-----------------------------------------------------------------------------
(* The books, step by step.                                                  *)

Kept == /\ \A f \in Exec : Good(exec[f])'
        /\ CommissionsAreCurrent'
        /\ FinalizedIsTrue'

\* A job that a route saves counts in a week that is not finalized, before and
\* after.
LEMMA SaveCommitKeeps ==
  ASSUME Inv, NEW e \in Exec, SaveCommit(e)
  PROVE  Kept
  <1> DEFINE x == exec[e]
             j == x.job
  <1>0. x \in Steps BY DEF Inv, TypeOK
  <1>1. /\ x.kind = "save" /\ x.at = "commission" /\ ~CommHeld(j)
        /\ work' = [work EXCEPT ![j] = x.to]
        /\ commission' = [commission EXCEPT ![j] = IF x.to = None THEN None ELSE x.to.fact]
        /\ Become(e, Free) /\ UNCHANGED <<books, strays>>
    BY DEF SaveCommit, In
  <1>2. /\ j \in Job /\ x.to \in Work \cup {None}
        /\ work[j] # None \/ x.to # None
        /\ x.week = WeekOf(j, x.to) /\ Decide(x)
    BY <1>0, <1>1 DEF Inv, Good, SaveGood, Steps
  <1>3. /\ run[x.week] \notin Final
        /\ work[j] # None => work[j].week = x.week
        /\ x.to # None => x.to.week = x.week
    BY <1>2 DEF Decide, WeekOf
  <1>t. work \in [Job -> Work \cup {None}] /\ commission \in [Job -> Fact \cup {None}]
    BY DEF Inv, TypeOK
  <1>4. work'[j] = x.to /\ \A i \in Job \ {j} : work'[i] = work[i]
    BY <1>1, <1>2, <1>t
  <1>5. \A f \in Exec : Good(exec[f])'
    <2> SUFFICES ASSUME NEW f \in Exec \ {e}
                 PROVE /\ exec[f].kind = "save" => work'[exec[f].job] = work[exec[f].job]
                       /\ \A i \in exec[f].held : work'[i] = work[i] \/ work'[i] = None
                       /\ exec[f].kind = "save" /\ exec[f].at = "commission" => run'[exec[f].week] \notin Final
                       /\ exec[f].kind = "close" => run'[exec[f].week] = "draft"
      BY <1>1, OthersGood
    <2>1. Good(exec[f]) /\ exec[f] \in Steps BY DEF Inv, TypeOK
    <2>2. run' = run BY <1>1 DEF books
    <2>3. exec[f].kind = "save" => exec[f].job # j
      BY <1>1, <1>2 DEF Inv, OneRow, RowHeldBy
    <2>4. j \notin exec[f].held BY <1>1 DEF CommHeld, CommHeldBy
    <2>5. exec[f].kind = "save" => exec[f].job \in Job BY <2>1 DEF Good, SaveGood
    <2>6. exec[f].held \subseteq Job BY <2>1 DEF Steps
    <2> QED BY <1>4, <2>1, <2>2, <2>3, <2>4, <2>5, <2>6 DEF Good, SaveGood, CloseGood, Decide
  <1>6. CommissionsAreCurrent'
    <2>1. commission'[j] = IF x.to = None THEN None ELSE x.to.fact
      BY <1>1, <1>2, <1>t
    <2>2. \A i \in Job \ {j} : commission'[i] = commission[i] BY <1>1, <1>2, <1>t
    <2>3. CommissionsAreCurrent BY DEF Inv
    <2> QED BY <1>4, <2>1, <2>2, <2>3 DEF CommissionsAreCurrent
  <1>7. FinalizedIsTrue'
    <2>1. FinalizedIsTrue BY DEF Inv
    <2>2. \A p \in Period, f \in Fact : run[p] \in Final =>
            (work'[j] = [week |-> p, fact |-> f] <=> work[j] = [week |-> p, fact |-> f])
      <3> SUFFICES ASSUME NEW p \in Period, NEW f \in Fact, run[p] \in Final
                   PROVE  /\ work'[j] # [week |-> p, fact |-> f]
                          /\ work[j] # [week |-> p, fact |-> f]
        OBVIOUS
      <3>1. x.week # p BY <1>3
      <3>2. [week |-> p, fact |-> f] \in Work BY DEF Work
      <3> QED BY <1>3, <1>4, <3>1, <3>2, WorkAssumption
    <2> QED BY <1>1, <1>4, <2>1, <2>2 DEF FinalizedIsTrue, books
  <1> QED BY <1>5, <1>6, <1>7 DEF Kept

\* A reopened job is a stray of its finalized week.
LEMMA ReopenKeeps ==
  ASSUME Inv, NEW j \in Job, Reopen(j)
  PROVE  Kept
  <1>1. /\ work[j] # None /\ ~RowHeld(j)
        /\ work' = [work EXCEPT ![j] = None]
        /\ strays' = strays \cup {<<j, p>> : p \in {q \in Period : q = work[j].week /\ run[q] \in Final}}
        /\ UNCHANGED <<commission, books, exec>>
    BY DEF Reopen
  <1>t. work \in [Job -> Work \cup {None}] BY DEF Inv, TypeOK
  <1>2. work'[j] = None /\ \A i \in Job \ {j} : work'[i] = work[i] BY <1>1, <1>t
  <1>3. \A f \in Exec : Good(exec[f])'
    <2> SUFFICES ASSUME NEW f \in Exec
                 PROVE /\ exec[f].kind = "save" => work'[exec[f].job] = work[exec[f].job]
                       /\ \A i \in exec[f].held : work'[i] = work[i] \/ work'[i] = None
                       /\ exec[f].kind = "save" /\ exec[f].at = "commission" => run'[exec[f].week] \notin Final
                       /\ exec[f].kind = "close" => run'[exec[f].week] = "draft"
      BY <1>1, AllGood
    <2>1. Good(exec[f]) /\ exec[f] \in Steps BY DEF Inv, TypeOK
    <2>2. run' = run BY <1>1 DEF books
    <2>3. exec[f].kind = "save" => exec[f].job # j
      BY <1>1 DEF RowHeld, RowHeldBy
    <2>4. exec[f].kind = "save" => exec[f].job \in Job BY <2>1 DEF Good, SaveGood
    <2>5. exec[f].held \subseteq Job BY <2>1 DEF Steps
    <2> QED BY <1>2, <2>1, <2>2, <2>3, <2>4, <2>5 DEF Good, SaveGood, CloseGood, Decide
  <1>4. CommissionsAreCurrent' BY <1>1, <1>2 DEF Inv, CommissionsAreCurrent
  <1>5. FinalizedIsTrue'
    <2>1. FinalizedIsTrue BY DEF Inv
    <2>2. \A p \in Period, f \in Fact : run[p] \in Final /\ <<j, p>> \notin strays' =>
            (work'[j] = [week |-> p, fact |-> f] <=> work[j] = [week |-> p, fact |-> f])
      <3> SUFFICES ASSUME NEW p \in Period, NEW f \in Fact, run[p] \in Final, <<j, p>> \notin strays'
                   PROVE  /\ work'[j] # [week |-> p, fact |-> f]
                          /\ work[j] # [week |-> p, fact |-> f]
        OBVIOUS
      <3>1. work[j].week # p BY <1>1
      <3>2. [week |-> p, fact |-> f] \in Work BY DEF Work
      <3> QED BY <1>2, <3>1, <3>2, WorkAssumption
    <2>3. strays \subseteq strays' BY <1>1
    <2> QED BY <1>1, <1>2, <2>1, <2>2, <2>3 DEF FinalizedIsTrue, books
  <1> QED BY <1>3, <1>4, <1>5 DEF Kept
\* A step that changes neither jobs nor books.
LEMMA QuietKeeps ==
  ASSUME Inv, UNCHANGED <<work, books, strays>>,
         UNCHANGED exec \/ \E e \in Exec, y \in Steps : Moves(e, y),
         \/ UNCHANGED commission
         \/ \E e \in Exec : TallyWrite(e)
  PROVE  Kept
  <1>1. \A f \in Exec : Good(exec[f])' BY QuietGood DEF books
  <1>2. CommissionsAreCurrent'
    <2>1. CASE UNCHANGED commission BY <2>1 DEF Inv, CommissionsAreCurrent
    <2>2. CASE \E e \in Exec : TallyWrite(e)
      <3>1. PICK e \in Exec : TallyWrite(e) BY <2>2
      <3> DEFINE x == exec[e]
                 j == x.job
      <3>2. Good(x) BY DEF Inv
      <3>3. x.at = "write" /\ commission' = [commission EXCEPT ![j] = x.got[j]]
        BY <3>1 DEF TallyWrite, In
      <3>4. j \in Job /\ j \in x.held BY <3>2, <3>3 DEF Good, ListGood
      <3>5. work[j] = None \/ x.got[j] = work[j].fact
        BY <3>2, <3>4 DEF Good, HeldGood
      <3>6. /\ commission'[j] = x.got[j]
            /\ \A i \in Job \ {j} : commission'[i] = commission[i]
        BY <3>3, <3>4 DEF Inv, TypeOK
      <3> QED BY <3>5, <3>6 DEF Inv, CommissionsAreCurrent
    <2> QED BY <2>1, <2>2
  <1>3. FinalizedIsTrue' BY DEF Inv, FinalizedIsTrue, books
  <1> QED BY <1>1, <1>2, <1>3 DEF Kept

\* A run is created as a draft.
LEMMA TallyEndKeeps ==
  ASSUME Inv, NEW e \in Exec, TallyEnd(e)
  PROVE  Kept
  <1>1. /\ run' = [q \in Period |-> IF q = exec[e].week /\ run[q] = "none" THEN "draft" ELSE run[q]]
        /\ Become(e, Free)
        /\ UNCHANGED <<work, commission, lines, claims, expense, faults, strays>>
    BY DEF TallyEnd
  <1>2. \A q \in Period : run'[q] = run[q] \/ (run[q] = "none" /\ run'[q] = "draft")
    BY <1>1
  <1>3. \A f \in Exec : Good(exec[f])'
    <2> SUFFICES ASSUME NEW f \in Exec \ {e}
                 PROVE /\ exec[f].kind = "save" => work'[exec[f].job] = work[exec[f].job]
                       /\ \A i \in exec[f].held : work'[i] = work[i] \/ work'[i] = None
                       /\ exec[f].kind = "save" /\ exec[f].at = "commission" => run'[exec[f].week] \notin Final
                       /\ exec[f].kind = "close" => run'[exec[f].week] = "draft"
      BY <1>1, OthersGood
    <2>1. Good(exec[f]) /\ exec[f] \in Steps BY DEF Inv, TypeOK
    <2>2. exec[f].kind = "save" => exec[f].week \in Period
      BY <2>1 DEF Good, SaveGood, WeekOf, Inv, TypeOK, Work, Steps
    <2> QED BY <1>1, <1>2, <2>1, <2>2 DEF Good, SaveGood, CloseGood, Decide, Final
  <1>4. CommissionsAreCurrent' BY <1>1 DEF Inv, CommissionsAreCurrent
  <1>5. FinalizedIsTrue' BY <1>1, <1>2 DEF Inv, FinalizedIsTrue, Final
  <1> QED BY <1>3, <1>4, <1>5 DEF Kept

\* What lockPayoutRun writes is the work of the week as it is.
LEMMA EarnedIsWork ==
  ASSUME Inv, NEW e \in Exec, NEW p \in Period, NEW j \in Job, NEW f \in Fact
  PROVE  <<j, f>> \in Earned(e, p) <=> work[j] = [week |-> p, fact |-> f]
  <1> DEFINE now == IF j \in exec[e].held THEN exec[e].got[j] ELSE commission[j]
  <1>1. work[j] # None => now = work[j].fact
    BY DEF Inv, Good, HeldGood, CommissionsAreCurrent
  <1>2. <<j, f>> \in Earned(e, p) <=> work[j] # None /\ work[j].week = p /\ f = now
    BY DEF Earned, WorkOf
  <1>3. work[j] # None => work[j] \in Work BY DEF Inv, TypeOK
  <1>4. [week |-> p, fact |-> f] \in Work BY DEF Work
  <1>5. CASE work[j] = None BY <1>2, <1>4, <1>5, WorkAssumption
  <1>6. CASE work[j] # None
    <2>1. work[j] = [week |-> p, fact |-> f] <=> work[j].week = p /\ work[j].fact = f
      BY <1>3, <1>6 DEF Work
    <2> HIDE DEF now
    <2> QED BY <1>1, <1>2, <1>6, <2>1
  <1> QED BY <1>5, <1>6

LEMMA CloseCommitKeeps ==
  ASSUME Inv, NEW e \in Exec, CloseCommit(e)
  PROVE  Kept
  <1> DEFINE p == exec[e].week
  <1>1. /\ exec[e].kind = "close"
        /\ commission' = [j \in Job |-> IF j \in exec[e].held THEN exec[e].got[j] ELSE commission[j]]
        /\ lines' = [lines EXCEPT ![p] = [work |-> Earned(e, p), claims |-> claims[p]]]
        /\ run' = [run EXCEPT ![p] = "locked"]
        /\ Become(e, Free)
        /\ UNCHANGED <<work, claims, expense, faults, strays>>
    BY DEF CloseCommit, In
  <1>2. p \in Period /\ run[p] = "draft" BY <1>1 DEF Inv, Good, CloseGood
  <1>3. /\ run'[p] = "locked" /\ \A q \in Period \ {p} : run'[q] = run[q]
        /\ lines'[p] = [work |-> Earned(e, p), claims |-> claims[p]]
        /\ \A q \in Period \ {p} : lines'[q] = lines[q]
    BY <1>1, <1>2 DEF Inv, TypeOK
  <1>4. \A f \in Exec : Good(exec[f])'
    <2> SUFFICES ASSUME NEW f \in Exec \ {e}
                 PROVE /\ exec[f].kind = "save" => work'[exec[f].job] = work[exec[f].job]
                       /\ \A i \in exec[f].held : work'[i] = work[i] \/ work'[i] = None
                       /\ exec[f].kind = "save" /\ exec[f].at = "commission" => run'[exec[f].week] \notin Final
                       /\ exec[f].kind = "close" => run'[exec[f].week] = "draft"
      BY <1>1, OthersGood
    <2>1. Good(exec[f]) /\ exec[f] \in Steps BY DEF Inv, TypeOK
    <2>2. exec[f].kind = "save" => exec[f].week \in Period
      BY <2>1 DEF Good, SaveGood, WeekOf, Inv, TypeOK, Work, Steps
    <2>3. ~PeriodHeldBy(f, p)
      BY <1>1, <1>2 DEF Inv, OnePeriod, PeriodHeldBy
    <2> QED BY <1>1, <1>3, <2>1, <2>2, <2>3
            DEF Good, SaveGood, CloseGood, Decide, PeriodHeldBy, In
  <1>5. CommissionsAreCurrent'
    <2> SUFFICES ASSUME NEW j \in Job, work[j] # None PROVE commission'[j] = work[j].fact
      BY <1>1 DEF CommissionsAreCurrent
    <2> QED BY <1>1 DEF Inv, Good, HeldGood, CommissionsAreCurrent
  <1>6. FinalizedIsTrue'
    <2>1. FinalizedIsTrue BY DEF Inv
    <2>2. \A j \in Job, f \in Fact : <<j, f>> \in lines'[p].work <=> work[j] = [week |-> p, fact |-> f]
      <3>1. lines'[p].work = Earned(e, p) BY <1>3
      <3>2. PICK q \in Period : q = p BY <1>2
      <3>3. \A j \in Job, f \in Fact : <<j, f>> \in Earned(e, q) <=> work[j] = [week |-> q, fact |-> f]
        BY EarnedIsWork
      <3> QED BY <3>1, <3>2, <3>3
    <2>3. lines'[p].claims = claims[p] BY <1>3
    <2>4. expense[p] = {} BY <1>2, <2>1 DEF FinalizedIsTrue
    <2> QED BY <1>1, <1>2, <1>3, <2>1, <2>2, <2>3, <2>4 DEF FinalizedIsTrue, Final
  <1> QED BY <1>4, <1>5, <1>6 DEF Kept

LEMMA PayKeeps ==
  ASSUME Inv, NEW p \in Period, Pay(p)
  PROVE  Kept
  <1>1. /\ ~PeriodHeld(p) /\ run[p] = "locked"
        /\ expense' = [expense EXCEPT ![p] = lines[p].work]
        /\ run' = [run EXCEPT ![p] = "paid"]
        /\ UNCHANGED <<work, commission, lines, claims, exec, faults, strays>>
    BY DEF Pay, MayPay, Payroll
  <1>2. /\ run'[p] = "paid" /\ \A q \in Period \ {p} : run'[q] = run[q]
        /\ expense'[p] = lines[p].work /\ \A q \in Period \ {p} : expense'[q] = expense[q]
    BY <1>1 DEF Inv, TypeOK
  <1>3. \A f \in Exec : Good(exec[f])'
    <2> SUFFICES ASSUME NEW f \in Exec
                 PROVE /\ exec[f].kind = "save" => work'[exec[f].job] = work[exec[f].job]
                       /\ \A i \in exec[f].held : work'[i] = work[i] \/ work'[i] = None
                       /\ exec[f].kind = "save" /\ exec[f].at = "commission" => run'[exec[f].week] \notin Final
                       /\ exec[f].kind = "close" => run'[exec[f].week] = "draft"
      BY <1>1, AllGood
    <2>1. Good(exec[f]) /\ exec[f] \in Steps BY DEF Inv, TypeOK
    <2>2. exec[f].kind = "save" => exec[f].week \in Period
      BY <2>1 DEF Good, SaveGood, WeekOf, Inv, TypeOK, Work, Steps
    <2> QED BY <1>1, <1>2, <2>1, <2>2 DEF Good, SaveGood, CloseGood, Decide, Final
  <1>4. CommissionsAreCurrent' BY <1>1 DEF Inv, CommissionsAreCurrent
  <1>5. FinalizedIsTrue' BY <1>1, <1>2 DEF Inv, FinalizedIsTrue, Final
  <1> QED BY <1>3, <1>4, <1>5 DEF Kept

\* Reimbursements change while the run is a draft.
LEMMA ClaimKeeps ==
  ASSUME Inv, NEW p \in Period, NEW c \in Claim, AddClaim(p, c) \/ RemoveClaim(p, c)
  PROVE  Kept
  <1>1. /\ run[p] = "draft"
        /\ UNCHANGED <<work, commission, run, lines, expense, exec, faults, strays>>
    BY DEF AddClaim, RemoveClaim, MayEdit
  <1>2. \A q \in Period \ {p} : claims'[q] = claims[q]
    BY DEF AddClaim, RemoveClaim, Inv, TypeOK
  <1>3. \A f \in Exec : Good(exec[f])' BY <1>1, QuietGood
  <1>4. CommissionsAreCurrent' BY <1>1 DEF Inv, CommissionsAreCurrent
  <1>5. FinalizedIsTrue' BY <1>1, <1>2 DEF Inv, FinalizedIsTrue, Final
  <1> QED BY <1>3, <1>4, <1>5 DEF Kept

-----------------------------------------------------------------------------
LEMMA NextKeeps ==
  ASSUME Inv, Next
  PROVE  Kept
  <1>m. UNCHANGED exec \/ \E e \in Exec, y \in Steps : Moves(e, y)
    BY NextMoves DEF Inv
  <1>1. ASSUME NEW e \in Exec, NEW j \in Job,
               (\E to \in Work \cup {None} : Save(e, j, to)) \/ Override(e, j)
        PROVE  Kept
    BY <1>1, <1>m, QuietKeeps DEF Save, Override
  <1>2. ASSUME NEW e \in Exec, NEW p \in Period,
               (\E create \in BOOLEAN : Tally(e, p, create)) \/ Close(e, p)
        PROVE  Kept
    BY <1>2, <1>m, QuietKeeps DEF Tally, Close
  <1>3. ASSUME NEW e \in Exec,
               \/ SavePeriod(e) \/ SaveCommit(e) \/ Read(e) \/ TallyWrite(e)
               \/ CloseWrite(e) \/ TallyEnd(e) \/ CloseCommit(e) \/ Victim(e) \/ Die(e)
        PROVE  Kept
    <2>1. CASE SaveCommit(e) BY <2>1, SaveCommitKeeps
    <2>2. CASE TallyWrite(e) BY <2>2, <1>m, QuietKeeps DEF TallyWrite
    <2>3. CASE TallyEnd(e) BY <2>3, TallyEndKeeps
    <2>4. CASE CloseCommit(e) BY <2>4, CloseCommitKeeps
    <2>5. CASE SavePeriod(e) \/ Read(e) \/ CloseWrite(e) \/ Victim(e) \/ Die(e)
      BY <2>5, <1>m, QuietKeeps DEF SavePeriod, Read, CloseWrite, Victim, Die
    <2> QED BY <1>3, <2>1, <2>2, <2>3, <2>4, <2>5
  <1>4. ASSUME NEW j \in Job, Reopen(j)  PROVE Kept
    BY <1>4, ReopenKeeps
  <1>5. ASSUME NEW p \in Period, Pay(p) \/ \E c \in Claim : AddClaim(p, c) \/ RemoveClaim(p, c)
        PROVE  Kept
    BY <1>5, PayKeeps, ClaimKeeps
  <1> QED BY <1>1, <1>2, <1>3, <1>4, <1>5 DEF Next
-----------------------------------------------------------------------------
(* Types of the next state.                                                  *)

LEMMA TypeInit == Init => TypeOK
  BY FreeType, FaultAssumption DEF Init, TypeOK, Rows, Status

LEMMA TypeNext ==
  ASSUME TypeOK, \A e \in Exec : Good(exec[e]), Next
  PROVE  TypeOK'
  <1>x. exec' \in [Exec -> Steps] BY NextMoves, StepsType
  <1>1. ASSUME NEW e \in Exec, NEW j \in Job,
               (\E to \in Work \cup {None} : Save(e, j, to)) \/ Override(e, j)
        PROVE  TypeOK'
    BY <1>1, <1>x DEF Save, Override, TypeOK, books
  <1>2. ASSUME NEW e \in Exec, NEW p \in Period,
               (\E create \in BOOLEAN : Tally(e, p, create)) \/ Close(e, p)
        PROVE  TypeOK'
    BY <1>2, <1>x DEF Tally, Close, TypeOK, books
  <1>3. ASSUME NEW e \in Exec,
               \/ SavePeriod(e) \/ SaveCommit(e) \/ Read(e) \/ TallyWrite(e)
               \/ CloseWrite(e) \/ TallyEnd(e) \/ CloseCommit(e) \/ Victim(e) \/ Die(e)
        PROVE  TypeOK'
    <2> DEFINE x == exec[e]
    <2>0. x \in Steps /\ Good(x) BY DEF TypeOK
    <2>1. CASE SavePeriod(e) \/ Read(e) \/ CloseWrite(e) \/ Victim(e)
      BY <2>1, <1>x DEF SavePeriod, Read, CloseWrite, Victim, TypeOK, books
    <2>2. CASE SaveCommit(e)
      <3>1. x.to \in Work \cup {None} BY <2>0 DEF Steps
      <3>2. (IF x.to = None THEN None ELSE x.to.fact) \in Fact \cup {None} BY <3>1 DEF Work
      <3>3. /\ work' = [work EXCEPT ![x.job] = x.to]
            /\ commission' = [commission EXCEPT ![x.job] = IF x.to = None THEN None ELSE x.to.fact]
            /\ UNCHANGED <<books, faults, strays>>
        BY <2>2 DEF SaveCommit
      <3> QED BY <1>x, <3>1, <3>2, <3>3 DEF TypeOK, books
    <2>3. CASE TallyWrite(e)
      <3>1. x.at = "write" BY <2>3 DEF TallyWrite, In
      <3>2. x.job \in Job BY <2>0, <3>1 DEF Good, ListGood
      <3>3. x.got[x.job] \in Fact \cup {None} BY <2>0, <3>2 DEF Steps
      <3> QED BY <2>3, <1>x, <3>3 DEF TallyWrite, TypeOK, books
    <2>4. CASE TallyEnd(e)
      <3>1. run' \in [Period -> Status] BY <2>4 DEF TallyEnd, TypeOK, Status
      <3> QED BY <2>4, <1>x, <3>1 DEF TallyEnd, TypeOK
    <2>5. CASE CloseCommit(e)
      <3>1. commission' \in [Job -> Fact \cup {None}]
        BY <2>0, <2>5 DEF CloseCommit, TypeOK, Steps
      <3>2. Earned(e, x.week) \subseteq Job \X Fact BY DEF Earned
      <3>3. x.kind = "close" BY <2>5 DEF CloseCommit, In
      <3>4. x.week \in Period BY <2>0, <3>3 DEF Good, CloseGood
      <3>5. [work |-> Earned(e, x.week), claims |-> claims[x.week]] \in Rows
        BY <3>2, <3>4 DEF TypeOK, Rows
      <3>6. lines' \in [Period -> Rows] BY <2>5, <3>5 DEF CloseCommit, TypeOK
      <3>7. run' \in [Period -> Status] BY <2>5 DEF CloseCommit, TypeOK, Status
      <3> QED BY <2>5, <1>x, <3>1, <3>6, <3>7 DEF CloseCommit, TypeOK
    <2>6. CASE Die(e)
      <3>1. faults' \in 0 .. MaxFaults BY <2>6, FaultAssumption DEF Die, TypeOK
      <3> QED BY <2>6, <1>x, <3>1 DEF Die, TypeOK, books
    <2> QED BY <1>3, <2>1, <2>2, <2>3, <2>4, <2>5, <2>6
  <1>4. ASSUME NEW j \in Job, Reopen(j)  PROVE TypeOK'
    BY <1>4 DEF Reopen, TypeOK, books
  <1>5. ASSUME NEW p \in Period, Pay(p) \/ \E c \in Claim : AddClaim(p, c) \/ RemoveClaim(p, c)
        PROVE  TypeOK'
    <2>1. CASE Pay(p)
      <3>1. lines[p].work \subseteq Job \X Fact BY DEF TypeOK, Rows
      <3>2. run' \in [Period -> Status] BY <2>1 DEF Pay, TypeOK, Status
      <3> QED BY <2>1, <3>1, <3>2 DEF Pay, Payroll, TypeOK
    <2>2. ASSUME NEW c \in Claim, AddClaim(p, c)  PROVE TypeOK'
      BY <2>2 DEF AddClaim, TypeOK
    <2>3. ASSUME NEW c \in Claim, RemoveClaim(p, c)  PROVE TypeOK'
      BY <2>3 DEF RemoveClaim, TypeOK
    <2> QED BY <1>5, <2>1, <2>2, <2>3
  <1> QED BY <1>1, <1>2, <1>3, <1>4, <1>5 DEF Next

-----------------------------------------------------------------------------
(* The invariant.                                                            *)

LEMMA InvInit == Init => Inv
  <1> SUFFICES ASSUME Init PROVE Inv
    OBVIOUS
  <1>1. TypeOK BY TypeInit
  <1>2. \A e \in Exec : exec[e] = Free BY DEF Init
  <1>3. \A e \in Exec : Good(exec[e]) BY <1>2, FreeGood
  <1>4. Free.kind = "none" BY DEF Free
  <1>5. OneRow /\ OnePeriod
    BY <1>2, <1>4 DEF OneRow, OnePeriod, RowHeldBy, PeriodHeldBy, In
  <1>6. CommissionsAreCurrent BY DEF Init, CommissionsAreCurrent
  <1>7. FinalizedIsTrue BY DEF Init, FinalizedIsTrue, Final
  <1> QED BY <1>1, <1>3, <1>5, <1>6, <1>7 DEF Inv

LEMMA InvNext == Inv /\ [Next]_vars => Inv'
  <1> SUFFICES ASSUME Inv, [Next]_vars PROVE Inv'
    OBVIOUS
  <1>1. CASE Next
    <2>1. TypeOK' BY <1>1, TypeNext DEF Inv
    <2>2. Kept BY <1>1, NextKeeps
    <2>3. UNCHANGED exec \/ \E e \in Exec, y \in Steps : Moves(e, y)
      BY <1>1, NextMoves DEF Inv
    <2>4. OneRow' /\ OnePeriod' BY <2>3, LocksExclude DEF Inv
    <2> QED BY <2>1, <2>2, <2>4 DEF Kept, Inv
  <1>2. CASE UNCHANGED vars
    <2>1. TypeOK' BY <1>2 DEF vars, books, Inv, TypeOK
    <2>2. UNCHANGED <<work, commission, books, exec, strays>> BY <1>2 DEF vars, books
    <2>3. Kept BY <2>2, QuietKeeps
    <2>4. OneRow' /\ OnePeriod' BY <2>2, LocksExclude DEF Inv
    <2> QED BY <2>1, <2>3, <2>4 DEF Kept, Inv
  <1> QED BY <1>1, <1>2

THEOREM InvHolds == Spec => []Inv
  BY InvInit, InvNext, PTL DEF Spec

\* Every variable has its type, with any number of executions of the routes.
THEOREM TypeCorrect == Spec => []TypeOK
  <1>1. Inv => TypeOK BY DEF Inv
  <1> QED BY <1>1, InvHolds, PTL

\* The commissions of a completed job stand for its total and crew as they are:
\* the lock of its commissions covers the read and the write of a
\* recalculation, and no completion gets between them.
THEOREM CommissionsCurrent == Spec => []CommissionsAreCurrent
  <1>1. Inv => CommissionsAreCurrent BY DEF Inv
  <1> QED BY <1>1, InvHolds, PTL

\* A finalized run pays the work of its week as it stands, except for jobs
\* reopened after it was locked: the week's lock orders every completion and
\* correction before or after the run's own recalculation.
THEOREM FinalizedRunsAreTrue == Spec => []FinalizedIsTrue
  <1>1. Inv => FinalizedIsTrue BY DEF Inv
  <1> QED BY <1>1, InvHolds, PTL

-----------------------------------------------------------------------------
(* What a step never does to a finalized week.                               *)

Closed ==
    \A p \in Period : run[p] \in Final =>
      /\ run'[p] \in Final /\ (run[p] = "paid" => run'[p] = "paid")
      /\ lines'[p] = lines[p] /\ claims'[p] = claims[p]
      /\ run[p] = "paid" => expense'[p] = expense[p]
      /\ \A j \in Job : (\E f \in Fact : <<j, f>> \in lines[p].work) /\ <<j, p>> \notin strays'
           => commission'[j] = commission[j]

\* The run, its lines, its reimbursements and its expense.
LEMMA RunStaysClosed ==
  ASSUME Inv, Next, NEW p \in Period, run[p] \in Final
  PROVE  /\ run'[p] \in Final /\ (run[p] = "paid" => run'[p] = "paid")
         /\ lines'[p] = lines[p] /\ claims'[p] = claims[p]
         /\ run[p] = "paid" => expense'[p] = expense[p]
         /\ strays \subseteq strays'
  <1>1. CASE UNCHANGED books /\ strays \subseteq strays' BY <1>1 DEF books
  <1>2. CASE \E e \in Exec : TallyEnd(e) BY <1>2 DEF TallyEnd, Final
  <1>3. ASSUME NEW e \in Exec, CloseCommit(e)
        PROVE  /\ run'[p] = run[p] /\ lines'[p] = lines[p] /\ claims'[p] = claims[p]
               /\ expense'[p] = expense[p] /\ strays' = strays
    <2>1. exec[e].kind = "close" BY <1>3 DEF CloseCommit, In
    <2>2. exec[e].week # p BY <2>1 DEF Inv, Good, CloseGood, Final
    <2> QED BY <1>3, <2>2 DEF CloseCommit, Inv, TypeOK
  <1>4. ASSUME NEW q \in Period, Pay(q)
        PROVE  /\ run'[p] \in Final /\ (run[p] = "paid" => run'[p] = "paid")
               /\ lines'[p] = lines[p] /\ claims'[p] = claims[p]
               /\ run[p] = "paid" => expense'[p] = expense[p]
               /\ strays' = strays
    BY <1>4 DEF Pay, MayPay, Inv, TypeOK, Final
  <1>5. ASSUME NEW q \in Period, NEW c \in Claim, AddClaim(q, c) \/ RemoveClaim(q, c)
        PROVE  /\ UNCHANGED <<run, lines, expense, strays>> /\ claims'[p] = claims[p]
    BY <1>5 DEF AddClaim, RemoveClaim, MayEdit, Inv, TypeOK, Final
  <1>6. \/ UNCHANGED books /\ strays \subseteq strays'
        \/ \E e \in Exec : TallyEnd(e) \/ CloseCommit(e)
        \/ \E q \in Period : Pay(q) \/ \E c \in Claim : AddClaim(q, c) \/ RemoveClaim(q, c)
    BY DEF Next, Save, Override, Tally, Close, SavePeriod, SaveCommit, Read, TallyWrite,
           CloseWrite, Victim, Die, Reopen
  <1> QED BY <1>1, <1>2, <1>3, <1>4, <1>5, <1>6

\* The work of a job changes only by a save and by its reopening.
LEMMA WorkStaysClosed ==
  ASSUME Inv, Next, NEW p \in Period, run[p] \in Final,
         NEW j \in Job, NEW f \in Fact, <<j, f>> \in lines[p].work, <<j, p>> \notin strays'
  PROVE  commission'[j] = commission[j]
  <1>1. strays \subseteq strays' BY RunStaysClosed
  <1>2. work[j] = [week |-> p, fact |-> f] BY <1>1 DEF Inv, FinalizedIsTrue
  <1>3. run'[p] \in Final /\ lines'[p] = lines[p] BY RunStaysClosed
  <1>4. Kept BY NextKeeps
  <1>5. work'[j] = [week |-> p, fact |-> f] BY <1>3, <1>4 DEF Kept, FinalizedIsTrue
  <1>6. [week |-> p, fact |-> f] # None
    <2>1. [week |-> p, fact |-> f] \in Work BY DEF Work
    <2> QED BY <2>1, WorkAssumption
  <1> QED BY <1>2, <1>4, <1>5, <1>6 DEF Kept, Inv, CommissionsAreCurrent

\* The run of a finalized week, its lines, its reimbursements, what it paid and
\* the commissions behind it stay as they are, with any number of executions.
THEOREM BooksClosed == Spec => BooksStayClosed
  <1>1. Inv /\ [Next]_vars => [Closed]_vars
    <2> SUFFICES ASSUME Inv, Next PROVE Closed
      OBVIOUS
    <2> QED BY RunStaysClosed, WorkStaysClosed DEF Closed
  <1>2. Spec => [][Closed]_vars BY <1>1, InvHolds, PTL DEF Spec
  <1> QED BY <1>2 DEF BooksStayClosed, Closed

\* No job is in the lines of two finalized weeks, unless it was reopened after
\* one of them was locked: the reopening is all that stands between the code and
\* the promise the status route makes (PaidOnce).
THEOREM PaidOnceUnlessReopened ==
  Spec => [](strays = {} => PaidOnce)
  <1>1. Inv => (strays = {} => PaidOnce)
    <2> SUFFICES ASSUME Inv, strays = {}, NEW p \in Period, NEW q \in Period, NEW j \in Job,
                        p # q, run[p] \in Final, run[q] \in Final,
                        NEW f \in Fact, NEW g \in Fact,
                        <<j, f>> \in lines[p].work, <<j, g>> \in lines[q].work
                 PROVE  FALSE
      BY DEF PaidOnce
    <2>1. work[j] = [week |-> p, fact |-> f] /\ work[j] = [week |-> q, fact |-> g]
      BY DEF Inv, FinalizedIsTrue
    <2> QED BY <2>1
  <1> QED BY <1>1, InvHolds, PTL

-----------------------------------------------------------------------------
(* The books are kept as if every route were one step.                       *)

\* A reimbursement is filed in one week at most.
FiledOnce == \A p, q \in Period : p # q => claims[p] \cap claims[q] = {}

LEMMA FiledOnceAlways == Spec => []FiledOnce
  <1>1. Init => FiledOnce BY DEF Init, FiledOnce
  <1>2. Inv /\ FiledOnce /\ [Next]_vars => FiledOnce'
    <2> SUFFICES ASSUME Inv, FiledOnce, [Next]_vars PROVE FiledOnce'
      OBVIOUS
    <2>1. CASE UNCHANGED claims BY <2>1 DEF FiledOnce
    <2>2. ASSUME NEW p \in Period, NEW c \in Claim, AddClaim(p, c)  PROVE FiledOnce'
      <3>1. /\ claims'[p] = claims[p] \cup {c} /\ \A q \in Period \ {p} : claims'[q] = claims[q]
            /\ \A q \in Period : c \notin claims[q]
        BY <2>2 DEF AddClaim, Inv, TypeOK
      <3> QED BY <3>1 DEF FiledOnce
    <2>3. ASSUME NEW p \in Period, NEW c \in Claim, RemoveClaim(p, c)  PROVE FiledOnce'
      <3>1. claims'[p] = claims[p] \ {c} /\ \A q \in Period \ {p} : claims'[q] = claims[q]
        BY <2>3 DEF RemoveClaim, Inv, TypeOK
      <3> QED BY <3>1 DEF FiledOnce
    <2>4. \/ UNCHANGED claims
          \/ \E p \in Period, c \in Claim : AddClaim(p, c) \/ RemoveClaim(p, c)
      BY DEF Next, Save, Override, Tally, Close, SavePeriod, SaveCommit, Read, TallyWrite, Pay,
             CloseWrite, Victim, Die, Reopen, TallyEnd, CloseCommit, books, vars
    <2> QED BY <2>1, <2>2, <2>3, <2>4
  <1> QED BY <1>1, <1>2, InvHolds, PTL DEF Spec

\* What a save commits is an entry in a week that is not finalized.
LEMMA SaveIsRecorded ==
  ASSUME Inv, NEW e \in Exec, SaveCommit(e)
  PROVE  \E j \in Job, to \in Work \cup {None} : Books!Record(j, to)
  <1> DEFINE x == exec[e]
  <1>1. /\ x.kind = "save" /\ x.at = "commission"
        /\ work' = [work EXCEPT ![x.job] = x.to]
        /\ UNCHANGED <<run, lines, claims, expense>>
    BY DEF SaveCommit, In, books
  <1>2. /\ x.job \in Job /\ x.to \in Work \cup {None}
        /\ work[x.job] # None \/ x.to # None
        /\ x.week = WeekOf(x.job, x.to) /\ Decide(x)
    BY <1>1 DEF Inv, TypeOK, Good, SaveGood, Steps
  <1>3. /\ work[x.job] # None => run[work[x.job].week] \notin Final
        /\ x.to # None => run[x.to.week] \notin Final
        /\ work[x.job] # None /\ x.to # None => x.to.week = work[x.job].week
    BY <1>2 DEF Decide, WeekOf
  <1>4. Books!Record(x.job, x.to) BY <1>1, <1>2, <1>3 DEF Books!Record, Books!Final, Final
  <1> QED BY <1>2, <1>4

\* What the commit of lockPayoutRun takes down is the work of that moment, though
\* it was read job by job, before, and outside of the jobs' locks.
LEMMA CloseIsOneStep ==
  ASSUME Inv, NEW e \in Exec, CloseCommit(e)
  PROVE  \E p \in Period : Books!Lock(p)
  <1>1. /\ exec[e].kind = "close"
        /\ lines' = [lines EXCEPT ![exec[e].week] = [work |-> Earned(e, exec[e].week),
                                                     claims |-> claims[exec[e].week]]]
        /\ run' = [run EXCEPT ![exec[e].week] = "locked"]
        /\ UNCHANGED <<work, claims, expense>>
    BY DEF CloseCommit, In
  <1>2. exec[e].week \in Period /\ run[exec[e].week] = "draft"
    BY <1>1 DEF Inv, Good, CloseGood
  <1>3. PICK p \in Period : p = exec[e].week BY <1>2
  <1>4. Earned(e, p) = Books!WorkOf(p)
    <2>1. \A j \in Job, f \in Fact : <<j, f>> \in Earned(e, p) <=> work[j] = [week |-> p, fact |-> f]
      BY EarnedIsWork
    <2>2. \A j \in Job, f \in Fact :
             <<j, f>> \in Books!WorkOf(p) <=> work[j] = [week |-> p, fact |-> f]
      BY DEF Books!WorkOf
    <2>3. Earned(e, p) \subseteq Job \X Fact /\ Books!WorkOf(p) \subseteq Job \X Fact
      BY DEF Earned, Books!WorkOf
    <2>4. \A w \in Job \X Fact : w \in Earned(e, p) <=> w \in Books!WorkOf(p)
      <3> SUFFICES ASSUME NEW w \in Job \X Fact PROVE w \in Earned(e, p) <=> w \in Books!WorkOf(p)
        OBVIOUS
      <3>1. PICK j \in Job, f \in Fact : w = <<j, f>> OBVIOUS
      <3> QED BY <2>1, <2>2, <3>1
    <2> QED BY <2>3, <2>4
  <1>5. Books!Lock(p) BY <1>1, <1>2, <1>3, <1>4 DEF Books!Lock
  <1> QED BY <1>5

LEMMA DraftIsOneStep ==
  ASSUME Inv, NEW e \in Exec, TallyEnd(e)
  PROVE  UNCHANGED Books!vars \/ \E p \in Period : Books!Draft(p)
  <1>1. /\ run' = [q \in Period |-> IF q = exec[e].week /\ run[q] = "none" THEN "draft" ELSE run[q]]
        /\ UNCHANGED <<work, lines, claims, expense>>
    BY DEF TallyEnd
  <1>2. run \in [Period -> Status] BY DEF Inv, TypeOK
  <1>3. CASE \E p \in Period : p = exec[e].week /\ run[p] = "none"
    <2>1. PICK p \in Period : p = exec[e].week /\ run[p] = "none" BY <1>3
    <2>2. run' = [run EXCEPT ![p] = "draft"] BY <1>1, <1>2, <2>1
    <2> QED BY <1>1, <2>1, <2>2 DEF Books!Draft
  <1>4. CASE ~\E p \in Period : p = exec[e].week /\ run[p] = "none"
    <2>1. run' = run BY <1>1, <1>2, <1>4
    <2> QED BY <1>1, <2>1 DEF Books!vars
  <1> QED BY <1>3, <1>4

LEMMA FilingIsOneStep ==
  ASSUME Inv, FiledOnce, NEW p \in Period, NEW c \in Claim, AddClaim(p, c) \/ RemoveClaim(p, c)
  PROVE  \E filed \in SUBSET Claim : Books!File(p, filed)
  <1>0. claims \in [Period -> SUBSET Claim] BY DEF Inv, TypeOK
  <1>1. CASE AddClaim(p, c)
    <2>1. /\ claims[p] \cup {c} \in SUBSET Claim
          /\ \A q \in Period \ {p} : (claims[p] \cup {c}) \cap claims[q] = {}
      BY <1>0, <1>1 DEF AddClaim, FiledOnce
    <2>2. Books!File(p, claims[p] \cup {c})
      BY <1>1, <2>1 DEF AddClaim, MayEdit, Books!File
    <2> QED BY <2>1, <2>2
  <1>2. CASE RemoveClaim(p, c)
    <2>1. /\ claims[p] \ {c} \in SUBSET Claim
          /\ \A q \in Period \ {p} : (claims[p] \ {c}) \cap claims[q] = {}
      BY <1>0 DEF FiledOnce
    <2>2. Books!File(p, claims[p] \ {c})
      BY <1>2, <2>1 DEF RemoveClaim, MayEdit, Books!File
    <2> QED BY <2>1, <2>2
  <1> QED BY <1>1, <1>2

LEMMA StepOfBooks == Inv /\ FiledOnce /\ [Next]_vars => [Books!Next]_(Books!vars)
  <1> SUFFICES ASSUME Inv, FiledOnce, [Next]_vars PROVE Books!Next \/ UNCHANGED Books!vars
    OBVIOUS
  <1>w. Books!Work = Work BY DEF Books!Work, Work
  <1>1. CASE UNCHANGED <<work, books>> BY <1>1 DEF books, Books!vars
  <1>2. CASE \E e \in Exec : SaveCommit(e)
    <2>1. \E j \in Job, to \in Work \cup {None} : Books!Record(j, to) BY <1>2, SaveIsRecorded
    <2> QED BY <1>w, <2>1 DEF Books!Next
  <1>3. CASE \E j \in Job : Reopen(j)
    <2>1. \E j \in Job : Books!Reopen(j) BY <1>3 DEF Reopen, books, Books!Reopen
    <2> QED BY <2>1 DEF Books!Next
  <1>4. CASE \E e \in Exec : TallyEnd(e) BY <1>4, DraftIsOneStep DEF Books!Next
  <1>5. CASE \E e \in Exec : CloseCommit(e) BY <1>5, CloseIsOneStep DEF Books!Next
  <1>6. CASE \E p \in Period : Pay(p)
    <2>1. \E p \in Period : Books!Pay(p) BY <1>6 DEF Pay, MayPay, Payroll, Books!Pay
    <2> QED BY <2>1 DEF Books!Next
  <1>7. CASE \E p \in Period, c \in Claim : AddClaim(p, c) \/ RemoveClaim(p, c)
    BY <1>7, FilingIsOneStep DEF Books!Next
  <1>8. \/ UNCHANGED <<work, books>>
        \/ \E e \in Exec : SaveCommit(e) \/ TallyEnd(e) \/ CloseCommit(e)
        \/ \E j \in Job : Reopen(j)
        \/ \E p \in Period : Pay(p) \/ \E c \in Claim : AddClaim(p, c) \/ RemoveClaim(p, c)
    BY DEF Next, Save, Override, Tally, Close, SavePeriod, Read, TallyWrite, CloseWrite, Victim,
           Die, books, vars
  <1> QED BY <1>1, <1>2, <1>3, <1>4, <1>5, <1>6, <1>7, <1>8

\* The payouts implement PayoutBooks: with any number of jobs, weeks and
\* executions under their locks, the books are those of routes that run one at
\* a time.
THEOREM BooksKept == Spec => KeepsBooks
  <1>1. Init => Books!Init BY DEF Init, Books!Init
  <1> QED BY <1>1, StepOfBooks, InvHolds, FiledOnceAlways, PTL DEF Spec, KeepsBooks, Books!Spec
=============================================================================
