------------------------------ MODULE AccessLink ------------------------------
(***************************************************************************)
(* The login links of one portal user of one partner organization: the     *)
(* invitation a team member sends (POST of admin/partners/users/route.ts,  *)
(* under an idempotency key of team-mutation-idempotency.ts), the link the *)
(* user asks for in public (partners/request-link), and the operation rows *)
(* both leave behind (partner-invite-operations.ts).  Around them: the     *)
(* recovery sweep of the worker, the review of uncertain operations, the   *)
(* switch of the user's access and the DELETE and restore of the           *)
(* organization.                                                           *)
(*                                                                         *)
(* Each database transaction is one action; the providers are called       *)
(* between two of them.  Every execution of a route draws a new operation  *)
(* id, so an operation row is named by the execution that inserts it.      *)
(* Left out: the keys of the other routes, expired tokens, and the address *)
(* and status checks whose subject nothing here changes.                   *)
(***************************************************************************)
EXTENDS Naturals, FiniteSets

CONSTANTS
    Request,    \* executions of the team's invite route
    Visit,      \* executions of the public route
    Key,        \* idempotency keys, each with the form it was issued for
    Channel,    \* the channels asked for: email, sms
    Nobody,     \* none of the executions
    MaxClaims,  \* MAX_CLAIM_ATTEMPTS of team-mutation-idempotency.ts
    MaxFaults   \* bound: deaths and failed transactions

Process == Request \cup Visit

ASSUME ProcessAssumption ==
    Request \cap Visit = {} /\ Nobody \notin Process /\ "none" \notin Key
ASSUME LimitAssumption == MaxClaims \in Nat \ {0} /\ MaxFaults \in Nat

OpState == {"none", "requested", "dispatched", "succeeded", "failed",
            "reconciliation_required"}
Answer  == {"none", "accepted", "not_sent", "uncertain"}
Record  == [status: {"none", "in_progress", "succeeded", "failed"},
            holder: Request \cup {Nobody},    \* operationId
            open: BOOLEAN,                    \* claimExpiresAt is to come
            claims: 0 .. MaxClaims]           \* attemptCount
PC == {"idle", "claim", "extend", "prepare", "renew", "mark", "send", "finalize",
       "recover", "again", "lost", "refused", "retryable", "unsent", "done"}

VARIABLES
    deleted,   \* the organization's contacts.deletedAt is set
    user,      \* the portal user: absent, active or inactive
    session,   \* the user has a session that is not revoked
    token,     \* the execution whose login token is not used yet
    op,        \* partner_invite_operations.state
    reviewed,  \* operations with resolvedAt set
    known,     \* operations whose row records that a provider accepted
    record,    \* team_mutation_idempotency rows
    stale,     \* keys whose form shows an older version of the user
    pc, key,   \* per execution: next step, the idempotency key it came with
    answer,    \* per execution: what each provider answered
    faults,    \* budget spent
    accepted   \* history: what the providers accepted

access  == <<deleted, user, session, token>>
ledger  == <<op, reviewed, known>>
claims  == <<record, stale>>
locals  == <<pc, key, answer>>
history == <<faults, accepted>>
vars    == <<access, ledger, claims, locals, history>>

-----------------------------------------------------------------------------

Unresolved(p) ==
    op[p] \in {"requested", "dispatched", "reconciliation_required"} /\ p \notin reviewed

To(p, step) == pc' = [pc EXCEPT ![p] = step]
Put(p, state) == op' = [op EXCEPT ![p] = state]

\* The operationId fence of every update of the idempotency row.
Holds(r) == record[key[r]].status = "in_progress" /\ record[key[r]].holder = r

Known(p, ch) == answer[p][ch] \in {"accepted", "not_sent"}
Took(p, ch)  == answer[p][ch] = "accepted"

\* planPartnerInviteTerminal, for evidence of every channel.
PartialIsFailed(p) ==   \* mutant: one channel that refused decides
    IF \E ch \in Channel : answer[p][ch] = "not_sent" THEN "failed"
    ELSE IF \A ch \in Channel : Took(p, ch) THEN "succeeded" ELSE "reconciliation_required"
Terminal(p) ==
    IF \E ch \in Channel : ~Known(p, ch) THEN "reconciliation_required"
    ELSE IF \E ch \in Channel : Took(p, ch) THEN "succeeded" ELSE "failed"

\* The state a second finalization writes: anything but a confirmed non-send
\* is left to a review.
SecondTerminal(p) ==
    IF \A ch \in Channel : answer[p][ch] = "not_sent"
    THEN "failed" ELSE "reconciliation_required"

Init ==
    /\ deleted = FALSE
    /\ user \in {"absent", "active", "inactive"}
    /\ session = FALSE
    /\ token = Nobody
    /\ op = [p \in Process |-> "none"]
    /\ reviewed = {} /\ known = {}
    /\ record = [k \in Key |-> [status |-> "none", holder |-> Nobody,
                                open |-> FALSE, claims |-> 0]]
    /\ stale = {}
    /\ pc = [p \in Process |-> "idle"]
    /\ key = [r \in Request |-> "none"]
    /\ answer = [p \in Process |-> [ch \in Channel |-> "none"]]
    /\ faults = 0
    /\ accepted = {}

-----------------------------------------------------------------------------
(* The team's invite route.                                                  *)

\* A form is sent, the first time or again, or twice at once.  A key that is
\* new comes with a form just loaded.
Submit(r, k) ==
    /\ pc[r] = "idle"
    /\ key' = [key EXCEPT ![r] = k]
    /\ stale' = IF \E q \in Request : key[q] = k THEN stale ELSE stale \ {k}
    /\ To(r, "claim")
    /\ UNCHANGED <<access, ledger, record, answer, history>>

\* The update a claim makes of the row, if the row is to be had.
Reclaimable(k) ==   \* mutant: no end to the takeovers
    record[k].status = "none" \/ (record[k].status = "in_progress" /\ ~record[k].open)
Claimable(k) ==
    \/ record[k].status = "none"
    \/ /\ record[k].status = "in_progress"
       /\ ~record[k].open
       /\ record[k].claims < MaxClaims

Take(r, k) ==
    record' = [record EXCEPT ![k] = [status |-> "in_progress", holder |-> r,
                                     open |-> TRUE, claims |-> @.claims + 1]]

\* claimTeamMutationIdempotency: the row is inserted or taken over; else the
\* stored answer is replayed or the request refused.
Claim(r) ==
    /\ pc[r] = "claim"
    /\ IF Claimable(key[r])
       THEN Take(r, key[r]) /\ To(r, "extend")
       ELSE To(r, "done") /\ UNCHANGED record
    /\ UNCHANGED <<access, ledger, stale, key, answer, history>>

\* extendTeamMutationIdempotencyLease, before and after the preparation.
Extend(r) ==
    /\ pc[r] \in {"extend", "renew"}
    /\ IF Holds(r)
       THEN /\ record' = [record EXCEPT ![key[r]].open = TRUE]
            /\ To(r, IF pc[r] = "extend" THEN "prepare" ELSE "mark")
       ELSE To(r, "retryable") /\ UNCHANGED record
    /\ UNCHANGED <<access, ledger, stale, key, answer, history>>

\* The transaction that locks organization and user: an invitation needs the
\* form to be current, the key to be unused and nothing to be unresolved.
FitAnyway(r) == ~deleted /\ user # "inactive"   \* mutant: no look at the operations
Fit(r) ==
    /\ ~deleted
    /\ user # "inactive"
    /\ key[r] \notin stale
    /\ \A q \in Request : key[q] = key[r] => op[q] = "none"
    /\ \A p \in Process : ~Unresolved(p)

Prepare(r) ==
    /\ pc[r] = "prepare"
    /\ IF Fit(r)
       THEN /\ Put(r, "requested")
            /\ user' = "active"
            /\ token' = r
            /\ stale' = Key
            /\ To(r, "renew")
       ELSE To(r, "refused") /\ UNCHANGED <<op, user, token, stale>>
    /\ UNCHANGED <<deleted, session, reviewed, known, record, key, answer, history>>

\* settleTeamMutationIdempotencyFailure
Settle(r) ==
    /\ pc[r] \in {"refused", "retryable"}
    /\ record' = IF ~Holds(r) THEN record
                 ELSE IF pc[r] = "refused"
                      THEN [record EXCEPT ![key[r]].status = "failed"]
                      ELSE [record EXCEPT ![key[r]].open = FALSE]
    /\ To(r, "done")
    /\ UNCHANGED <<access, ledger, stale, key, answer, history>>

\* completeTeamMutationIdempotency, in the transaction that finalizes.
Complete(r, state) ==
    record' = [record EXCEPT ![key[r]].status =
                 IF state = "succeeded" THEN "succeeded" ELSE "failed"]

\* Mutant: the receipt is written whoever holds the key.
FinalizeUnfenced(r) ==
    /\ pc[r] = "finalize"
    /\ op[r] = "dispatched"
    /\ Put(r, Terminal(r))
    /\ record' = IF Holds(r) THEN [record EXCEPT ![key[r]].status = "failed"] ELSE record
    /\ known' = IF \E ch \in Channel : Took(r, ch) THEN known \cup {r} ELSE known
    /\ To(r, "done")
    /\ UNCHANGED <<access, reviewed, stale, key, answer, history>>

\* Operation and receipt are settled in one transaction, or neither is.  The
\* commit may go unheard.
Finalize(r) ==
    /\ pc[r] = "finalize"
    /\ op[r] = "dispatched" /\ Holds(r)
    /\ Put(r, Terminal(r))
    /\ Complete(r, Terminal(r))
    /\ known' = IF \E ch \in Channel : Took(r, ch) THEN known \cup {r} ELSE known
    /\ \/ To(r, "done") /\ UNCHANGED faults
       \/ To(r, "recover") /\ faults < MaxFaults /\ faults' = faults + 1
    /\ UNCHANGED <<access, reviewed, stale, key, answer, accepted>>

FinalizeRefused(r) ==
    /\ pc[r] = "finalize"
    /\ op[r] # "dispatched" \/ ~Holds(r)
    /\ To(r, "recover")
    /\ UNCHANGED <<access, ledger, claims, key, answer, history>>

\* After the providers were called nothing is handed back as retryable: the
\* key is claimed once more, for a receipt that may be there already ...
Reclaim(r) ==
    /\ pc[r] \in {"recover", "lost"}
    /\ IF Claimable(key[r]) THEN Take(r, key[r]) ELSE UNCHANGED record
    /\ To(r, IF pc[r] = "recover" /\ record[key[r]].status = "in_progress"
             THEN "again" ELSE "done")
    /\ UNCHANGED <<access, ledger, stale, key, answer, history>>

\* ... or else the operation is finalized with what is known.
AgainAnyway(r) ==   \* mutant: the holder of the key finalizes whatever it finds
    /\ pc[r] = "again"
    /\ IF Holds(r)
       THEN /\ Put(r, SecondTerminal(r))
            /\ Complete(r, SecondTerminal(r))
            /\ known' = IF \E ch \in Channel : Took(r, ch) THEN known \cup {r} ELSE known
            /\ To(r, "done")
       ELSE To(r, "lost") /\ UNCHANGED <<op, record, known>>
    /\ UNCHANGED <<access, reviewed, stale, key, answer, history>>
Again(r) ==
    /\ pc[r] = "again"
    /\ IF op[r] = "dispatched" /\ Holds(r)
       THEN /\ Put(r, SecondTerminal(r))
            /\ Complete(r, SecondTerminal(r))
            /\ known' = IF \E ch \in Channel : Took(r, ch) THEN known \cup {r} ELSE known
            /\ To(r, "done")
       ELSE To(r, "lost") /\ UNCHANGED <<op, record, known>>
    /\ UNCHANGED <<access, reviewed, stale, key, answer, history>>

-----------------------------------------------------------------------------
(* The public route.                                                         *)

VisitPrepare(v) ==
    /\ pc[v] = "idle"
    /\ IF ~deleted /\ user = "active" /\ \A p \in Process : ~Unresolved(p)
       THEN Put(v, "requested") /\ token' = v /\ To(v, "mark")
       ELSE To(v, "done") /\ UNCHANGED <<op, token>>
    /\ UNCHANGED <<deleted, user, session, reviewed, known, claims, key, answer, history>>

VisitFinalize(v) ==
    /\ pc[v] = "finalize"
    /\ IF op[v] = "dispatched"
       THEN /\ Put(v, Terminal(v))
            /\ known' = IF \E ch \in Channel : Took(v, ch) THEN known \cup {v} ELSE known
            /\ To(v, "done")
       ELSE To(v, "again") /\ UNCHANGED <<op, known>>
    /\ UNCHANGED <<access, reviewed, claims, key, answer, history>>

VisitAgain(v) ==
    /\ pc[v] = "again"
    /\ IF op[v] = "dispatched"
       THEN /\ Put(v, SecondTerminal(v))
            /\ known' = IF \E ch \in Channel : Took(v, ch) THEN known \cup {v} ELSE known
       ELSE UNCHANGED <<op, known>>
    /\ To(v, "done")
    /\ UNCHANGED <<access, reviewed, claims, key, answer, history>>

\* No provider was called: quarantinePreparedPublicPartnerLoginLink, or a
\* finalization that says so if the dispatch was committed unheard.
VisitUnsent(v) ==
    /\ pc[v] = "unsent"
    /\ IF op[v] \in {"requested", "dispatched"} THEN Put(v, "failed") ELSE UNCHANGED op
    /\ To(v, "done")
    /\ UNCHANGED <<access, reviewed, known, claims, key, answer, history>>

-----------------------------------------------------------------------------
(* Common to both routes.                                                    *)

\* Where an execution goes when its dispatch was not confirmed.
Undone(p) == IF p \in Request THEN "retryable" ELSE "unsent"

\* transitionPartnerInviteOperationToDispatched.  The commit may go unheard.
Mark(p) ==
    /\ pc[p] = "mark"
    /\ op[p] = "requested"
    /\ Put(p, "dispatched")
    /\ \/ To(p, "send") /\ UNCHANGED faults
       \/ To(p, Undone(p)) /\ faults < MaxFaults /\ faults' = faults + 1
    /\ UNCHANGED <<access, reviewed, known, claims, key, answer, accepted>>

MarkRefused(p) ==
    /\ pc[p] = "mark"
    /\ op[p] # "requested"
    /\ To(p, IF p \in Request THEN "refused" ELSE "unsent")
    /\ UNCHANGED <<access, ledger, claims, key, answer, history>>

\* The providers are called side by side; an uncertain answer says nothing
\* of whether the link was accepted.
Send(p, ch) ==
    /\ pc[p] = "send"
    /\ answer[p][ch] = "none"
    /\ \E a \in Answer \ {"none"} :
          /\ answer' = [answer EXCEPT ![p][ch] = a]
          /\ \/ a # "accepted" /\ UNCHANGED accepted
             \/ a # "not_sent" /\ accepted' = accepted \cup {<<p, ch>>}
    /\ UNCHANGED <<access, ledger, claims, pc, key, faults>>

Sent(p) ==
    /\ pc[p] = "send"
    /\ \A ch \in Channel : answer[p][ch] # "none"
    /\ To(p, "finalize")
    /\ UNCHANGED <<access, ledger, claims, key, answer, history>>

\* A transaction fails and leaves nothing behind.
Fail(p) ==
    /\ faults < MaxFaults
    /\ faults' = faults + 1
    /\ \/ pc[p] \in {"extend", "prepare", "renew", "mark"} /\ To(p, Undone(p))
       \/ pc[p] = "finalize" /\ To(p, IF p \in Request THEN "recover" ELSE "again")
       \/ pc[p] = "again" /\ To(p, IF p \in Request THEN "lost" ELSE "done")
    /\ UNCHANGED <<access, ledger, claims, key, answer, accepted>>

Die(p) ==
    /\ pc[p] \notin {"idle", "done"}
    /\ faults < MaxFaults
    /\ faults' = faults + 1
    /\ To(p, "done")
    /\ UNCHANGED <<access, ledger, claims, key, answer, accepted>>

-----------------------------------------------------------------------------
(* The clock, the worker's sweep and the office.                             *)

LeaseEnds(k) ==
    /\ record[k].open
    /\ record' = [record EXCEPT ![k].open = FALSE]
    /\ UNCHANGED <<access, ledger, stale, locals, history>>

\* recoverStalePartnerInviteOperations, some minutes after the operation's
\* last step; its execution may be dead, or merely slow.
RecoverToFailed(p) ==   \* mutant: dispatched is treated like requested
    /\ op[p] \in {"requested", "dispatched"}
    /\ Put(p, "failed") /\ token' = Nobody
    /\ UNCHANGED <<deleted, user, session, reviewed, known, claims, locals, history>>
RecoverRequested(p) ==   \* mutant: a dispatched operation is left alone
    /\ op[p] = "requested"
    /\ Put(p, "failed") /\ token' = Nobody
    /\ UNCHANGED <<deleted, user, session, reviewed, known, claims, locals, history>>
Recover(p) ==
    /\ \/ op[p] = "requested" /\ Put(p, "failed") /\ token' = Nobody
       \/ op[p] = "dispatched" /\ Put(p, "reconciliation_required") /\ UNCHANGED token
    /\ UNCHANGED <<deleted, user, session, reviewed, known, claims, locals, history>>

\* POST of admin/partners/invite-operations: what a reviewer found out.
Review(p, sent) ==
    /\ op[p] = "reconciliation_required"
    /\ p \notin reviewed
    /\ ~sent => p \notin known
    /\ reviewed' = reviewed \cup {p}
    /\ token' = IF sent THEN token ELSE Nobody
    /\ UNCHANGED <<deleted, user, session, op, known, claims, locals, history>>

\* PATCH of admin/partners/users.  An operation in the way is settled.
DeactivateLeavesLink ==   \* mutant: the user's tokens are left alone
    /\ ~deleted /\ user = "active"
    /\ user' = "inactive" /\ session' = FALSE /\ stale' = Key
    /\ op' = [p \in Process |-> IF op[p] = "requested" THEN "failed"
                                ELSE IF op[p] = "dispatched" THEN "reconciliation_required"
                                ELSE op[p]]
    /\ UNCHANGED <<deleted, token, reviewed, known, record, locals, history>>
Deactivate ==
    /\ ~deleted /\ user = "active"
    /\ user' = "inactive" /\ session' = FALSE /\ token' = Nobody
    /\ stale' = Key
    /\ op' = [p \in Process |-> IF op[p] = "requested" THEN "failed"
                                ELSE IF op[p] = "dispatched" THEN "reconciliation_required"
                                ELSE op[p]]
    /\ UNCHANGED <<deleted, reviewed, known, record, locals, history>>

Activate ==
    /\ ~deleted /\ user = "inactive"
    /\ \A p \in Process : ~Unresolved(p)
    /\ user' = "active"
    /\ stale' = Key
    /\ UNCHANGED <<deleted, session, token, ledger, record, locals, history>>

\* DELETE of the organization's contact: only what no provider has seen yet
\* may be unresolved.
ErasableAnyway == TRUE   \* mutant: what is at a provider is not looked at
Erasable == \A p \in Process : Unresolved(p) => op[p] = "requested"
Delete ==
    /\ ~deleted
    /\ Erasable
    /\ deleted' = TRUE /\ session' = FALSE /\ token' = Nobody
    /\ op' = [p \in Process |-> IF op[p] = "requested" THEN "failed" ELSE op[p]]
    /\ UNCHANGED <<user, reviewed, known, claims, locals, history>>

Restore ==
    /\ deleted
    /\ deleted' = FALSE
    /\ UNCHANGED <<user, session, token, ledger, claims, locals, history>>

\* exchangePartnerLoginToken, which uses a token up whether or not the access
\* is open, and loginWithPassword.
SignIn ==
    /\ \/ token # Nobody /\ token' = Nobody /\ session' = (session \/ (user = "active" /\ ~deleted))
       \/ user = "active" /\ ~deleted /\ session' = TRUE /\ UNCHANGED token
    /\ UNCHANGED <<deleted, user, ledger, claims, locals, history>>

-----------------------------------------------------------------------------

RequestStep(r) ==
    \/ \E k \in Key : Submit(r, k)
    \/ Claim(r) \/ Extend(r) \/ Prepare(r) \/ Settle(r)
    \/ Finalize(r) \/ FinalizeRefused(r) \/ Reclaim(r) \/ Again(r)

VisitStep(v) == VisitPrepare(v) \/ VisitFinalize(v) \/ VisitAgain(v) \/ VisitUnsent(v)

CommonStep(p) == Mark(p) \/ MarkRefused(p) \/ (\E ch \in Channel : Send(p, ch)) \/ Sent(p)

OfficeStep ==
    \/ \E p \in Process, sent \in BOOLEAN : Review(p, sent)
    \/ Deactivate \/ Activate \/ Delete \/ Restore \/ SignIn

Next ==
    \/ \E r \in Request : RequestStep(r)
    \/ \E v \in Visit : VisitStep(v)
    \/ \E p \in Process : CommonStep(p) \/ Fail(p) \/ Die(p) \/ Recover(p)
    \/ \E k \in Key : LeaseEnds(k)
    \/ OfficeStep

Spec == Init /\ [][Next]_vars

\* Only the worker's sweep is sure to come round.
FairSpec == Spec /\ \A p \in Process : WF_vars(Recover(p))

-----------------------------------------------------------------------------

TypeOK ==
    /\ deleted \in BOOLEAN
    /\ user \in {"absent", "active", "inactive"}
    /\ session \in BOOLEAN
    /\ token \in Process \cup {Nobody}
    /\ op \in [Process -> OpState]
    /\ reviewed \in SUBSET Process /\ known \in SUBSET Process
    /\ record \in [Key -> Record]
    /\ stale \in SUBSET Key
    /\ pc \in [Process -> PC]
    /\ key \in [Request -> Key \cup {"none"}]
    /\ answer \in [Process -> [Channel -> Answer]]
    /\ faults \in 0 .. MaxFaults
    /\ accepted \in SUBSET (Process \X Channel)

\* An operation recorded as failed reached nobody and one recorded as
\* succeeded reached somebody, whichever of route, retry, sweep and office
\* settled it ("Missing, duplicate, or unexpected channel evidence is
\* ambiguous, not a confirmed provider non-send").
SettledHonestly ==
    \A p \in Process :
        /\ op[p] \in {"none", "requested", "failed"} => \A ch \in Channel : <<p, ch>> \notin accepted
        /\ op[p] = "succeeded" => \E ch \in Channel : <<p, ch>> \in accepted

\* No two executions are at the providers for the same user at once, unless a
\* reviewer has closed the operation of one: whatever key or route they came by.
OneSendAtATime ==
    \A p, q \in Process : pc[p] = "send" /\ pc[q] = "send" =>
        p = q \/ p \in reviewed \/ q \in reviewed

\* A receipt of success is replayed exactly for a key whose operation did
\* succeed, though leases end and others take the key over meanwhile.
ReceiptMatches ==
    \A k \in Key : record[k].status = "succeeded" <=>
        \E r \in Request : key[r] = k /\ op[r] = "succeeded"

\* Nobody has a way in, by link or session, while the access is closed; and
\* opening it again restores neither.
ClosedMeansClosed == deleted \/ user = "inactive" => token = Nobody /\ ~session

\* While the organization is in recovery no operation of it is under way or
\* unreviewed, and no provider is being called for one: "otherwise the
\* customer could receive a message after the CRM reports deletion".
DeletedIsQuiet ==
    deleted => \A p \in Process :
        /\ op[p] \notin {"requested", "dispatched"}
        /\ Unresolved(p) \/ pc[p] = "send" => p \in reviewed

\* What is settled stays as it was settled and what was dispatched is never
\* taken for unsent again, by late results, sweeps or deactivations.
OperationsOnlyAdvance ==
    [][\A p \in Process :
        /\ op[p] \in {"succeeded", "failed", "reconciliation_required"} => op'[p] = op[p]
        /\ op[p] = "dispatched" => op'[p] # "requested"
        /\ p \in reviewed => p \in reviewed']_vars

\* An operation does not stay under way: it succeeds, fails, or comes up for
\* review.
OperationsSettle ==
    \A p \in Process : op[p] \in {"requested", "dispatched"} ~>
        op[p] \in {"succeeded", "failed", "reconciliation_required"}

-----------------------------------------------------------------------------

\* Each operation on its own keeps the promise of OneDelivery.
Stage(p) ==
    CASE op[p] = "dispatched"              -> "sending"
      [] op[p] = "succeeded"               -> "sent"
      [] op[p] = "reconciliation_required" -> "review"
      [] OTHER                             -> "open"

Promise(p) == INSTANCE OneDelivery
    WITH outcome <- Stage(p), accepted <- \E ch \in Channel : <<p, ch>> \in accepted

\* An operation is sent, refused or put up for review once and for all, and
\* never open again after a provider took it.
KeepsPromise ==
    /\ \A p \in Process : Promise(p)!Init
    /\ [][\A p \in Process : [Promise(p)!Next]_(Promise(p)!vars)]_vars
=============================================================================
