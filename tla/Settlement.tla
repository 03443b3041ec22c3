----------------------------- MODULE Settlement -----------------------------
(***************************************************************************)
(* The settlement of one disputed escrow by the platform's admins.  Four   *)
(* actors meet here and none of them is atomic with another: the browser   *)
(* tab of an admin (use-admin-settlement.ts), the HTTP route that does the *)
(* bookkeeping (resolve/route.ts), the Convex mutations it calls           *)
(* (convex/admin/mutations.ts) and the Stellar ledger with its RPC server  *)
(* (core/admin/chain-verification.ts, core/stellar/transaction.ts).        *)
(*                                                                         *)
(* A Convex mutation is one step.  A route request is a process of its own *)
(* that stops at every await: it may be late, overtaken, stall for ever,   *)
(* or finish after the tab that sent it is gone.                           *)
(*                                                                         *)
(* The escrows row of the case is not theirs alone: the tabs of the parties *)
(* record what they did before the escrow was disputed, however late, and  *)
(* syncEscrowStatus copies what it read on the ledger.                     *)
(*                                                                         *)
(* Admins are wallets other than the two parties: every handler turns a    *)
(* party away before it looks at anything else.                            *)
(***************************************************************************)
EXTENDS Integers, FiniteSets

CONSTANTS
    Owner,        \* the configured admin wallet
    OtherAdmin,   \* the wallets that may be appointed dispute admins
    Ops,          \* operation ids made by the tabs, one per press of Resolve
    External,     \* a resolution made with another tool than this application
    Shares,       \* freelancer shares in bps
    Unrecorded,   \* statuses whose recording by a party's tab is on its way
    None,
    MaxRequests   \* bound: requests one admin has in flight at once

Admin == {Owner} \cup OtherAdmin

\* A transaction hash.  Hashing is injective, so the transaction that the
\* operation op signs is named op.
Hash == Ops \cup {External}

\* The operation id that the server derives for a transaction it discovers.
ReconcileOp(h) == <<"reconcile_dispute", h>>

OperationId == Ops \cup {ReconcileOp(h) : h \in Hash}

ASSUME SettlementConstants ==
    /\ Owner \notin OtherAdmin
    /\ External \notin Ops
    /\ None \notin Admin \cup Hash
    /\ Shares \subseteq 0..10000
    /\ Unrecorded \subseteq {"funded", "submitted", "disputed"}
    /\ MaxRequests \in Nat

VARIABLES
    dispute,      \* the disputes row: status, assigned admin, outcome
    mirror,       \* the escrows row: status and settlement hash
    unrecorded,   \* the statuses of Unrecorded that are still to be recorded
    attempts,     \* the settlementAttempts rows, by operationId
    members,      \* the disputeAdmins rows with accessState "active"
    chain,        \* the escrow in the contract: status, share, hash
    chainAdmins,  \* the dispute admins the contract knows
    tx,           \* what the ledger has made of each signed transaction
    forgotten,    \* transactions past the RPC server's retention window
    terms,        \* the actor and share of each operation or transaction
    tab,          \* how far the tab of each operation is
    jobs          \* the route requests in flight

convexVars == <<dispute, mirror, attempts, members>>
chainVars == <<chain, chainAdmins, tx, forgotten>>
tabVars == <<terms, tab, unrecorded>>
vars == <<convexVars, chainVars, tabVars, jobs>>

-----------------------------------------------------------------------------
Resolutions == {"resolved_client", "resolved_freelancer", "split_resolution"}

\* resolveFreelancerShareBps: a share belongs to one resolution status.
ResolutionOf(share) ==
    CASE share = 0     -> "resolved_client"
      [] share = 10000 -> "resolved_freelancer"
      [] OTHER         -> "split_resolution"

\* The four review statuses differ only in wording here: each of them lets a
\* settlement start, continue and finish.
DisputeStatus == {"active", "cancelled"} \cup Resolutions

\* getEscrowSettlement, and resolve_dispute's final status.
SettledStatus(share) == IF share = 0 THEN "cancelled" ELSE "released"

Attempt == [actor: Admin, share: Shares, hash: Hash \cup {None},
            status: {"started", "signed", "submission_unknown",
                     "succeeded", "failed"}]

Terminal == {"succeeded", "failed"}

ActiveAttempts == {op \in DOMAIN attempts : attempts[op].status \notin Terminal}

\* assertDisputeAdminContext
IsAdmin(w) == w = Owner \/ w \in members

\* assertAssignedDisputeAdmin
IsAssigned(w) == dispute.assigned = w

\* assertActiveSettlementContext
IsActiveContext == dispute.status = "active" /\ mirror.status = "disputed"

\* A mutant: only the admin who started an attempt may finish it.
HasAccessOfInitiator(w, op) ==
    /\ op \in DOMAIN attempts
    /\ IsAdmin(w)
    /\ IsAssigned(w) /\ attempts[op].actor = w

\* assertSettlementAttemptAccess: the owner may finish anybody's attempt.
HasAccess(w, op) ==
    /\ op \in DOMAIN attempts
    /\ IsAdmin(w)
    /\ w = Owner \/ (IsAssigned(w) /\ attempts[op].actor = w)

\* A row of settlementAttempts is inserted or patched.
Put(op, attempt) ==
    attempts' = [o \in DOMAIN attempts \cup {op} |->
                    IF o = op THEN attempt ELSE attempts[o]]

SetAttemptStatus(op, status) ==
    attempts' = [attempts EXCEPT ![op].status = status]

-----------------------------------------------------------------------------
(* Requests.  `hash' is what the request knows of the transaction.          *)

Request(phase, step, w, op, hash) ==
    [phase |-> phase, step |-> step, actor |-> w, op |-> op, hash |-> hash]

Post(job) ==
    /\ Cardinality({j \in jobs : j.actor = job.actor}) < MaxRequests
    /\ jobs' = jobs \cup {job}

Finish(job) == jobs' = jobs \ {job}

Continue(job, step) == jobs' = (jobs \ {job}) \cup {[job EXCEPT !.step = step]}

\* The response reaches the tab when it still waits for it in state `waits'.
Reply(job, waits, next) ==
    tab' = IF tab[job.op] = waits THEN [tab EXCEPT ![job.op] = next] ELSE tab

-----------------------------------------------------------------------------
Init ==
    /\ dispute = [status |-> "active", assigned |-> None, share |-> None,
                  hash |-> None]
    /\ mirror = [status |-> "disputed", hash |-> None]
    /\ attempts = [op \in {} |-> None]
    /\ members = OtherAdmin
    /\ chain = [status |-> "disputed", share |-> None, hash |-> None]
    /\ chainAdmins = Admin
    /\ tx = [h \in Hash |-> "unsigned"]
    /\ forgotten = {}
    /\ terms = [h \in Hash |-> None]
    /\ tab = [op \in Ops |-> "idle"]
    /\ jobs = {}
    /\ unrecorded = Unrecorded

-----------------------------------------------------------------------------
(* The case: claiming, assigning, revoking, and what the parties may do.    *)

ClaimDispute(w) ==
    /\ IsAdmin(w)
    /\ dispute.status = "active"
    /\ dispute.assigned = None
    /\ dispute' = [dispute EXCEPT !.assigned = w]
    /\ UNCHANGED <<mirror, attempts, members, chainVars, tabVars, jobs>>

\* A mutant: a case is reassigned while its settlement is pending.
AssignPending(w) ==
    /\ w # dispute.assigned
    /\ w = None \/ IsAdmin(w)
    /\ dispute' = [dispute EXCEPT !.assigned = w]
    /\ UNCHANGED <<mirror, attempts, members, chainVars, tabVars, jobs>>

\* The owner gives the case to w, or to nobody.  Cases are not reassigned
\* while a settlement is pending; the dispute's status does not matter.
AssignDispute(w) ==
    /\ w # dispute.assigned
    /\ ActiveAttempts = {}
    /\ w = None \/ IsAdmin(w)
    /\ dispute' = [dispute EXCEPT !.assigned = w]
    /\ UNCHANGED <<mirror, attempts, members, chainVars, tabVars, jobs>>

\* startDisputeAdminOperation("remove"): access ends before the chain knows.
RevokeMembership(w) ==
    /\ w \in members
    /\ members' = members \ {w}
    /\ UNCHANGED <<dispute, mirror, attempts, chainVars, tabVars, jobs>>

\* The contract's remove_dispute_admin.
RevokeOnChain(w) ==
    /\ w \in chainAdmins \ {Owner}
    /\ w \notin members
    /\ chainAdmins' = chainAdmins \ {w}
    /\ UNCHANGED <<convexVars, chain, tx, forgotten, tabVars, jobs>>

\* changeDisputeStatus and cancelDispute: a party sets any status that is not
\* a resolution, whatever the old status and whatever is pending.
ChangeDisputeStatus(status) ==
    /\ status \in {"active", "cancelled"}
    /\ dispute.status # status
    /\ dispute' = [dispute EXCEPT !.status = status]
    /\ UNCHANGED <<mirror, attempts, members, chainVars, tabVars, jobs>>

-----------------------------------------------------------------------------
(* The escrows row, written by others.                                      *)

\* updateEscrowStatus, or updateMilestoneEscrowStatus: the tab of a party
\* records a funding, a submission or a mark that the ledger confirmed before
\* the case began.  The row is overwritten whatever it shows.  A release or a
\* cancellation cannot be among them: the contract disputes neither.
RecordLate(status) ==
    /\ status \in unrecorded
    /\ unrecorded' = unrecorded \ {status}
    /\ mirror' = [mirror EXCEPT !.status = status]
    /\ UNCHANGED <<dispute, attempts, members, chainVars, terms, tab, jobs>>

\* The statuses of the escrow a sync may have read, now or long before.
Readings == {"submitted", "disputed", chain.status}

\* applyEscrowStatusSync: a status that is not final gives way to a later one.
\* No transaction is named and the case is not looked at.
Sync(reading) ==
    /\ mirror.status \in {"funded", "submitted"}
    /\ reading \in Readings \ {mirror.status}
    /\ mirror' = [mirror EXCEPT !.status = reading]
    /\ UNCHANGED <<dispute, attempts, members, chainVars, tabVars, jobs>>

-----------------------------------------------------------------------------
(* The tab.                                                                 *)

\* resolve(): the tab sees the case as it was when the page was loaded, so
\* only the read of the contract guards it.
Resolve(op, w, share) ==
    /\ tab[op] = "idle"
    /\ w \in chainAdmins
    /\ terms' = [terms EXCEPT ![op] = [actor |-> w, share |-> share]]
    /\ tab' = [tab EXCEPT ![op] = "starting"]
    /\ Post(Request("started", "preflight", w, op, None))
    /\ UNCHANGED <<convexVars, chainVars, unrecorded>>

\* Simulation passes, the wallet signs, and the identity is sent off to be
\* recorded before anything is submitted.
Sign(op) ==
    /\ tab[op] = "signing"
    /\ chain.status = "disputed"
    /\ terms[op].actor \in chainAdmins
    /\ tx' = [tx EXCEPT ![op] = "signed"]
    /\ tab' = [tab EXCEPT ![op] = "recording"]
    /\ Post(Request("signed", "record", terms[op].actor, op, op))
    /\ UNCHANGED <<convexVars, chain, chainAdmins, forgotten, terms, unrecorded>>

\* reportFailureBeforeSubmission: the simulation fails or the wallet refuses,
\* or the answer to the start request is lost.
ReportFailure(op) ==
    /\ tab[op] \in {"starting", "signing"}
    /\ tab' = [tab EXCEPT ![op] = "over"]
    /\ Post(Request("failed", "record", terms[op].actor, op, None))
    /\ UNCHANGED <<convexVars, chainVars, terms, unrecorded>>

\* sendTransaction, or the gas relay: an expired transaction is refused.
Submit(op) ==
    /\ tab[op] = "submitting"
    /\ tab' = [tab EXCEPT ![op] = "over"]
    /\ tx' = [tx EXCEPT ![op] = IF @ = "signed" THEN "pending" ELSE @]
    /\ UNCHANGED <<convexVars, chain, chainAdmins, forgotten, terms, unrecorded,
                   jobs>>

\* The page is closed, the wallet changed, or an answer is lost where the tab
\* can only reconcile.
Abandon(op) ==
    /\ tab[op] \in {"starting", "signing", "recording", "submitting"}
    /\ tab' = [tab EXCEPT ![op] = "over"]
    /\ UNCHANGED <<convexVars, chainVars, terms, unrecorded, jobs>>

\* The phases "succeeded" and "reconcile", which the route treats alike:
\* after a submission, or whenever an admin presses Reconcile.
RequestReconcile(w, op) ==
    /\ op \in DOMAIN attempts
    /\ Post(Request("reconcile", "read", w, op, None))
    /\ UNCHANGED <<convexVars, chainVars, tabVars>>

\* The phase "reconcile_external": by itself after a start is refused because
\* the escrow is settled, or whenever an admin presses the button again.
RequestReconcileExternal(w) ==
    /\ chain.status # "disputed"
    /\ Post(Request("reconcile_external", "preflight", w, None, None))
    /\ UNCHANGED <<convexVars, chainVars, tabVars>>

-----------------------------------------------------------------------------
(* The ledger.                                                              *)

SettleOnChain(h) ==
    chain' = [status |-> SettledStatus(terms'[h].share),
              share |-> terms'[h].share, hash |-> h]

\* A submitted transaction is applied, or fails: the contract refuses it when
\* the escrow is no longer disputed or the admin is no longer one.
Apply(op) ==
    /\ tx[op] = "pending"
    /\ \/ /\ chain.status = "disputed"
          /\ terms[op].actor \in chainAdmins
          /\ tx' = [tx EXCEPT ![op] = "succeeded"]
          /\ UNCHANGED terms
          /\ SettleOnChain(op)
       \/ /\ ~(chain.status = "disputed" /\ terms[op].actor \in chainAdmins)
          /\ tx' = [tx EXCEPT ![op] = "failed"]
          /\ UNCHANGED <<terms, chain>>
    /\ UNCHANGED <<convexVars, chainAdmins, forgotten, tab, unrecorded, jobs>>

\* validUntil passes, and the ledger can never apply the transaction.
Expire(op) ==
    /\ tx[op] \in {"signed", "pending"}
    /\ tx' = [tx EXCEPT ![op] = "expired"]
    /\ UNCHANGED <<convexVars, chain, chainAdmins, forgotten, tabVars, jobs>>

\* An admin calls resolve_dispute with another tool.
ResolveElsewhere(w, share) ==
    /\ chain.status = "disputed"
    /\ w \in chainAdmins
    /\ terms' = [terms EXCEPT ![External] = [actor |-> w, share |-> share]]
    /\ tx' = [tx EXCEPT ![External] = "succeeded"]
    /\ SettleOnChain(External)
    /\ UNCHANGED <<convexVars, chainAdmins, forgotten, tab, unrecorded, jobs>>

\* The RPC server keeps transactions for a limited time only.
Forget(h) ==
    /\ tx[h] \in {"succeeded", "failed"}
    /\ forgotten' = forgotten \cup {h}
    /\ forgotten' # forgotten
    /\ UNCHANGED <<convexVars, chain, chainAdmins, tx, tabVars, jobs>>

\* verifyAdminChainOperation: what getTransaction answers.  NOT_FOUND more
\* than five seconds after validUntil reads as expired, whatever the reason;
\* a forgotten transaction is older than that.
Verdict(h) ==
    CASE h \in forgotten -> "expired"
      [] tx[h] \in {"succeeded", "failed", "expired"} -> tx[h]
      [] OTHER -> "pending"

\* findSuccessfulAdminResolutionTransaction: the history of one admin.
Discovered(w) ==
    {h \in Hash \ forgotten : tx[h] = "succeeded" /\ terms[h].actor = w}

-----------------------------------------------------------------------------
(* The mutations: when each accepts, and what it writes.                    *)

\* recordDisputeResolutionStarted
StartAccepted(job) ==
    /\ IsAdmin(job.actor) /\ IsAssigned(job.actor)
    /\ IsActiveContext
    /\ IF job.op \in DOMAIN attempts
       THEN attempts[job.op].status # "failed"
       ELSE ActiveAttempts = {}

RecordStarted(job) ==
    IF job.op \in DOMAIN attempts
    THEN UNCHANGED attempts
    ELSE Put(job.op, [actor |-> job.actor, share |-> terms[job.op].share,
                      hash |-> None, status |-> "started"])

\* A mutant: any known transaction counts as this one.
SignedAcceptedForAny(job) ==
    /\ job.op \in DOMAIN attempts
    /\ IsAdmin(job.actor) /\ IsAssigned(job.actor)
    /\ attempts[job.op].actor = job.actor
    /\ attempts[job.op].status # "failed"

\* recordDisputeResolutionSigned
SignedAccepted(job) ==
    /\ job.op \in DOMAIN attempts
    /\ IsAdmin(job.actor) /\ IsAssigned(job.actor)
    /\ attempts[job.op].actor = job.actor
    /\ attempts[job.op].status # "failed"
    /\ \/ attempts[job.op].hash = job.hash
       \/ /\ attempts[job.op].hash = None
          /\ attempts[job.op].status # "submission_unknown"
          /\ IsActiveContext

RecordSigned(job) ==
    IF attempts[job.op].hash = None
    THEN attempts' = [attempts EXCEPT ![job.op].hash = job.hash,
                                      ![job.op].status = "signed"]
    ELSE UNCHANGED attempts

\* recordDisputeResolutionSubmissionUnknown
UnknownAccepted(job) ==
    /\ HasAccess(job.actor, job.op)
    /\ attempts[job.op].status \notin Terminal =>
           /\ attempts[job.op].hash # None
           /\ attempts[job.op].status # "submission_unknown" => IsActiveContext

\* A mutant: a late doubt overwrites the outcome.
RecordDoubt(job) == SetAttemptStatus(job.op, "submission_unknown")

RecordUnknown(job) ==
    IF attempts[job.op].status \in Terminal
    THEN UNCHANGED attempts
    ELSE SetAttemptStatus(job.op, "submission_unknown")

\* A mutant: a failure may be recorded without naming the signed transaction.
FailedAcceptedUnnamed(job) ==
    /\ HasAccess(job.actor, job.op)
    /\ attempts[job.op].status \notin Terminal => IsActiveContext

\* recordDisputeResolutionFailed: once a transaction is known, only a caller
\* that names it, having looked for it on the ledger, may give it up.
FailedAccepted(job) ==
    /\ HasAccess(job.actor, job.op)
    /\ LET known == attempts[job.op].hash IN
       IF attempts[job.op].status \in Terminal
       THEN known = None \/ job.hash \in {None, known}
       ELSE IsActiveContext /\ job.hash = known

RecordFailed(job) ==
    IF attempts[job.op].status \in Terminal
    THEN UNCHANGED attempts
    ELSE SetAttemptStatus(job.op, "failed")

\* recordDisputeResolutionSucceeded
SucceededAccepted(job) ==
    /\ HasAccess(job.actor, job.op)
    /\ attempts[job.op].status # "failed"
    /\ attempts[job.op].hash = job.hash
    /\ attempts[job.op].status # "succeeded" => IsActiveContext

\* The attempt, the case and the escrow row are settled in one transaction.
RecordSucceeded(job) ==
    LET attempt == attempts[job.op] IN
    IF attempt.status = "succeeded"
    THEN UNCHANGED <<attempts, dispute, mirror>>
    ELSE /\ SetAttemptStatus(job.op, "succeeded")
         /\ dispute' = [dispute EXCEPT !.status = ResolutionOf(attempt.share),
                                       !.share = attempt.share,
                                       !.hash = job.hash]
         /\ mirror' = [status |-> SettledStatus(attempt.share),
                       hash |-> job.hash]

\* recordDisputeResolutionReconciliationStarted: the pending attempt that the
\* discovered transaction h belongs to, or the one made for it.
OwnerOf(h) ==
    IF ReconcileOp(h) \notin DOMAIN attempts /\ ActiveAttempts # {}
    THEN CHOOSE op \in ActiveAttempts : TRUE
    ELSE ReconcileOp(h)

\* A mutant: the terms are not compared before a pending attempt is joined.
AdoptAcceptedAnyTerms(job) ==
    LET op == OwnerOf(job.hash) IN
    /\ IsAdmin(job.actor) /\ IsAssigned(job.actor)
    /\ IF op \in DOMAIN attempts
       THEN /\ attempts[op].actor = job.actor
            /\ attempts[op].hash \in {None, job.hash}
            /\ attempts[op].status # "failed"
       ELSE IsActiveContext

AdoptAccepted(job) ==
    LET op == OwnerOf(job.hash) IN
    /\ IsAdmin(job.actor) /\ IsAssigned(job.actor)
    /\ IF op \in DOMAIN attempts
       THEN /\ attempts[op].actor = job.actor
            /\ attempts[op].share = terms[job.hash].share
            /\ attempts[op].hash \in {None, job.hash}
            /\ attempts[op].status # "failed"
       ELSE IsActiveContext

RecordAdopted(job) ==
    LET op == OwnerOf(job.hash) IN
    CASE op \notin DOMAIN attempts ->
             Put(op, [actor |-> job.actor, share |-> terms[job.hash].share,
                      hash |-> job.hash, status |-> "signed"])
      [] op \in DOMAIN attempts /\ attempts[op].hash = None ->
             attempts' = [attempts EXCEPT ![op].hash = job.hash,
                                          ![op].status = "signed"]
      [] OTHER -> UNCHANGED attempts

-----------------------------------------------------------------------------
(* The route.  Each step is one await; a refusal ends the request.          *)

Waits(job) == CASE job.phase = "started" -> "starting"
                [] job.phase = "signed"  -> "recording"
                [] OTHER                 -> "over"

Refuse(job) ==
    /\ Finish(job)
    /\ IF job.phase \in {"started", "signed"}
       THEN Reply(job, Waits(job), "over")
       ELSE UNCHANGED tab
    /\ UNCHANGED <<convexVars, chainVars, terms, unrecorded>>

Proceed(job, step) ==
    /\ Continue(job, step)
    /\ UNCHANGED <<convexVars, chainVars, tabVars>>

At(job, phase, step) == job.phase = phase /\ job.step = step

\* getAdminSettlementPreflight and the check of the mirror after it.
Preflight(job) ==
    LET ok == IsAdmin(job.actor) /\ IsAssigned(job.actor)
              /\ mirror.status = "disputed"
    IN
    \/ At(job, "started", "preflight") /\ ok /\ Proceed(job, "escrow")
    \/ At(job, "reconcile_external", "preflight") /\ ok /\ Proceed(job, "search")
    \/ job.step = "preflight" /\ ~ok /\ Refuse(job)

\* readDisputedEscrowStatus before a start.
CheckDisputed(job) ==
    /\ At(job, "started", "escrow")
    /\ IF chain.status = "disputed" THEN Proceed(job, "record") ELSE Refuse(job)

RouteStarted(job) ==
    /\ At(job, "started", "record")
    /\ \/ /\ StartAccepted(job)
          /\ RecordStarted(job)
          /\ Finish(job)
          /\ Reply(job, "starting", "signing")
          /\ UNCHANGED <<dispute, mirror, members, chainVars, terms, unrecorded>>
       \/ ~StartAccepted(job) /\ Refuse(job)

RouteSigned(job) ==
    /\ At(job, "signed", "record")
    /\ \/ /\ SignedAccepted(job)
          /\ RecordSigned(job)
          /\ Finish(job)
          /\ Reply(job, "recording", "submitting")
          /\ UNCHANGED <<dispute, mirror, members, chainVars, terms, unrecorded>>
       \/ ~SignedAccepted(job) /\ Refuse(job)

\* The phase "failed", and both ways a reconciliation ends in failure.
RouteFailed(job) ==
    /\ \/ At(job, "failed", "record")
       \/ At(job, "reconcile", "fail")
    /\ \/ /\ FailedAccepted(job)
          /\ RecordFailed(job)
          /\ Finish(job)
          /\ UNCHANGED <<dispute, mirror, members, chainVars, tabVars>>
       \/ ~FailedAccepted(job) /\ Refuse(job)

\* getSettlementAttemptByOperation.  An attempt without a transaction is given
\* up at once; otherwise the transaction is looked up.
ReadAttempt(job) ==
    /\ At(job, "reconcile", "read")
    /\ LET attempt == attempts[job.op] IN
       \/ /\ HasAccess(job.actor, job.op)
          /\ attempt.hash # None
          /\ jobs' = (jobs \ {job}) \cup
                     {[job EXCEPT !.step = "verify", !.hash = attempt.hash]}
          /\ UNCHANGED <<convexVars, chainVars, tabVars>>
       \/ /\ HasAccess(job.actor, job.op)
          /\ attempt.hash = None
          /\ attempt.status = "started"
          /\ Proceed(job, "fail")
       \/ /\ \/ ~HasAccess(job.actor, job.op)
             \/ attempt.hash = None /\ attempt.status # "started"
          /\ Refuse(job)

\* assertExpectedInvocation: the transaction found is the attempt's.
HasTermsOf(h, attempt) ==
    terms[h].actor = attempt.actor /\ terms[h].share = attempt.share

Verify(job) ==
    /\ At(job, "reconcile", "verify")
    /\ \/ Verdict(job.hash) = "pending" /\ Proceed(job, "unknown")
       \/ Verdict(job.hash) = "expired" /\ Proceed(job, "check_disputed")
       \/ /\ Verdict(job.hash) \in {"succeeded", "failed"}
          /\ IF HasTermsOf(job.hash, attempts[job.op])
             THEN Proceed(job, IF Verdict(job.hash) = "succeeded"
                               THEN "check_settled" ELSE "check_disputed")
             ELSE Refuse(job)

RouteUnknown(job) ==
    /\ At(job, "reconcile", "unknown")
    /\ \/ /\ UnknownAccepted(job)
          /\ RecordUnknown(job)
          /\ Finish(job)
          /\ UNCHANGED <<dispute, mirror, members, chainVars, tabVars>>
       \/ ~UnknownAccepted(job) /\ Refuse(job)

\* readDisputedEscrowStatus after the lookup: the escrow must agree with what
\* the transaction is said to have done.
CheckEscrow(job) ==
    \/ /\ At(job, "reconcile", "check_disputed")
       /\ IF chain.status = "disputed" THEN Proceed(job, "fail") ELSE Refuse(job)
    \/ /\ job.step = "check_settled"
       /\ IF chain.status = SettledStatus(terms[job.hash].share)
          THEN Proceed(job, IF job.phase = "reconcile" THEN "succeed" ELSE "adopt")
          ELSE Refuse(job)

\* The search of the ledger for a resolution nobody recorded.
Search(job) ==
    /\ At(job, "reconcile_external", "search")
    /\ \/ \E h \in Discovered(job.actor) :
              /\ jobs' = (jobs \ {job}) \cup
                         {[job EXCEPT !.step = "check_settled", !.hash = h]}
              /\ UNCHANGED <<convexVars, chainVars, tabVars>>
       \/ Discovered(job.actor) = {} /\ Refuse(job)

RouteAdopt(job) ==
    /\ At(job, "reconcile_external", "adopt")
    /\ \/ /\ AdoptAccepted(job)
          /\ RecordAdopted(job)
          /\ jobs' = (jobs \ {job}) \cup
                     {[job EXCEPT !.step = "succeed", !.op = OwnerOf(job.hash)]}
          /\ UNCHANGED <<dispute, mirror, members, chainVars, tabVars>>
       \/ ~AdoptAccepted(job) /\ Refuse(job)

RouteSucceeded(job) ==
    /\ job.step = "succeed"
    /\ \/ /\ SucceededAccepted(job)
          /\ RecordSucceeded(job)
          /\ Finish(job)
          /\ UNCHANGED <<members, chainVars, tabVars>>
       \/ ~SucceededAccepted(job) /\ Refuse(job)

RouteStep(job) ==
    \/ Preflight(job)
    \/ CheckDisputed(job)
    \/ RouteStarted(job)
    \/ RouteSigned(job)
    \/ RouteFailed(job)
    \/ ReadAttempt(job)
    \/ Verify(job)
    \/ RouteUnknown(job)
    \/ CheckEscrow(job)
    \/ Search(job)
    \/ RouteAdopt(job)
    \/ RouteSucceeded(job)

-----------------------------------------------------------------------------
Next ==
    \/ \E w \in Admin :
           \/ ClaimDispute(w)
           \/ AssignDispute(w)
           \/ RevokeMembership(w)
           \/ RevokeOnChain(w)
           \/ RequestReconcileExternal(w)
           \/ \E op \in OperationId : RequestReconcile(w, op)
           \/ \E share \in Shares :
                  \/ ResolveElsewhere(w, share)
                  \/ \E op \in Ops : Resolve(op, w, share)
    \/ AssignDispute(None)
    \/ \E status \in DisputeStatus : ChangeDisputeStatus(status)
    \/ \E op \in Ops :
           \/ Sign(op)
           \/ ReportFailure(op)
           \/ Submit(op)
           \/ Abandon(op)
           \/ Apply(op)
           \/ Expire(op)
    \/ \E status \in Unrecorded : RecordLate(status)
    \/ \E reading \in Readings : Sync(reading)
    \/ \E h \in Hash : Forget(h)
    \/ \E job \in jobs : RouteStep(job)

Spec == Init /\ [][Next]_vars

\* The owner presses Reconcile again and again while an attempt is pending,
\* and the owner's requests run to their end.  Nothing is assumed of the other
\* admins, the parties, the tabs or the ledger.
OwnerRetries(op) ==
    /\ op \in ActiveAttempts
    /\ RequestReconcile(Owner, op)

OwnerStep == \E job \in jobs : job.actor = Owner /\ RouteStep(job)

FairSpec ==
    /\ Spec
    /\ WF_vars(OwnerStep)
    /\ \A op \in Ops : SF_vars(OwnerRetries(op))

-----------------------------------------------------------------------------
TypeOK ==
    /\ dispute \in [status: DisputeStatus, assigned: Admin \cup {None},
                    share: Shares \cup {None}, hash: Hash \cup {None}]
    /\ mirror \in [status: {"funded", "submitted", "disputed", "released",
                            "cancelled"},
                   hash: Hash \cup {None}]
    /\ unrecorded \subseteq Unrecorded
    /\ DOMAIN attempts \subseteq OperationId
    /\ \A op \in DOMAIN attempts : attempts[op] \in Attempt
    /\ members \subseteq OtherAdmin
    /\ chain \in [status: {"disputed", "released", "cancelled"},
                  share: Shares \cup {None}, hash: Hash \cup {None}]
    /\ chainAdmins \subseteq Admin
    /\ tx \in [Hash -> {"unsigned", "signed", "pending", "succeeded",
                        "failed", "expired"}]
    /\ forgotten \subseteq Hash
    /\ terms \in [Hash -> [actor: Admin, share: Shares] \cup {None}]
    /\ tab \in [Ops -> {"idle", "starting", "signing", "recording",
                        "submitting", "over"}]
    /\ \A w \in Admin : Cardinality({j \in jobs : j.actor = w}) <= MaxRequests

\* A recording from before the dispute has overwritten the row.
IsOverwritten == (Unrecorded \ unrecorded) \ {"disputed"} # {}

Settled == {"released", "cancelled"}

\* What the application says about the outcome is what the contract did, over
\* retries, other tools, late recordings of the parties and syncs.  An escrow
\* row that names a settlement, the resolved case and the succeeded attempt
\* name the same transaction and the share that moved the money; a row shown
\* as settled never shows an outcome the ledger does not have.  It shows it
\* without the record of the settlement only when a recording from before the
\* dispute overwrote "disputed": then a sync is free to advance it.
RecordsFollowTheChain ==
    /\ mirror.status \in Settled => mirror.status = chain.status
    /\ mirror.hash # None =>
           /\ mirror.hash = chain.hash
           /\ <<dispute.share, dispute.hash>> = <<chain.share, chain.hash>>
           /\ \E op \in DOMAIN attempts :
                  /\ attempts[op].status = "succeeded"
                  /\ attempts[op].hash = chain.hash
    /\ mirror.status # "disputed" => mirror.hash # None \/ IsOverwritten
    /\ dispute.status \in Resolutions =>
           /\ mirror.hash # None
           /\ dispute.status = ResolutionOf(chain.share)
    /\ \A op \in DOMAIN attempts : attempts[op].status = "succeeded" =>
           /\ mirror.hash # None
           /\ <<attempts[op].hash, attempts[op].share>> =
                  <<chain.hash, chain.share>>
           /\ attempts[op].actor = terms[chain.hash].actor

\* A transaction that can reach the ledger is always one the database knows:
\* whatever becomes of the tab, it can be looked up and finished later.
NothingUnrecordedIsSubmitted ==
    \A op \in Ops : tx[op] \in {"pending", "succeeded", "failed"} =>
        /\ op \in DOMAIN attempts
        /\ attempts[op].hash = op

\* An attempt is given up only when its transaction can no longer settle the
\* escrow: it was never submitted, was refused, or expired.  A new attempt
\* never runs beside a live transaction of an old one.
FailedAttemptsAreDead ==
    \A op \in DOMAIN attempts : attempts[op].status = "failed" =>
        /\ op \in Ops => tx[op] \notin {"pending", "succeeded"}
        /\ op \in Ops => ~(tab[op] = "submitting" /\ tx[op] = "signed")
        /\ attempts[op].hash # None =>
               tx[attempts[op].hash] \notin {"pending", "succeeded"}

\* At most one attempt is pending, and the case stays with the admin who
\* started it until it is closed: no reassignment strands a transaction.
PendingAttemptIsUniqueAndAssigned ==
    /\ Cardinality(ActiveAttempts) <= 1
    /\ \A op \in ActiveAttempts : attempts[op].actor = dispute.assigned

\* A closed attempt is never reopened or rewritten, and the transaction of an
\* attempt, once known, is never exchanged for another.
AttemptsAreHistory ==
    [][\A op \in DOMAIN attempts :
          /\ op \in DOMAIN attempts'
          /\ attempts[op].status \in Terminal => attempts'[op] = attempts[op]
          /\ attempts[op].hash # None => attempts'[op].hash = attempts[op].hash
      ]_vars

\* A settlement made through the application is recorded in the end, even if
\* the tab died and its admin was dismissed, as long as somebody retries -
\* unless a party cancels the case, the RPC server forgets the transaction, or
\* a recording from before the dispute overwrites the escrow row: no mutation
\* finishes a case whose row does not say "disputed".
SettlementIsRecorded ==
    \A op \in Ops :
        tx[op] = "succeeded" ~> \/ op \in DOMAIN attempts
                                   /\ attempts[op].status = "succeeded"
                                \/ dispute.status = "cancelled"
                                \/ op \in forgotten
                                \/ IsOverwritten /\ mirror.status # "disputed"

\* The view of the ledger in this module, where the escrow is disputed already.
Keeping == INSTANCE Custody WITH
    Escrows <- {"escrow"}, Workers <- {"freelancer"}, Nobody <- "nobody",
    stage  <- [e \in {"escrow"} |->
                 IF chain.status = "disputed" THEN "disputed" ELSE "closed"],
    worker <- [e \in {"escrow"} |-> "freelancer"]

\* The ledger of this module moves as the contract promises: whichever admins
\* send whatever they signed, the escrow is closed once.
KeepsCustody == Keeping!Kept

=============================================================================
