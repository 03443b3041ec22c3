---------------------------- MODULE EscrowMirror ----------------------------
(***************************************************************************)
(* One micro-gig job, its escrow on the ledger, and the copy of it that    *)
(* Convex keeps.  The browser tabs of the parties press the buttons of the *)
(* escrow, proof, cancellation and dispute panels: a press checks the      *)
(* copy, runs a contract call, and then records the outcome with a Convex  *)
(* mutation.  The call and the mutation are two steps, so a recording may  *)
(* be late, overtaken, refused, or never made; syncEscrowStatus and        *)
(* syncReputationRecord repair the copy from what they read on the ledger, *)
(* in two steps again.                                                     *)
(*                                                                         *)
(* A tab runs one action at a time, a person may have several tabs.  The   *)
(* contract is EscrowContract, the settlement by an admin Settlement, the  *)
(* hiring WorkAgreements, the delivery Delivery and the cancellation       *)
(* without the ledger Cancellations, all seen here from outside: their     *)
(* guards on the rows of this module and their effect on them.  The        *)
(* approval of a cancellation request is taken for granted, and so is the  *)
(* history row of the transaction, which no guard reads.                   *)
(***************************************************************************)
EXTENDS Integers, FiniteSets

CONSTANTS
    ClientTabs,       \* tabs of the job's client
    FreelancerTabs,   \* tabs of the selected freelancer
    AdminTabs,        \* tabs of dispute admins
    EscrowIds,        \* ids the contract counts up through
    None,
    MaxLate           \* bound: transactions in flight that no tab waits for

ASSUME EscrowMirrorConstants ==
    /\ EscrowIds \subseteq Nat \ {0}
    /\ None \notin EscrowIds
    /\ MaxLate \in Nat
    /\ ClientTabs \cap FreelancerTabs = {}
    /\ (ClientTabs \cup FreelancerTabs) \cap AdminTabs = {}

Tabs == ClientTabs \cup FreelancerTabs \cup AdminTabs

VARIABLES
    chain,        \* the escrows in the contract
    late,         \* transactions submitted whose sender stopped waiting
    rows,         \* the escrows rows: the status of each, or "none"
    job,          \* the status of the jobs row
    freelancer,   \* who has one: the jobs row, and the escrow's row
    work,         \* how far the proof of the work is
    agreement,    \* the status of the job's work agreement
    dispute,      \* the disputes row of each escrow, active or closed
    reputation,   \* how many reputationRecords rows each escrow has
    tab           \* the action each tab runs

chainVars == <<chain, late>>
workVars == <<freelancer, work>>
convexVars == <<rows, job, workVars, agreement, dispute, reputation>>
vars == <<chainVars, convexVars, tab>>

-----------------------------------------------------------------------------
EscrowStatus ==
    {"created", "funded", "submitted", "released", "cancelled", "disputed"}

JobStatus ==
    {"open", "selected", "funded", "submitted", "revision_requested",
     "revision_submitted", "completed", "cancelled", "disputed"}

\* getJobStatusFromEscrowStatus
JobStatusFromEscrowStatus(status) ==
    IF status = "released" THEN "completed" ELSE status

\* The contract calls, the statuses the contract accepts each in and the one
\* it leaves.  The admin's two outcomes are calls of their own.
Calls == {"fund", "submit", "release", "cancel", "dispute",
          "pay_out", "refund"}

\* Two calls make an escrow: create_escrow for the selected freelancer, and
\* create_and_fund_open_escrow with a job that has none yet.
Creations == {"create", "post"}

ContractAccepts ==
    [fund    |-> {"created"},            submit |-> {"funded"},
     release |-> {"submitted"},          cancel |-> {"created", "funded"},
     dispute |-> {"funded", "submitted"},
     pay_out |-> {"disputed"},           refund |-> {"disputed"}]

StatusAfter ==
    [fund |-> "funded", submit |-> "submitted", release |-> "released",
     cancel |-> "cancelled", dispute |-> "disputed",
     pay_out |-> "released", refund |-> "cancelled"]

\* Who has the button of a call, and in which status of the copy it shows.
Holders ==
    [fund    |-> ClientTabs,             submit |-> FreelancerTabs,
     release |-> ClientTabs,             cancel |-> ClientTabs,
     dispute |-> ClientTabs \cup FreelancerTabs,
     pay_out |-> AdminTabs,              refund |-> AdminTabs]

ButtonShows ==
    [fund    |-> {"created"},            submit |-> {"funded"},
     release |-> {"submitted"},          cancel |-> {"created", "funded"},
     dispute |-> EscrowStatus,
     pay_out |-> {"disputed"},           refund |-> {"disputed"}]

\* The escrows row of the job: the interface shows the first there is.
RowIds == {id \in EscrowIds : rows[id] # "none"}

IsActiveDispute(id) == dispute[id] = "active"

\* A preview is handed in for review, sent back for a revision, and without
\* one again when the revision ends unanswered; accepted, or handed in where
\* the job has no previews, the proof is ready for the ledger, during a
\* revision too.
WorkStatus ==
    {"none", "draft", "in_review", "sent_back", "returned", "ready",
     "in_revision"}

HasProof == work \notin {"none", "draft"}

-----------------------------------------------------------------------------
(* Tabs.  `read' is what a sync has read on the ledger.                     *)

Idle == [op |-> "none", step |-> "idle", id |-> None, read |-> None]

Start(t, op, step, id) ==
    tab' = [tab EXCEPT ![t] = [op |-> op, step |-> step, id |-> id,
                               read |-> None]]

Stop(t) == tab' = [tab EXCEPT ![t] = Idle]

\* The job has just been posted, by a page that may go on to pay for it.
Init ==
    /\ chain = [id \in EscrowIds |->
                  [status |-> "none", past |-> {}, completion |-> FALSE,
                   worker |-> "nobody"]]
    /\ late = {}
    /\ rows = [id \in EscrowIds |-> "none"]
    /\ job = "open"
    /\ freelancer = [job |-> FALSE, row |-> "none"]
    /\ work = "none"
    /\ agreement = "pending"
    /\ dispute = [id \in EscrowIds |-> "none"]
    /\ reputation = [id \in EscrowIds |-> 0]
    /\ \E posting \in SUBSET ClientTabs :
         /\ Cardinality(posting) <= 1
         /\ tab = [t \in Tabs |->
                     IF t \in posting
                       THEN [op |-> "post", step |-> "sending", id |-> None,
                             read |-> None]
                       ELSE Idle]

-----------------------------------------------------------------------------
(* Buttons.                                                                 *)

PressCreate(t) ==
    /\ t \in ClientTabs /\ tab[t] = Idle
    /\ job = "selected" /\ RowIds = {}
    /\ Start(t, "create", "sending", None)
    /\ UNCHANGED <<chainVars, convexVars>>

\* A mutant: the outcome is recorded before the ledger has confirmed it.
PressOptimistically(t, op, id) ==
    /\ t \in Holders[op] /\ tab[t] = Idle
    /\ rows[id] \in ButtonShows[op]
    /\ Start(t, op, "recording", id)
    /\ UNCHANGED <<chainVars, convexVars>>

\* assignPreFundedEscrow, for a posted escrow that nobody works on.
PressAssign(t, id) ==
    /\ t \in ClientTabs /\ tab[t] = Idle
    /\ job = "funded" /\ rows[id] = "funded"
    /\ ~freelancer.job /\ freelancer.row = "none"
    /\ Start(t, "assign", "sending", id)
    /\ UNCHANGED <<chainVars, convexVars>>

\* What a press needs besides: only proof that is ready is anchored,
\* markCancelOnChainStarted refuses during a dispute, and only a dispute that
\* was opened can be marked on the ledger or resolved.
MayPress(op, id) ==
    /\ op = "submit" => work \in {"ready", "in_revision"}
    /\ op = "cancel" => ~IsActiveDispute(id)
    /\ op \in {"dispute", "pay_out", "refund"} => IsActiveDispute(id)

Press(t, op, id) ==
    /\ t \in Holders[op] /\ tab[t] = Idle
    /\ rows[id] \in ButtonShows[op] /\ MayPress(op, id)
    /\ Start(t, op, "sending", id)
    /\ UNCHANGED <<chainVars, convexVars>>

-----------------------------------------------------------------------------
(* The ledger.                                                              *)

Unused == {id \in EscrowIds : chain[id].status = "none"}

\* The contract counts its ids upwards.
Allocate(id, op) ==
    LET now == IF op = "post" THEN "funded" ELSE "created"
    IN  /\ id \in Unused /\ \A other \in Unused : id <= other
        /\ chain' = [chain EXCEPT ![id] =
                       [status |-> now, past |-> {now}, completion |-> FALSE,
                        worker |-> IF op = "post" THEN "nobody"
                                   ELSE "freelancer"]]

IsAccepted(op, id) ==
    /\ chain[id].status \in ContractAccepts[op]
    /\ op \in {"submit", "dispute"} => chain[id].worker = "freelancer"

\* Only approve_and_release leaves a completion record.
Execute(op, id) ==
    LET now == StatusAfter[op]
    IN  chain' = [chain EXCEPT ![id] =
                    [status |-> now, past |-> @.past \cup {now},
                     completion |-> @.completion \/ op = "release",
                     worker |-> @.worker]]

\* assign_freelancer
Assign(id) ==
    /\ chain[id].status \in {"created", "funded"}
    /\ chain[id].worker = "nobody"
    /\ chain' = [chain EXCEPT ![id].worker = "freelancer"]

TakeIn(op, id) ==
    \/ op \in Creations /\ Allocate(id, op)
    \/ op \in Calls /\ IsAccepted(op, id) /\ Execute(op, id)
    \/ op = "assign" /\ Assign(id)

\* The call is confirmed and the tab turns to the bookkeeping.
Confirm(t) ==
    /\ tab[t].step = "sending"
    /\ \E id \in EscrowIds :
         /\ tab[t].op \in Creations \/ id = tab[t].id
         /\ TakeIn(tab[t].op, id)
         /\ Start(t, tab[t].op, "recording", id)
    /\ UNCHANGED <<late, convexVars>>

\* The wallet declines, or the call fails before it is submitted, and the
\* action ends; but a funding that the contract refuses is followed by a
\* sync, because the copy is out of date then.
Refuse(t) ==
    /\ tab[t].step = "sending"
    /\ \/ Stop(t)
       \/ /\ tab[t].op = "fund" /\ ~IsAccepted("fund", tab[t].id)
          /\ Start(t, "sync", "reading", tab[t].id)
    /\ UNCHANGED <<chainVars, convexVars>>

\* The tab stops waiting with the outcome unknown (the history row stays
\* "pending"), or its page is closed, with the transaction on its way.
LoseTrack(t) ==
    /\ tab[t].step = "sending"
    /\ Cardinality(late) < MaxLate
    /\ late' = late \cup {[op |-> tab[t].op, id |-> tab[t].id]}
    /\ Stop(t)
    /\ UNCHANGED <<chain, convexVars>>

\* ... and the ledger takes it in all the same, or it expires.
ConfirmLate(tx) ==
    /\ \E id \in EscrowIds :
         (tx.op \in Creations \/ id = tx.id) /\ TakeIn(tx.op, id)
    /\ late' = late \ {tx}
    /\ UNCHANGED <<convexVars, tab>>

Expire(tx) ==
    /\ late' = late \ {tx}
    /\ UNCHANGED <<chain, convexVars, tab>>

-----------------------------------------------------------------------------
(* Bookkeeping: the mutations that record a confirmed call.                 *)

\* A mutant: nothing is asked of the job.
CreationAllowedAnyway(id) == rows[id] = "none"

\* assertEscrowCreationAllowed: the escrow has no row and neither has the job.
CreationAllowed(id) == rows[id] = "none" /\ RowIds = {}

\* isLegacyAgreementExempt
IsExempt ==
    \/ HasProof
    \/ job \in {"submitted", "revision_submitted", "completed", "cancelled",
               "disputed"}

\* lockAcceptedAgreementForJob
LockAccepted ==
    agreement' = IF agreement = "accepted" THEN "locked" ELSE agreement

\* createEscrowRecord of an escrow for the selected freelancer
RecordCreation(t) ==
    LET id == tab[t].id
    IN  /\ tab[t].op = "create" /\ tab[t].step = "recording"
        /\ IF CreationAllowed(id) /\ freelancer.job
             THEN /\ rows' = [rows EXCEPT ![id] = "created"]
                  /\ freelancer' = [freelancer EXCEPT !.row = "named"]
             ELSE UNCHANGED <<rows, freelancer>>
        /\ Stop(t)
        /\ UNCHANGED <<chainVars, job, work, agreement, dispute, reputation>>

\* ... and of a posted one, which names nobody but whose job may have selected
\* a freelancer in the meantime.
RecordPosting(t) ==
    LET id == tab[t].id
    IN  /\ tab[t].op = "post" /\ tab[t].step = "recording"
        /\ IF /\ CreationAllowed(id)
              /\ freelancer.job => agreement # "pending" \/ IsExempt
             THEN /\ rows' = [rows EXCEPT ![id] = "funded"]
                  /\ job' = "funded"
                  /\ LockAccepted
             ELSE UNCHANGED <<rows, job, agreement>>
        /\ Stop(t)
        /\ UNCHANGED <<chainVars, workVars, dispute, reputation>>

\* assignFreelancerToEscrow: whatever the escrow has come to, it and the job
\* get the freelancer, and the job is "selected" unless the row says "funded".
RecordAssignment(t) ==
    LET id == tab[t].id
    IN  /\ tab[t].op = "assign" /\ tab[t].step = "recording"
        /\ IF freelancer.row = "none"
             THEN /\ freelancer' = [job |-> TRUE, row |-> "assigned"]
                  /\ job' = IF rows[id] = "funded" THEN "funded" ELSE "selected"
             ELSE UNCHANGED <<freelancer, job>>
        /\ Stop(t)
        /\ UNCHANGED <<chainVars, rows, work, agreement, dispute, reputation>>

Blocked(op, id) ==
    \/ op = "fund" /\ agreement = "pending" /\ ~IsExempt
    \/ op = "release" /\ IsActiveDispute(id)

Patch(id, status) ==
    /\ rows' = [rows EXCEPT ![id] = status]
    /\ job' = JobStatusFromEscrowStatus(status)

\* updateEscrowStatus: the status is written whatever it was, and funding
\* locks the agreement.  An error ends the action; after a release the review
\* is recorded next.
RecordStatus(t) ==
    LET op == tab[t].op
        id == tab[t].id
    IN  /\ \/ op \in {"fund", "submit", "release"} /\ tab[t].step = "recording"
           \/ op = "dispute" /\ tab[t].step = "updating"
        /\ IF Blocked(op, id) THEN UNCHANGED <<rows, job>>
                              ELSE Patch(id, StatusAfter[op])
        /\ IF op = "fund" THEN LockAccepted ELSE UNCHANGED agreement
        /\ IF op = "release" /\ ~Blocked(op, id)
             THEN Start(t, op, "reviewing", id) ELSE Stop(t)
        /\ UNCHANGED <<chainVars, workVars, dispute, reputation>>

\* markDisputeOnChainSucceeded, before updateEscrowStatus: refused once the
\* dispute is closed, and that ends the action.
RecordMark(t) ==
    LET id == tab[t].id
    IN  /\ tab[t].op = "dispute" /\ tab[t].step = "recording"
        /\ IF IsActiveDispute(id) THEN Start(t, "dispute", "updating", id)
                                  ELSE Stop(t)
        /\ UNCHANGED <<chainVars, convexVars>>

\* markCancelOnChainSucceeded: the dispute is not looked at again.
RecordCancellation(t) ==
    /\ tab[t].op = "cancel" /\ tab[t].step = "recording"
    /\ Patch(tab[t].id, "cancelled")
    /\ Stop(t)
    /\ UNCHANGED <<chainVars, workVars, agreement, dispute, reputation>>

\* createReputationRecord
RecordReview(t) ==
    LET id == tab[t].id
    IN  /\ tab[t].op = "release" /\ tab[t].step = "reviewing"
        /\ reputation' =
             IF rows[id] = "released" /\ reputation[id] = 0
               THEN [reputation EXCEPT ![id] = 1] ELSE reputation
        /\ Stop(t)
        /\ UNCHANGED <<chainVars, rows, job, workVars, agreement, dispute>>

\* recordDisputeResolutionSucceeded
RecordSettlement(t) ==
    LET op == tab[t].op
        id == tab[t].id
    IN  /\ op \in {"pay_out", "refund"} /\ tab[t].step = "recording"
        /\ IF IsActiveDispute(id) /\ rows[id] = "disputed"
             THEN /\ Patch(id, StatusAfter[op])
                  /\ dispute' = [dispute EXCEPT ![id] = "closed"]
             ELSE UNCHANGED <<rows, job, dispute>>
        /\ Stop(t)
        /\ UNCHANGED <<chainVars, workVars, agreement, reputation>>

\* The page is closed with the call confirmed and not yet recorded.
Close(t) ==
    /\ tab[t].step \in {"recording", "updating", "reviewing"}
    /\ Stop(t)
    /\ UNCHANGED <<chainVars, convexVars>>

-----------------------------------------------------------------------------
(* Synchronisation.                                                         *)

PressSync(t, op, id) ==
    /\ tab[t] = Idle
    /\ rows[id] # "none"
    /\ Start(t, op, "reading", id)
    /\ UNCHANGED <<chainVars, convexVars>>

Read(t, op, value) ==
    /\ tab[t].op = op /\ tab[t].step = "reading"
    /\ tab' = [tab EXCEPT ![t] = [op |-> op, step |-> "applying",
                                  id |-> tab[t].id, read |-> value]]
    /\ UNCHANGED <<chainVars, convexVars>>

\* syncEscrowStatus reads the ledger in an action and applies what it read in
\* a mutation; a failed read ends the sync.
ReadStatus(t) == Read(t, "sync", chain[tab[t].id].status)

FailRead(t) ==
    /\ tab[t].step = "reading"
    /\ Stop(t)
    /\ UNCHANGED <<chainVars, convexVars>>

\* A mutant: cancellation ranks with funding.
RankOfEarlyCancellation(status) ==
    CASE status = "created"   -> 0
      [] status = "funded"    -> 1
      [] status = "submitted" -> 2
      [] status = "released"  -> 3
      [] status = "cancelled" -> 1
      [] OTHER                -> 99

StatusRank(status) ==
    CASE status = "created"   -> 0
      [] status = "funded"    -> 1
      [] status = "submitted" -> 2
      [] status = "released"  -> 3
      [] OTHER                -> 99

TerminalStatus == {"released", "cancelled", "disputed"}

\* A mutant: the ranks alone decide.
IsHigherStatus(current, incoming) ==
    StatusRank(incoming) > StatusRank(current)

IsSafeStatusUpdate(current, incoming) ==
    /\ current \notin TerminalStatus
    /\ StatusRank(incoming) > StatusRank(current)

\* A mutant: the job keeps its status.
ApplyStatusToEscrow(t) ==
    LET id == tab[t].id
    IN  /\ tab[t].op = "sync" /\ tab[t].step = "applying"
        /\ rows' = IF IsSafeStatusUpdate(rows[id], tab[t].read)
                     THEN [rows EXCEPT ![id] = tab[t].read] ELSE rows
        /\ Stop(t)
        /\ UNCHANGED <<chainVars, job, workVars, agreement, dispute, reputation>>

\* applyEscrowStatusSync
ApplyStatus(t) ==
    LET id == tab[t].id
    IN  /\ tab[t].op = "sync" /\ tab[t].step = "applying"
        /\ IF IsSafeStatusUpdate(rows[id], tab[t].read)
             THEN Patch(id, tab[t].read) ELSE UNCHANGED <<rows, job>>
        /\ Stop(t)
        /\ UNCHANGED <<chainVars, workVars, agreement, dispute, reputation>>

\* syncReputationRecord: without a completion on the ledger it ends here.
ReadCompletion(t) ==
    /\ Read(t, "sync_reputation", None)
    /\ chain[tab[t].id].completion

\* A mutant: a record that is there already is not looked for.
ApplyCompletionAgain(t) ==
    LET id == tab[t].id
    IN  /\ tab[t].op = "sync_reputation" /\ tab[t].step = "applying"
        /\ reputation' =
             IF rows[id] = "released" /\ reputation[id] < 2
               THEN [reputation EXCEPT ![id] = @ + 1] ELSE reputation
        /\ Stop(t)
        /\ UNCHANGED <<chainVars, rows, job, workVars, agreement, dispute>>

\* createReputationRecordFromSync
ApplyCompletion(t) ==
    LET id == tab[t].id
    IN  /\ tab[t].op = "sync_reputation" /\ tab[t].step = "applying"
        /\ reputation' =
             IF rows[id] = "released" /\ reputation[id] = 0
               THEN [reputation EXCEPT ![id] = 1] ELSE reputation
        /\ Stop(t)
        /\ UNCHANGED <<chainVars, rows, job, workVars, agreement, dispute>>

-----------------------------------------------------------------------------
(* The rest of the platform, as far as these handlers look at it.           *)

\* selectFreelancer
SelectFreelancer ==
    /\ job = "open" /\ job' = "selected"
    /\ freelancer' = [freelancer EXCEPT !.job = TRUE]
    /\ UNCHANGED <<chainVars, rows, work, agreement, dispute, reputation, tab>>

\* abandonRejectedAgreement, once the freelancer has declined the terms.
AbandonAgreement ==
    /\ agreement = "pending"
    /\ job = "selected" /\ job' = "open"
    /\ freelancer' = [freelancer EXCEPT !.job = FALSE]
    /\ UNCHANGED <<chainVars, rows, work, agreement, dispute, reputation, tab>>

\* acceptWorkAgreement by the freelancer, lockWorkAgreement by the client.
AdvanceAgreement ==
    /\ \/ agreement = "pending" /\ freelancer.job /\ agreement' = "accepted"
       \/ agreement = "accepted" /\ agreement' = "locked"
    /\ UNCHANGED <<chainVars, rows, job, workVars, dispute, reputation, tab>>

\* createSubmissionDraft
Draft ==
    /\ work = "none" /\ freelancer.row # "none"
    /\ agreement = "locked" \/ IsExempt
    /\ \E id \in RowIds : rows[id] = "funded" /\ ~IsActiveDispute(id)
    /\ work' = "draft"
    /\ UNCHANGED <<chainVars, rows, job, freelancer, agreement, dispute,
                   reputation, tab>>

\* What the handlers of a revision or of a preview ask of the job.
WorkGoesOn ==
    /\ job \notin {"completed", "cancelled", "disputed"}
    /\ \A id \in RowIds :
         rows[id] \notin TerminalStatus /\ ~IsActiveDispute(id)

SetWork(from, to) ==
    /\ work \in from /\ work' = to
    /\ UNCHANGED <<chainVars, rows, freelancer, agreement, dispute,
                   reputation, tab>>

\* submitWorkProofMetadata: with previews, which the job's revision policy
\* decides, the job is "submitted", whatever it and its escrow were.
HandIn ==
    \/ SetWork({"draft", "in_review", "returned"}, "in_review")
       /\ job' = "submitted"
    \/ SetWork({"draft"}, "ready") /\ UNCHANGED job
    \/ \E status \in {"sent_back", "ready", "in_revision"} :
         SetWork({status}, status) /\ job' \in {job, "submitted"}

\* requestRevision
RequestRevision ==
    /\ WorkGoesOn
    /\ \/ SetWork({"in_review"}, "sent_back")
       \/ SetWork({"ready"}, "in_revision")
    /\ job' = "revision_requested"

\* A preview that was sent back stays so; another may be in review by now.
LeaveRevision ==
    \/ \E status \in {"in_review", "returned"} : SetWork({"sent_back"}, status)
    \/ SetWork({"in_revision"}, "ready")

\* markRevisionSubmitted, or submitWorkProofMetadata of the revised proof,
\* which goes on to write the job once more.
SubmitRevision ==
    /\ WorkGoesOn
    /\ \/ LeaveRevision /\ job' = "revision_submitted"
       \/ SetWork({"sent_back"}, "in_review") /\ job' = "submitted"
       \/ SetWork({"in_revision"}, "ready") /\ job' = "submitted"

\* acceptPreviewSubmission
AcceptPreview ==
    /\ WorkGoesOn
    /\ SetWork({"in_review", "ready"}, "ready")
    /\ job' = "submitted"

\* cancelRevisionRequest, markRevisionAccepted
EndRevision == LeaveRevision /\ UNCHANGED job

\* isWorkStarted
IsWorkStarted ==
    \/ job \in {"funded", "submitted", "revision_requested",
               "revision_submitted"}
    \/ \E id \in RowIds : rows[id] \in {"funded", "submitted"}

\* createCancellationRequest when there is nothing to cancel on the ledger:
\* patchWorkCancelledWithoutEscrow closes the job at once.
CancelOffLedger ==
    /\ job # "completed" /\ work \in {"none", "draft", "returned"}
    /\ \A id \in RowIds : rows[id] \in {"submitted", "disputed"}
                           /\ ~IsActiveDispute(id)
    /\ \/ RowIds = {} \/ ~IsWorkStarted
       \/ freelancer.row = "none"
    /\ job' = "cancelled"
    /\ UNCHANGED <<chainVars, rows, workVars, agreement, dispute, reputation,
                   tab>>

\* createDispute, by either party: a second active one is refused.
OpenDispute(id) ==
    /\ rows[id] \in {"funded", "submitted"}
    /\ freelancer.job /\ freelancer.row # "none"
    /\ ~IsActiveDispute(id)
    /\ dispute' = [dispute EXCEPT ![id] = "active"]
    /\ UNCHANGED <<chainVars, rows, job, workVars, agreement, reputation, tab>>

\* changeDisputeStatus, by either party: to "cancelled" or to an active
\* status, from any.
ChangeDisputeStatus(id, status) ==
    /\ dispute[id] \notin {"none", status}
    /\ dispute' = [dispute EXCEPT ![id] = status]
    /\ UNCHANGED <<chainVars, rows, job, workVars, agreement, reputation, tab>>

-----------------------------------------------------------------------------
TabStep(t) ==
    \/ PressCreate(t)
    \/ \E id \in EscrowIds : PressAssign(t, id)
    \/ \E op \in Calls, id \in EscrowIds : Press(t, op, id)
    \/ Confirm(t) \/ Refuse(t) \/ LoseTrack(t)
    \/ RecordCreation(t) \/ RecordPosting(t) \/ RecordAssignment(t)
    \/ RecordStatus(t) \/ RecordReview(t)
    \/ RecordMark(t) \/ RecordCancellation(t) \/ RecordSettlement(t)
    \/ Close(t)

SyncStep(t) ==
    \/ \E op \in {"sync", "sync_reputation"}, id \in EscrowIds :
         PressSync(t, op, id)
    \/ ReadStatus(t) \/ ReadCompletion(t) \/ FailRead(t)
    \/ ApplyStatus(t) \/ ApplyCompletion(t)

DisputeStep(id) ==
    \/ OpenDispute(id)
    \/ \E status \in {"active", "closed"} : ChangeDisputeStatus(id, status)

HiringStep == SelectFreelancer \/ AbandonAgreement \/ AdvanceAgreement

WorkStep ==
    \/ Draft \/ HandIn \/ RequestRevision \/ SubmitRevision
    \/ AcceptPreview \/ EndRevision \/ CancelOffLedger

Next ==
    \/ \E t \in Tabs : TabStep(t) \/ SyncStep(t)
    \/ \E tx \in late : ConfirmLate(tx) \/ Expire(tx)
    \/ \E id \in EscrowIds : DisputeStep(id)
    \/ HiringStep \/ WorkStep

Spec == Init /\ [][Next]_vars

-----------------------------------------------------------------------------
(* Properties.                                                              *)

\* Type invariant: the job's status is one the jobs table allows whatever
\* status of an escrow it is derived from (getJobStatusFromEscrowStatus).
TypeOK ==
    /\ chain \in [EscrowIds -> [status : EscrowStatus \cup {"none"},
                                past : SUBSET EscrowStatus,
                                completion : BOOLEAN,
                                worker : {"nobody", "freelancer"}]]
    /\ late \subseteq [op : Calls \cup Creations \cup {"assign"},
                        id : EscrowIds \cup {None}]
    /\ rows \in [EscrowIds -> EscrowStatus \cup {"none"}]
    /\ job \in JobStatus
    /\ freelancer \in [job : BOOLEAN, row : {"none", "named", "assigned"}]
    /\ work \in WorkStatus
    /\ agreement \in {"pending", "accepted", "locked"}
    /\ dispute \in [EscrowIds -> {"none", "active", "closed"}]
    /\ reputation \in [EscrowIds -> 0..2]
    /\ tab \in [Tabs ->
         [op : Calls \cup Creations
                 \cup {"none", "assign", "sync", "sync_reputation"},
          step : {"idle", "sending", "recording", "updating", "reviewing",
                  "reading", "applying"},
          id : EscrowIds \cup {None}, read : EscrowStatus \cup {None}]]

\* The copy may lag behind the ledger or be set back to an earlier status, but
\* it never shows a status that the escrow has not had: nobody starts work, or
\* sees a job as paid, on the strength of a call that was not confirmed.
MirrorNeverAhead ==
    \A id \in RowIds : rows[id] \in chain[id].past

\* Where a job may show another status than its escrow's: before the escrow
\* is funded; once proof is handed in, which alone makes it "submitted";
\* during a revision, of an escrow that is not settled or disputed; after an
\* assignment recorded when the row was "funded" no longer; and cancelled
\* without the ledger, over a row whose dispute was withdrawn.
JobStandsApart(id) ==
    \/ rows[id] = "created" /\ job \in {"open", "selected", "cancelled"}
    \/ HasProof /\ job = "submitted"
    \/ /\ HasProof /\ job \in {"revision_requested", "revision_submitted"}
       /\ rows[id] \notin TerminalStatus
    \/ /\ freelancer.row = "assigned" /\ job \in {"open", "selected"}
       /\ rows[id] # "funded"
    \/ job = "cancelled" /\ rows[id] = "disputed"

\* Otherwise the job shows the status of its escrow, through every order of
\* recordings, syncs, settlements and of the handlers that write the job
\* alone.  So nobody sees a job as paid, completed or disputed whose escrow's
\* row is not, and an escrow that is settled or disputed is never hidden
\* behind a revision in progress.
JobFollowsEscrow ==
    \A id \in RowIds :
        job = JobStatusFromEscrowStatus(rows[id]) \/ JobStandsApart(id)

\* Two tabs that create an escrow at once, or a retry of a creation whose
\* outcome was lost, leave two escrows on the ledger but one row for the job.
OneEscrowPerJob == Cardinality(RowIds) <= 1

\* A review is recorded once, whether the tab that released the payment, its
\* sync, or both get to it, and only for an escrow that the client approved:
\* never for one an admin settled, although its row says "released" as well.
ReviewedOnceAndEarned ==
    \A id \in EscrowIds :
        /\ reputation[id] <= 1
        /\ reputation[id] > 0 => chain[id].completion

\* The order in which the contract passes through the statuses.
Progress(status) ==
    CASE status = "created"   -> 0
      [] status = "funded"    -> 1
      [] status = "submitted" -> 2
      [] status = "disputed"  -> 3
      [] OTHER                -> 4

\* A sync never sets the copy back, however old its reading is and whatever
\* was recorded since.
SyncNeverSetsBack ==
    [][\A t \in Tabs : tab[t].step = "applying" /\ tab'[t] # tab[t] =>
         \A id \in RowIds : rows'[id] # rows[id] =>
            Progress(rows'[id]) > Progress(rows[id])]_vars

\* One sync whose reading is still good when it is applied repairs the copy
\* after any number of lost or refused recordings, unless the copy already
\* shows a dispute, which only a settlement may end.
SyncRepairs ==
    [][\A t \in Tabs :
         LET id == tab[t].id
         IN  /\ tab[t].op = "sync" /\ tab[t].step = "applying"
             /\ tab'[t] # tab[t]
             /\ tab[t].read = chain[id].status
             /\ rows[id] # "disputed"
             => rows'[id] = chain[id].status]_vars

\* The view of the ledger in this module, with one freelancer.
Keeping == INSTANCE Custody WITH
    Escrows <- EscrowIds, Workers <- {"freelancer"}, Nobody <- "nobody",
    stage  <- [id \in EscrowIds |->
                 CASE chain[id].status = "none"      -> "none"
                   [] chain[id].status = "created"   -> "open"
                   [] chain[id].status = "disputed"  -> "disputed"
                   [] chain[id].status \in {"funded", "submitted"} -> "held"
                   [] OTHER -> "closed"],
    worker <- [id \in EscrowIds |-> chain[id].worker]

\* Whatever tabs and late calls do, the ledger of this module moves as the
\* contract promises: no call is taken in twice or out of turn.
KeepsCustody == Keeping!Spec

=============================================================================
