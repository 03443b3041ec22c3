------------------------------ MODULE Delivery ------------------------------
(***************************************************************************)
(* Work is delivered as submissions.  The freelancer's page creates a      *)
(* draft, submits its text and hash, and finally anchors the hash: the     *)
(* contract takes one proof per escrow.  Under a policy with revisions a   *)
(* submission is a preview first, which the client accepts or asks to      *)
(* revise, and only an accepted preview is anchored; without revisions it  *)
(* is anchored at once.                                                    *)
(*                                                                         *)
(* The page makes these calls one after the other: it can be closed        *)
(* between any two, others act meanwhile, and the transaction lands or     *)
(* expires whether or not a page waits for it.  The freelancer may have    *)
(* several pages.  The ledger, the escrows row and the job are reduced to  *)
(* what delivery looks at: "closed" is released, cancelled or completed,   *)
(* and the agreement is taken as locked (WorkAgreements).                  *)
(***************************************************************************)
EXTENDS Integers, FiniteSets

CONSTANTS
    Pages,            \* open pages of the freelancer
    MaxSubmissions,   \* bound: how many submissions are drafted
    MaxRequests,      \* bound: how many revisions are requested
    Limits,           \* the revision limits a client may set
    None

ASSUME DeliveryConstants ==
    /\ MaxSubmissions \in Nat /\ MaxRequests \in Nat
    /\ Limits \subseteq Nat \ {0}
    /\ None \notin Nat

Submissions == 1 .. MaxSubmissions
Requests == 1 .. MaxRequests

VARIABLES
    ledger,        \* the escrow: its status and the proof it was given
    tx,            \* the fate of the last transaction sent for a submission
    row,           \* the status of the escrows row
    job,           \* status, revision policy, count and active revision
    dispute,       \* whether a dispute of the escrow is open
    submissions,   \* the workSubmissions rows
    requests,      \* the status of each revisionRequests row
    page           \* what each page runs

ledgerVars == <<ledger, tx>>
workVars == <<row, dispute>>
vars == <<ledgerVars, workVars, job, submissions, requests, page>>

-----------------------------------------------------------------------------
Blank == [status |-> "none", onChain |-> "not_submitted", revision |-> None,
          accepted |-> "no"]
Idle == [step |-> "idle", submission |-> None]

Init ==
    /\ ledger = [status |-> "funded", proof |-> None]
    /\ tx = [s \in Submissions |-> "none"]
    /\ row = "created"
    /\ job \in [status : {"selected"}, policy : {"none", "fixed", "unlimited"},
                limit : Limits, count : {0}, active : {None}]
    /\ dispute = "none"
    /\ submissions = [s \in Submissions |-> Blank]
    /\ requests = [r \in Requests |-> "none"]
    /\ page = [p \in Pages |-> Idle]

Free == {s \in Submissions : submissions[s].status = "none"}
IsNew(s) == s \in Free /\ \A other \in Free : s <= other
FreeRequests == {r \in Requests : requests[r] = "none"}
IsNewRequest(r) == r \in FreeRequests /\ \A other \in FreeRequests : r <= other

Goto(p, step) == page' = [page EXCEPT ![p].step = step]
Stop(p) == page' = [page EXCEPT ![p] = Idle]
SetStatus(s, status) ==
    submissions' = [submissions EXCEPT ![s].status = status]

-----------------------------------------------------------------------------
(* Guards.                                                                  *)

\* TERMINAL_WORK_STATUSES, of the job or of the escrows row
IsOver == job.status \in {"closed", "disputed"} \/ row \in {"closed", "disputed"}

\* What every step of a revision asks: the work goes on, no dispute is open.
WorkGoesOn == ~IsOver /\ dispute = "none"

\* A mutant: unlimited revisions need no preview.
PreviewIfLimited == job.policy = "fixed"

\* isRevisionEnabledPolicy
PreviewEnabled == job.policy \in {"fixed", "unlimited"}

\* ACTIVE_REVISION_STATUSES
IsActive(r) == r # None /\ requests[r] = "requested"

\* assertCanCreateSubmission
MayDraft(revision) ==
    /\ dispute = "none"
    /\ IF revision = None
         THEN row = "funded"
         ELSE /\ IsActive(revision) /\ WorkGoesOn
              /\ row \in {"funded", "submitted"}

\* assertSubmissionIsMutable
IsMutable(s) ==
    /\ submissions[s].status \in {"draft", "cancelled", "anchor_failed"}
    /\ submissions[s].onChain # "confirmed"

\* A mutant: a submission that is being anchored may be started again.
MayAnchorAgain(s) ==
    /\ submissions[s].status \in
         {IF PreviewEnabled THEN "accepted_for_final" ELSE "submitted",
          "anchoring", "anchor_failed"}
    /\ submissions[s].onChain # "confirmed"

\* assertCanAnchorSubmission
MayAnchor(s) ==
    /\ submissions[s].status \in
         {IF PreviewEnabled THEN "accepted_for_final" ELSE "submitted",
          "anchor_failed"}
    /\ submissions[s].onChain # "confirmed"

\* A mutant: one revision too many.
QuotaLeftOrReached == job.policy = "unlimited" \/ job.count <= job.limit

\* computeRemainingRevisions
QuotaLeft == job.policy = "unlimited" \/ job.count < job.limit

\* assertCanRequestRevision
MayRequest(s) ==
    /\ submissions[s].status \in
         {"submitted_for_review", "submitted", "anchoring", "anchored",
          "anchor_failed"}
    /\ WorkGoesOn /\ PreviewEnabled /\ QuotaLeft
    /\ IF job.active # None THEN ~IsActive(job.active)
                            ELSE \A r \in Requests : ~IsActive(r)

\* assertCanAcceptPreviewSubmission, and the check for another accepted one
MayAccept(s) ==
    /\ submissions[s].status = "submitted_for_review"
    /\ ~IsActive(job.active) /\ WorkGoesOn /\ PreviewEnabled
    /\ \A other \in Submissions \ {s} :
         submissions[other].status \notin
           {"accepted_for_final", "anchoring", "anchored"}

-----------------------------------------------------------------------------
(* The freelancer's page: handing in.                                       *)

\* createWorkSubmissionDraft by handleSubmit
Draft(p, s, revision) ==
    /\ page[p] = Idle /\ IsNew(s) /\ MayDraft(revision)
    /\ submissions' = [submissions EXCEPT ![s].status = "draft",
                                          ![s].revision = revision]
    /\ page' = [page EXCEPT ![p] = [step |-> "drafted", submission |-> s]]
    /\ UNCHANGED <<ledgerVars, workVars, job, requests>>

MaySubmit(s) ==
    LET revision == submissions[s].revision
    IN  IsMutable(s)
        /\ (revision # None => IsActive(revision) /\ WorkGoesOn)

\* The revision's answer, in submitWorkProofMetadata and markRevisionSubmitted
Answer(r) == requests' = [requests EXCEPT ![r] = "revision_submitted"]

\* submitWorkProofMetadata: the job follows a preview, whatever it has come
\* to since the draft.
SubmitMetadata(p) ==
    LET s == page[p].submission
        revision == submissions[s].revision
    IN  /\ page[p].step = "drafted" /\ MaySubmit(s)
        /\ submissions' =
             [submissions EXCEPT
                ![s].status = IF PreviewEnabled THEN "submitted_for_review"
                                                ELSE "submitted",
                ![s].onChain = "not_submitted"]
        /\ IF revision = None THEN UNCHANGED requests ELSE Answer(revision)
        /\ job' = [job EXCEPT
                     !.status = IF PreviewEnabled THEN "submitted"
                                ELSE IF revision # None
                                       THEN "revision_submitted" ELSE @,
                     !.active = IF revision = None THEN @ ELSE None]
        /\ IF PreviewEnabled THEN Stop(p) ELSE Goto(p, "anchor")
        /\ UNCHANGED <<ledgerVars, workVars>>

-----------------------------------------------------------------------------
(* The freelancer's page: anchoring, anchorSubmission.                      *)

\* handleRetry of an accepted preview or a failed anchoring
PressAnchor(p, s) ==
    /\ page[p] = Idle /\ row = "funded"
    /\ submissions[s].status \in {"accepted_for_final", "anchor_failed"}
    /\ page' = [page EXCEPT ![p] = [step |-> "anchor", submission |-> s]]
    /\ UNCHANGED <<ledgerVars, workVars, job, submissions, requests>>

\* retrySubmissionAnchor
RetryAnchor(p) ==
    LET s == page[p].submission
    IN  /\ page[p].step = "anchor" /\ MayAnchor(s)
        /\ submissions' =
             [submissions EXCEPT
                ![s].status = IF PreviewEnabled THEN "accepted_for_final"
                                                ELSE "submitted",
                ![s].onChain = "not_submitted"]
        /\ Goto(p, "mark")
        /\ UNCHANGED <<ledgerVars, workVars, job, requests>>

\* markSubmissionAnchoring
MarkAnchoring(p) ==
    LET s == page[p].submission
    IN  /\ page[p].step = "mark" /\ MayAnchor(s)
        /\ submissions' = [submissions EXCEPT ![s].status = "anchoring",
                                              ![s].onChain = "pending"]
        /\ Goto(p, "signing")
        /\ UNCHANGED <<ledgerVars, workVars, job, requests>>

\* The wallet signs and the transaction is submitted.
Submit(p) ==
    /\ page[p].step = "signing"
    /\ tx' = [tx EXCEPT ![page[p].submission] = "pending"]
    /\ Goto(p, "waiting")
    /\ UNCHANGED <<ledger, workVars, job, submissions, requests>>

\* The simulation fails or the wallet declines.
Decline(p) ==
    /\ page[p].step = "signing"
    /\ Goto(p, "failing")
    /\ UNCHANGED <<ledgerVars, workVars, job, submissions, requests>>

\* submit_work takes the proof of a funded escrow.
Land(s) ==
    /\ tx[s] = "pending" /\ ledger.status = "funded"
    /\ ledger' = [status |-> "submitted", proof |-> s]
    /\ tx' = [tx EXCEPT ![s] = "landed"]
    /\ UNCHANGED <<workVars, job, submissions, requests, page>>

\* The contract refuses the transaction, or it expires.
Drop(s) ==
    /\ tx[s] = "pending" /\ tx' = [tx EXCEPT ![s] = "failed"]
    /\ UNCHANGED <<ledger, workVars, job, submissions, requests, page>>

\* A mutant: the escrow's status is looked at and not the transaction.
ConfirmedByStatus(s) == ledger.status = "submitted"

Confirmed(s) == tx[s] = "landed"

Confirm(p) ==
    /\ page[p].step = "waiting" /\ Confirmed(page[p].submission)
    /\ Goto(p, "updating")
    /\ UNCHANGED <<ledgerVars, workVars, job, submissions, requests>>

\* pollTransaction finds the transaction failed.
SeeFailure(p) ==
    /\ page[p].step = "waiting" /\ tx[page[p].submission] = "failed"
    /\ Goto(p, "failing")
    /\ UNCHANGED <<ledgerVars, workVars, job, submissions, requests>>

\* updateEscrowStatus, whatever the row was
UpdateRow(p) ==
    /\ page[p].step = "updating"
    /\ row' = "submitted" /\ job' = [job EXCEPT !.status = "submitted"]
    /\ Goto(p, "recording")
    /\ UNCHANGED <<ledgerVars, dispute, submissions, requests>>

\* markSubmissionAnchored
RecordAnchor(p) ==
    /\ page[p].step = "recording"
    /\ submissions' =
         [submissions EXCEPT ![page[p].submission].status = "anchored",
                             ![page[p].submission].onChain = "confirmed"]
    /\ Stop(p)
    /\ UNCHANGED <<ledgerVars, workVars, job, requests>>

\* A recording fails: the catch block knows no difference.
FailRecording(p) ==
    /\ page[p].step \in {"updating", "recording"}
    /\ Goto(p, "failing")
    /\ UNCHANGED <<ledgerVars, workVars, job, submissions, requests>>

\* markSubmissionAnchorFailed
ReportFailure(p) ==
    /\ page[p].step = "failing"
    /\ submissions' =
         [submissions EXCEPT ![page[p].submission].status = "anchor_failed",
                             ![page[p].submission].onChain = "failed"]
    /\ Stop(p)
    /\ UNCHANGED <<ledgerVars, workVars, job, requests>>

\* The page is closed, a call is refused, or the outcome stays unknown.
Close(p) ==
    /\ page[p] # Idle
    /\ Stop(p)
    /\ UNCHANGED <<ledgerVars, workVars, job, submissions, requests>>

-----------------------------------------------------------------------------
(* The mutations of the client, and those no page calls yet.                *)

\* requestRevision
RequestRevision(s, r) ==
    /\ IsNewRequest(r) /\ MayRequest(s)
    /\ requests' = [requests EXCEPT ![r] = "requested"]
    /\ IF submissions[s].status = "submitted_for_review"
         THEN SetStatus(s, "revision_requested") ELSE UNCHANGED submissions
    /\ job' = [job EXCEPT !.status = "revision_requested", !.active = r,
                          !.count = @ + 1]
    /\ UNCHANGED <<ledgerVars, workVars, page>>

\* acceptPreviewSubmission
AcceptPreview(s) ==
    /\ MayAccept(s)
    /\ submissions' = [submissions EXCEPT ![s].status = "accepted_for_final",
                                          ![s].accepted = "yes"]
    /\ job' = [job EXCEPT !.status = "submitted", !.active = None]
    /\ UNCHANGED <<ledgerVars, workVars, requests, page>>

\* setRevisionPolicy, which the status of the job ends when work starts
SetRevisionPolicy(policy, limit) ==
    /\ job.status = "selected"
    /\ job' = [job EXCEPT !.policy = policy, !.limit = limit]
    /\ UNCHANGED <<ledgerVars, workVars, submissions, requests, page>>

\* markRevisionSubmitted
MarkRevisionSubmitted(r, s) ==
    /\ IsActive(r) /\ WorkGoesOn
    /\ submissions[s].status \notin {"none", "cancelled"}
    /\ submissions[s].revision = r
    /\ Answer(r)
    /\ job' = [job EXCEPT !.status = "revision_submitted", !.active = None]
    /\ UNCHANGED <<ledgerVars, workVars, submissions, page>>

\* markRevisionAccepted, from any status
AcceptRevision(r) ==
    /\ requests[r] \notin {"none", "accepted"}
    /\ requests' = [requests EXCEPT ![r] = "accepted"]
    /\ UNCHANGED <<ledgerVars, workVars, job, submissions, page>>

\* cancelRevisionRequest, which gives nothing back of the quota
CancelRevision(r) ==
    /\ IsActive(r)
    /\ requests' = [requests EXCEPT ![r] = "cancelled"]
    /\ job' = [job EXCEPT !.active = None]
    /\ UNCHANGED <<ledgerVars, workVars, submissions, page>>

\* cancelSubmissionDraft
CancelDraft(s) ==
    /\ IsMutable(s) /\ submissions[s].status # "cancelled"
    /\ SetStatus(s, "cancelled")
    /\ UNCHANGED <<ledgerVars, workVars, job, requests, page>>

-----------------------------------------------------------------------------
(* The escrow and its dispute, in short.                                    *)

\* The dispute dialog, and a party's withdrawal
Dispute ==
    /\ dispute' = IF dispute = "none" THEN "open" ELSE "none"
    /\ dispute = "none" => row \in {"funded", "submitted"}
    /\ UNCHANGED <<ledgerVars, row, job, submissions, requests, page>>

\* mark_disputed, and cancel_escrow, approve_and_release or resolve_dispute
MoveLedger ==
    /\ \/ /\ dispute = "open" /\ ledger.status \in {"funded", "submitted"}
          /\ ledger' = [ledger EXCEPT !.status = "disputed"]
       \/ /\ ledger.status # "closed"
          /\ ledger' = [ledger EXCEPT !.status = "closed"]
    /\ UNCHANGED <<tx, workVars, job, submissions, requests, page>>

\* updateEscrowStatus, applyEscrowStatusSync or the record of a settlement
FollowLedger ==
    /\ row # ledger.status /\ row # "closed"
    /\ row = "disputed" => ledger.status = "closed"
    /\ row' = ledger.status /\ job' = [job EXCEPT !.status = ledger.status]
    /\ UNCHANGED <<ledgerVars, dispute, submissions, requests, page>>

-----------------------------------------------------------------------------
PageStep(p) ==
    \/ \E s \in Submissions :
         \/ \E revision \in Requests \cup {None} : Draft(p, s, revision)
         \/ PressAnchor(p, s)
    \/ SubmitMetadata(p) \/ RetryAnchor(p) \/ MarkAnchoring(p)
    \/ Submit(p) \/ Decline(p) \/ Confirm(p) \/ SeeFailure(p)
    \/ UpdateRow(p) \/ RecordAnchor(p) \/ FailRecording(p)
    \/ ReportFailure(p) \/ Close(p)

RevisionStep ==
    \/ \E s \in Submissions, r \in Requests :
         RequestRevision(s, r) \/ MarkRevisionSubmitted(r, s)
    \/ \E s \in Submissions : AcceptPreview(s) \/ CancelDraft(s)
    \/ \E r \in Requests : AcceptRevision(r) \/ CancelRevision(r)
    \/ \E policy \in {"none", "fixed", "unlimited"}, limit \in Limits :
         SetRevisionPolicy(policy, limit)

Next ==
    \/ \E p \in Pages : PageStep(p)
    \/ \E s \in Submissions : Land(s) \/ Drop(s)
    \/ RevisionStep
    \/ Dispute \/ MoveLedger \/ FollowLedger

Spec == Init /\ [][Next]_vars

-----------------------------------------------------------------------------
(* Properties.                                                              *)

\* Type invariant.
TypeOK ==
    /\ ledger \in [status : {"funded", "submitted", "disputed", "closed"},
                   proof : Submissions \cup {None}]
    /\ tx \in [Submissions -> {"none", "pending", "landed", "failed"}]
    /\ row \in {"created", "funded", "submitted", "disputed", "closed"}
    /\ job \in [status : {"selected", "funded", "submitted", "disputed",
                          "closed", "revision_requested",
                          "revision_submitted"},
                policy : {"none", "fixed", "unlimited"}, limit : Limits,
                count : Nat, active : Requests \cup {None}]
    /\ dispute \in {"none", "open"}
    /\ submissions \in [Submissions ->
         [status : {"none", "draft", "submitted_for_review", "submitted",
                    "revision_requested", "accepted_for_final", "anchoring",
                    "anchored", "anchor_failed", "cancelled"},
          onChain : {"not_submitted", "pending", "confirmed", "failed"},
          revision : Requests \cup {None}, accepted : {"no", "yes"}]]
    /\ requests \in [Requests ->
         {"none", "requested", "revision_submitted", "accepted", "cancelled"}]
    /\ page \in [Pages ->
         [step : {"idle", "drafted", "anchor", "mark", "signing", "waiting",
                  "updating", "recording", "failing"},
          submission : Submissions \cup {None}]]

\* Where the policy grants revisions, the proof the contract holds is of a
\* submission that the client accepted, never of one that was only handed in
\* or sent back, whichever page anchored it and however late it lands.
OnlyAcceptedIsAnchored ==
    ledger.proof # None /\ job.policy # "none" =>
        submissions[ledger.proof].accepted = "yes"

\* A submission shown as anchored is the one in the contract; so there is
\* only one, although several may be accepted one after the other.
AnchoredIsOnChain ==
    \A s \in Submissions :
        submissions[s].status = "anchored" => ledger.proof = s

Anchoring(p) ==
    page[p].step \in {"signing", "waiting", "updating", "recording", "failing"}

\* The status "anchoring" is a lock: two pages of the freelancer never take
\* one submission to the wallet at the same time, and while one does nobody
\* edits, cancels or accepts anything of it.
AnchoringIsExclusive ==
    \A p \in Pages : Anchoring(p) =>
        /\ submissions[page[p].submission].status = "anchoring"
        /\ \A q \in Pages \ {p} :
             Anchoring(q) => page[q].submission # page[p].submission

\* The revisions requested are the revisions counted, never more than the
\* policy grants, and one is answered, accepted or cancelled before the next.
RevisionsWithinQuota ==
    /\ job.count = Cardinality({r \in Requests : requests[r] # "none"})
    /\ CASE job.policy = "none"      -> job.count = 0
         [] job.policy = "fixed"     -> job.count <= job.limit
         [] job.policy = "unlimited" -> TRUE
    /\ \A r \in Requests : IsActive(r) => job.active = r

\* The view of the ledger in this module, where the escrow is funded already.
Keeping == INSTANCE Custody WITH
    Escrows <- {"escrow"}, Workers <- {"freelancer"}, Nobody <- "nobody",
    stage  <- [e \in {"escrow"} |->
                 IF ledger.status \in {"funded", "submitted"} THEN "held"
                                                             ELSE ledger.status],
    worker <- [e \in {"escrow"} |-> "freelancer"]

\* The ledger of this module moves as the contract promises: a proof that
\* lands late neither reopens nor un-disputes the escrow.
KeepsCustody == Keeping!Kept

=============================================================================
