---------------------------- MODULE Cancellations ----------------------------
(***************************************************************************)
(* The client of a micro-gig job asks to cancel it.  A request is approved *)
(* at once, waits for the freelancer's answer, or completes without the    *)
(* ledger, as computeCancellationEligibility finds the work at that        *)
(* moment; executing an approved request is a run of the client's page:    *)
(* markCancelOnChainStarted, the contract call, and the recording of its   *)
(* success or failure.                                                     *)
(*                                                                         *)
(* Everything between those steps may move: the escrow on the ledger and   *)
(* its row (which may show an earlier status), the proof, a dispute, the   *)
(* deadline, the freelancer's answer, another page of the client, and the  *)
(* mutations anyone of the two parties may call at any time.  Milestones,  *)
(* whose requests have one key instead of two, evidence files, events and  *)
(* notifications are left out.                                             *)
(*                                                                         *)
(* The specification is CancelSpec, and no name is one of EscrowContract:  *)
(* the proofs speak of both, since the escrow on the ledger, which is here *)
(* one status, has to move as the contract moves it.                       *)
(***************************************************************************)
EXTENDS Integers, FiniteSets

CONSTANTS
    Pages,         \* the client's open pages
    MaxRequests,   \* bound: how many requests are made
    None

ASSUME CancellationConstants ==
    MaxRequests \in Nat \ {0} /\ None \notin Nat

Requests == 1 .. MaxRequests

VARIABLES
    ledger,     \* the status of the escrow in the contract
    past,       \* the statuses it has had
    row,        \* the status of the escrows row, or "none"
    engaged,    \* whether the escrow names a freelancer
    work,       \* the proof: "none", under review, or back for revision
    dispute,    \* the disputes row: none that matters, active, or settled
                \* for the client
    deadline,   \* "ahead" or "passed"
    requests,   \* the cancellationRequests rows
    page,       \* what each page executes
    lost        \* requests whose transaction is in flight unwatched

escrowVars == <<ledger, past, row, engaged>>
workVars == <<work, dispute, deadline>>
clientVars == <<page, lost>>
cancelVars == <<escrowVars, workVars, requests, clientVars>>

-----------------------------------------------------------------------------
EscrowStatus ==
    {"created", "funded", "submitted", "released", "cancelled", "disputed"}

\* The two keys under which a request for one job may be filed: a page that
\* does not see the escrow yet files it under the job.
Parents == {"micro_gig", "escrow"}

Statuses ==
    {"pending_freelancer_response", "approved_for_cancel",
     "rejected_by_freelancer", "withdrawn", "expired",
     "cancel_pending_on_chain", "cancel_failed", "cancelled_on_chain"}

\* A row of cancellationRequests.
Request ==
    [parent : Parents, escrow : {"linked", "unlinked"},
     kind : {"post_dispute", "other"}, status : Statuses,
     response : {"pending", "lapsed", "accepted", "rejected", "expired",
                 "not_required"},
     chain : {"not_submitted", "not_required", "pending", "failed", "confirmed"}]

ASSUME NoRequestIsNone == None \notin Request

\* The ACTIVE_CANCELLATION_STATUSES in the order of the by_parent_status
\* index, which compares them as strings.
ActiveStatuses ==
    <<"approved_for_cancel", "cancel_failed", "cancel_pending_on_chain",
      "pending_freelancer_response">>

Place(status) == CHOOSE i \in DOMAIN ActiveStatuses : ActiveStatuses[i] = status

Existing == {r \in Requests : requests[r] # None}

ActiveOf(parent) ==
    {r \in Existing :
        /\ requests[r].parent = parent
        /\ \E i \in DOMAIN ActiveStatuses :
               ActiveStatuses[i] = requests[r].status}

\* The active request the backend looks at: the last in the index, and among
\* equals the newest.
IsCurrent(r, parent) ==
    /\ r \in ActiveOf(parent)
    /\ \A s \in ActiveOf(parent) \ {r} :
           LET i == Place(requests[r].status)
               j == Place(requests[s].status)
           IN  i > j \/ (i = j /\ r > s)

-----------------------------------------------------------------------------
(* computeCancellationEligibility: "blocked", "at_once" on the ledger,      *)
(* "off_ledger", or "ask" the freelancer.                                   *)

IsOverdueWithoutProof == work # "proof" /\ deadline = "passed"

Cancellable == {"created", "funded"}

Refused(parent) ==
    ActiveOf(parent) # {} \/ row \in {"cancelled", "released"}
        \/ dispute = "active"

IsPostDispute == dispute = "resolved_client" /\ row = "funded"

HasStarted == engaged = "yes" /\ row \in {"funded", "submitted"}

Eligibility(parent) ==
    CASE Refused(parent) -> "blocked"
      [] ~Refused(parent) /\ IsPostDispute -> "at_once"
      [] ~Refused(parent) /\ ~IsPostDispute /\ work # "none" -> "blocked"
      [] OTHER ->
           IF ~HasStarted
             THEN IF row \in Cancellable THEN "at_once" ELSE "off_ledger"
           ELSE IF IsOverdueWithoutProof /\ row = "funded" THEN "at_once"
           ELSE "ask"

\* A mutant: the answer is not looked at again.
MayUseUnanswered(r) ==
    /\ IsCurrent(r, requests[r].parent)
    /\ requests[r].status \in {"approved_for_cancel", "cancel_failed"}

\* refreshCancellationEligibilityForRequest: an approved request is not held
\* up by itself.
MayUse(r) ==
    /\ IsCurrent(r, requests[r].parent)
    /\ requests[r].status \in {"approved_for_cancel", "cancel_failed"}
    /\ requests[r].response \in {"accepted", "not_required"}

StillCancellable(r) ==
    /\ MayUse(r)
    /\ dispute # "active"
    /\ work = "proof" => requests[r].kind = "post_dispute"
    /\ row \in Cancellable

-----------------------------------------------------------------------------
(* Requests.                                                                *)

Put(r, request) == requests' = [requests EXCEPT ![r] = request]

SetRequestStatus(r, status) ==
    requests' = [requests EXCEPT ![r].status = status]

\* createCancellationRequest
CreateRequest(r, parent) ==
    LET verdict == Eligibility(parent)
    IN  /\ r = Cardinality(Existing) + 1
        /\ parent = "escrow" => row # "none"
        /\ verdict # "blocked"
        /\ Put(r, [parent |-> parent,
                   escrow |-> IF row = "none" THEN "unlinked" ELSE "linked",
                   kind |-> IF IsPostDispute THEN "post_dispute" ELSE "other",
                   status |-> CASE verdict = "off_ledger" -> "cancelled_on_chain"
                                [] verdict = "ask" -> "pending_freelancer_response"
                                [] OTHER -> "approved_for_cancel",
                   response |-> IF verdict = "ask" THEN "pending"
                                ELSE "not_required",
                   chain |-> IF verdict = "off_ledger" THEN "not_required"
                             ELSE "not_submitted"])
        /\ UNCHANGED <<escrowVars, workVars, clientVars>>

\* withdrawCancellationRequest
Withdraw(r) ==
    /\ requests[r].status \notin
           {"cancelled_on_chain", "cancel_pending_on_chain", "expired"}
    /\ SetRequestStatus(r, "withdrawn")
    /\ UNCHANGED <<escrowVars, workVars, clientVars>>

\* respondToCancellationRequest
Respond(r, answer) ==
    /\ requests[r].status = "pending_freelancer_response"
    /\ requests[r].response = "pending"
    /\ requests' = [requests EXCEPT
           ![r].response = answer,
           ![r].status = IF answer = "accepted" THEN "approved_for_cancel"
                         ELSE "rejected_by_freelancer"]
    /\ UNCHANGED <<escrowVars, workVars, clientVars>>

\* REQUEST_TTL_MS have passed since the request.
Lapse(r) ==
    /\ requests[r].response = "pending"
    /\ requests' = [requests EXCEPT ![r].response = "lapsed"]
    /\ UNCHANGED <<escrowVars, workVars, clientVars>>

\* expireCancellationRequest
Expire(r) ==
    /\ requests[r].status = "pending_freelancer_response"
    /\ requests[r].response = "lapsed"
    /\ requests' = [requests EXCEPT ![r].status = "expired",
                                    ![r].response = "expired"]
    /\ UNCHANGED <<escrowVars, workVars, clientVars>>

\* markCancellationApproved, by either party, whatever the status.
MarkApproved(r) ==
    /\ \/ requests[r].response = "accepted"
       \/ Eligibility(requests[r].parent) \in {"at_once", "off_ledger"}
       \/ StillCancellable(r)
    /\ SetRequestStatus(r, "approved_for_cancel")
    /\ UNCHANGED <<escrowVars, workVars, clientVars>>

\* markCancelOnChainFailed, by either party, whatever the status.
Fail(r) ==
    requests' = [requests EXCEPT ![r].status = "cancel_failed",
                                 ![r].chain = "failed"]

ReportFailure(r) ==
    Fail(r) /\ UNCHANGED <<escrowVars, workVars, clientVars>>

RequestStep ==
    \/ \E r \in Requests \ Existing, parent \in Parents : CreateRequest(r, parent)
    \/ \E r \in Existing :
           \/ Withdraw(r) \/ Lapse(r) \/ Expire(r)
           \/ \E answer \in {"accepted", "rejected"} : Respond(r, answer)
           \/ MarkApproved(r) \/ ReportFailure(r)

-----------------------------------------------------------------------------
(* executeCancellation, on a page of the client.                            *)

Idle == [step |-> "idle", request |-> None]

Go(p, step) == page' = [page EXCEPT ![p].step = step]

At(p, step) == page[p].step = step

\* The button, or the end of createCancellationRequest.
Execute(p, r) ==
    /\ page[p] = Idle
    /\ requests[r].status \in {"approved_for_cancel", "cancel_failed"}
    /\ requests[r].chain # "confirmed" /\ requests[r].escrow = "linked"
    /\ page' = [page EXCEPT ![p] = [step |-> "starting", request |-> r]]
    /\ UNCHANGED <<escrowVars, workVars, requests, lost>>

\* markCancelOnChainStarted
MarkStarted(p) ==
    LET r == page[p].request
    IN  /\ At(p, "starting")
        /\ requests[r].status \in {"approved_for_cancel", "cancel_failed"}
        /\ requests[r].chain # "confirmed"
        /\ StillCancellable(r)
        /\ requests' = [requests EXCEPT
               ![r].status = "cancel_pending_on_chain",
               ![r].chain = "pending"]
        /\ Go(p, "signing")
        /\ UNCHANGED <<escrowVars, workVars, lost>>

\* cancel_escrow, awaited to its confirmation.
Cancel(p) ==
    /\ At(p, "signing") /\ ledger \in Cancellable
    /\ ledger' = "cancelled" /\ past' = past \cup {"cancelled"}
    /\ Go(p, "recording")
    /\ UNCHANGED <<row, engaged, workVars, requests, lost>>

\* A mutant: an outcome that is still pending is taken for a success.
TrustPending(p) ==
    /\ At(p, "signing")
    /\ lost' = lost \cup {page[p].request}
    /\ Go(p, "recording")
    /\ UNCHANGED <<escrowVars, workVars, requests>>

\* The transaction is submitted and its outcome is not seen in time: an
\* exception like any other.
LoseTrack(p) ==
    /\ At(p, "signing")
    /\ lost' = lost \cup {page[p].request}
    /\ Go(p, "failing")
    /\ UNCHANGED <<escrowVars, workVars, requests>>

\* markCancelOnChainSucceeded with patchParentCancelled
MarkSucceeded(p) ==
    LET r == page[p].request
    IN  /\ At(p, "recording")
        /\ row' = "cancelled"
        /\ requests' = [requests EXCEPT ![r].status = "cancelled_on_chain",
                                        ![r].chain = "confirmed"]
        /\ Go(p, "noting")
        /\ UNCHANGED <<ledger, past, engaged, workVars, lost>>

\* updateTransactionStatus, the last call of the try block.
Note(p) ==
    /\ At(p, "noting")
    /\ page' = [page EXCEPT ![p] = Idle]
    /\ UNCHANGED <<escrowVars, workVars, requests, lost>>

\* A call of the try block fails or is refused: the wallet, the backend or
\* the ledger says no, or cannot be reached.
Throw(p) ==
    /\ page[p].step \in {"starting", "signing", "recording", "noting"}
    /\ Go(p, "failing")
    /\ UNCHANGED <<escrowVars, workVars, requests, lost>>

\* The catch block: markCancelOnChainFailed, itself in a try block.
MarkFailed(p) ==
    /\ At(p, "failing")
    /\ \/ Fail(page[p].request)
       \/ UNCHANGED requests
    /\ page' = [page EXCEPT ![p] = Idle]
    /\ UNCHANGED <<escrowVars, workVars, lost>>

\* The page is closed; a transaction it has signed may be on its way.
ClosePage(p) ==
    /\ page[p] # Idle
    /\ \/ At(p, "signing") /\ lost' = lost \cup {page[p].request}
       \/ UNCHANGED lost
    /\ page' = [page EXCEPT ![p] = Idle]
    /\ UNCHANGED <<escrowVars, workVars, requests>>

\* A transaction that no page watches takes effect, or expires.
Land(r) ==
    /\ r \in lost
    /\ lost' = lost \ {r}
    /\ \/ /\ ledger \in Cancellable
          /\ ledger' = "cancelled" /\ past' = past \cup {"cancelled"}
       \/ UNCHANGED <<ledger, past>>
    /\ UNCHANGED <<row, engaged, workVars, requests, page>>

PageStep ==
    \/ \E p \in Pages :
           \/ \E r \in Existing : Execute(p, r)
           \/ MarkStarted(p) \/ Cancel(p) \/ LoseTrack(p) \/ MarkSucceeded(p)
           \/ Note(p) \/ Throw(p) \/ MarkFailed(p) \/ ClosePage(p)
    \/ \E r \in Existing : Land(r)

-----------------------------------------------------------------------------
(* What the other handlers do meanwhile.                                    *)

\* create_escrow and createEscrowRecord, for a selected freelancer or open.
OpenEscrow(freelancer) ==
    /\ ledger = "none"
    /\ ledger' = "created" /\ past' = {"created"} /\ row' = "created"
    /\ engaged' = freelancer
    /\ UNCHANGED <<workVars, requests, clientVars>>

\* fund_escrow, submit_work, approve_and_release and mark_disputed, of which
\* submit_work follows a proof and mark_disputed a dispute.
Advances ==
    [created |-> {"funded"},             funded |-> {"submitted", "disputed"},
     submitted |-> {"released", "disputed"}, released |-> {},
     cancelled |-> {},                   disputed |-> {},  none |-> {}]

Advance(status) ==
    /\ status \in Advances[ledger]
    /\ status = "submitted" => engaged = "yes" /\ work # "none"
    /\ status = "disputed" => engaged = "yes" /\ dispute = "active"
    /\ ledger' = status /\ past' = past \cup {status}
    /\ UNCHANGED <<row, engaged, workVars, requests, clientVars>>

\* updateEscrowStatus and applyEscrowStatusSync: what the row says is, or
\* was, the status on the ledger.
Record(status) ==
    /\ status \in past /\ row # "none" /\ status # row
    /\ status = "released" => dispute # "active"
    /\ row' = status
    /\ UNCHANGED <<ledger, past, engaged, workVars, requests, clientVars>>

\* assignFreelancerToEscrow, after assign_freelancer.
Engage ==
    /\ row = "funded" /\ engaged = "no" /\ ledger = "funded"
    /\ engaged' = "yes"
    /\ UNCHANGED <<ledger, past, row, workVars, requests, clientVars>>

\* A proof is recorded, or is sent back for a revision.
Deliver ==
    /\ engaged = "yes"
    /\ \/ work = "none" /\ row = "funded" /\ work' = "proof"
       \/ work = "proof" /\ row = "submitted" /\ work' = "revising"
       \/ work = "revising" /\ work' = "proof"
    /\ UNCHANGED <<escrowVars, dispute, deadline, requests, clientVars>>

\* createDispute, and changeDisputeStatus by a party.
Dispute ==
    /\ engaged = "yes"
    /\ \/ /\ dispute = "none" /\ dispute' = "active"
          /\ row \in {"funded", "submitted", "disputed"}
       \/ dispute # "none" /\ dispute' = "none"
    /\ UNCHANGED <<escrowVars, work, deadline, requests, clientVars>>

\* resolve_dispute and recordDisputeResolutionSucceeded.
Settle(status) ==
    /\ ledger = "disputed" /\ dispute = "active"
    /\ ledger' = status /\ past' = past \cup {status} /\ row' = status
    /\ dispute' = IF status = "cancelled" THEN "resolved_client" ELSE "none"
    /\ UNCHANGED <<engaged, work, deadline, requests, clientVars>>

PassDeadline ==
    /\ deadline = "ahead" /\ deadline' = "passed"
    /\ UNCHANGED <<escrowVars, work, dispute, requests, clientVars>>

WorkStep ==
    \/ \E freelancer \in {"yes", "no"} : OpenEscrow(freelancer)
    \/ \E status \in EscrowStatus : Advance(status) \/ Record(status)
    \/ Engage \/ Deliver \/ Dispute \/ PassDeadline
    \/ \E status \in {"released", "cancelled"} : Settle(status)

CancelInit ==
    /\ ledger = "none" /\ past = {} /\ row = "none"
    /\ engaged = "no"
    /\ work = "none" /\ dispute = "none" /\ deadline = "ahead"
    /\ requests = [r \in Requests |-> None]
    /\ page = [p \in Pages |-> Idle]
    /\ lost = {}

CancelNext == RequestStep \/ PageStep \/ WorkStep

CancelSpec == CancelInit /\ [][CancelNext]_cancelVars

-----------------------------------------------------------------------------
(* Properties.                                                              *)

CancelTypeOK ==
    /\ ledger \in EscrowStatus \cup {"none"} /\ past \subseteq EscrowStatus
    /\ row \in EscrowStatus \cup {"none"}
    /\ engaged \in {"yes", "no"}
    /\ work \in {"none", "proof", "revising"}
    /\ dispute \in {"none", "active", "resolved_client"}
    /\ deadline \in {"ahead", "passed"}
    /\ requests \in [Requests -> Request \cup {None}]
    /\ page \in [Pages -> [step : {"idle", "starting", "signing", "recording",
                                   "noting", "failing"},
                           request : Requests \cup {None}]]
    /\ lost \subseteq Requests

\* A cancellation never goes to the ledger over a freelancer's refusal or
\* silence, although markCancelOnChainFailed, late or from the other party,
\* puts any request back into a status from which it may be started.
NeverOverRefusal ==
    \A r \in Requests :
        (r \in lost \/ \E p \in Pages :
             page[p].request = r /\ page[p].step \in {"signing", "recording"})
          => requests[r].response \in {"accepted", "not_required"}

\* A request says that its cancellation is confirmed only if the ledger has
\* cancelled the escrow: not for an outcome that is unknown, nor for one that
\* another page's run of the same request met.
ConfirmedIsCancelled ==
    \A r \in Existing : requests[r].chain = "confirmed" => ledger = "cancelled"

=============================================================================
