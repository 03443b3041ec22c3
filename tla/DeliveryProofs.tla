---------------------------- MODULE DeliveryProofs ----------------------------
(***************************************************************************)
(* The safety of Delivery for any number of pages, submissions, requests   *)
(* and limits.                                                             *)
(*                                                                         *)
(* The inductive invariant says that nothing happened while the job is     *)
(* still "selected", so that the policy is fixed when work starts; that a  *)
(* page records a proof only when the contract holds it; and that where    *)
(* the policy grants revisions whatever is past its review, or was ever    *)
(* sent to the ledger, was accepted.                                       *)
(***************************************************************************)
EXTENDS Delivery, FiniteSetTheorems, TLAPS

AnchoringSteps == {"signing", "waiting", "updating", "recording", "failing"}
PastReview == {"accepted_for_final", "anchoring", "anchored", "anchor_failed"}

SubmissionType ==
    [status : {"none", "draft", "submitted_for_review", "submitted",
               "revision_requested", "accepted_for_final", "anchoring",
               "anchored", "anchor_failed", "cancelled"},
     onChain : {"not_submitted", "pending", "confirmed", "failed"},
     revision : Requests \cup {None}, accepted : {"no", "yes"}]

PageType ==
    [step : {"idle", "drafted", "anchor", "mark", "signing", "waiting",
             "updating", "recording", "failing"},
     submission : Submissions \cup {None}]

Untouched ==
    job.status = "selected" =>
        /\ row = "created" /\ ledger.proof = None
        /\ \A s \in Submissions : submissions[s].status = "none" /\ tx[s] = "none"
        /\ \A r \in Requests : requests[r] = "none"

PageOK ==
    \A p \in Pages :
        /\ page[p].step # "idle" =>
             /\ page[p].submission \in Submissions
             /\ submissions[page[p].submission].status # "none"
        /\ page[p].step \in {"updating", "recording"} =>
             ledger.proof = page[p].submission

LedgerOK ==
    /\ ledger.proof # None => ledger.status # "funded"
    /\ \A s \in Submissions : tx[s] = "landed" => ledger.proof = s

AcceptedOK ==
    job.policy # "none" =>
        \A s \in Submissions :
            (\/ submissions[s].status \in PastReview
             \/ tx[s] \in {"pending", "landed"}
             \/ ledger.proof = s)
              => submissions[s].accepted = "yes"

\* What concerns submissions, pages and the ledger; the quota is separate.
WorkInv ==
    /\ Untouched /\ PageOK /\ LedgerOK /\ AcceptedOK
    /\ AnchoredIsOnChain /\ AnchoringIsExclusive

IInv == TypeOK /\ WorkInv /\ RevisionsWithinQuota
-----------------------------------------------------------------------------
LEMMA NoneIsNeither == None \notin Submissions /\ None \notin Requests
BY DeliveryConstants DEF Submissions, Requests

LEMMA NewSubmission ==
    ASSUME NEW s, IsNew(s)
    PROVE  s \in Submissions /\ submissions[s].status = "none"
BY DEF IsNew, Free

-----------------------------------------------------------------------------
(* How WorkInv survives a step, by what the step writes.                    *)

\* A page only moves on.
LEMMA PageMoves ==
    ASSUME IInv, TypeOK', NEW p \in Pages,
           UNCHANGED <<ledgerVars, job, submissions>>,
           job.status = "selected" => UNCHANGED <<row, requests>>,
           \A q \in Pages \ {p} : page'[q] = page[q],
           page'[p].step # "idle" =>
             /\ page'[p].submission \in Submissions
             /\ submissions[page'[p].submission].status # "none",
           page'[p].step \in {"updating", "recording"} =>
             ledger.proof = page'[p].submission,
           page'[p].step \in AnchoringSteps =>
             /\ page[p].step \in AnchoringSteps
             /\ page'[p].submission = page[p].submission
    PROVE  WorkInv'
<1>1. Untouched' /\ LedgerOK' /\ AcceptedOK' /\ AnchoredIsOnChain'
  BY DEF IInv, WorkInv, Untouched, LedgerOK, AcceptedOK, AnchoredIsOnChain, ledgerVars
<1>2. PageOK'
  BY DEF IInv, WorkInv, PageOK, ledgerVars
<1>3. AnchoringIsExclusive'
  BY DEF IInv, WorkInv, AnchoringIsExclusive, Anchoring, AnchoringSteps
<1> QED
  BY <1>1, <1>2, <1>3 DEF WorkInv

\* A page writes a submission.
LEMMA PageWrites ==
    ASSUME IInv, TypeOK', NEW p \in Pages, NEW s \in Submissions,
           UNCHANGED ledgerVars, job'.policy = job.policy,
           job'.status # "selected",
           \A q \in Pages \ {p} : page'[q] = page[q],
           \A other \in Submissions \ {s} : submissions'[other] = submissions[other],
           submissions'[s].status # "none",
           page'[p].step # "idle" => page'[p].submission = s,
           page'[p].step \notin {"updating", "recording"},
           submissions[s].status = "anchoring" =>
             page[p].step \in AnchoringSteps /\ page[p].submission = s,
           page'[p].step \in AnchoringSteps =>
             submissions[s].status # "anchoring"
               /\ submissions'[s].status = "anchoring",
           submissions'[s].status = "anchored" => ledger.proof = s,
           job.policy # "none" /\ submissions'[s].status \in PastReview =>
             submissions[s].accepted = "yes",
           submissions'[s].accepted = submissions[s].accepted
    PROVE  WorkInv'
<1>1. Untouched' /\ LedgerOK'
  BY DEF IInv, WorkInv, Untouched, LedgerOK, ledgerVars
<1>2. AcceptedOK' /\ AnchoredIsOnChain'
  BY DEF IInv, WorkInv, AcceptedOK, AnchoredIsOnChain, ledgerVars
<1>3. PageOK'
  BY DEF IInv, WorkInv, PageOK, ledgerVars
<1>4. AnchoringIsExclusive'
  <2>1. ASSUME NEW q \in Pages \ {p}, page[q].step \in AnchoringSteps
        PROVE  page[q].submission # s
    BY <2>1 DEF IInv, WorkInv, AnchoringIsExclusive, Anchoring, AnchoringSteps
  <2>2. ASSUME NEW q \in Pages, page[q].step \in AnchoringSteps
        PROVE  page[q].submission \in Submissions
    BY <2>2 DEF IInv, WorkInv, PageOK, AnchoringSteps
  <2> QED
    BY <2>1, <2>2 DEF IInv, WorkInv, AnchoringIsExclusive, Anchoring, AnchoringSteps
<1> QED
  BY <1>1, <1>2, <1>3, <1>4 DEF WorkInv

\* The client, or nobody's page, writes a submission that is not at a wallet.
LEMMA OthersWrite ==
    ASSUME IInv, TypeOK', NEW s \in Submissions,
           UNCHANGED <<ledgerVars, page>>, job'.policy = job.policy,
           job'.status # "selected",
           \A other \in Submissions \ {s} : submissions'[other] = submissions[other],
           submissions'[s].status # "none",
           submissions[s].status = "anchoring" =>
             submissions'[s].status = "anchoring",
           submissions'[s].status = "anchored" => ledger.proof = s,
           submissions'[s].status \in PastReview =>
             submissions'[s].accepted = "yes"
               \/ submissions[s].status \in PastReview,
           submissions[s].accepted = "yes" => submissions'[s].accepted = "yes"
    PROVE  WorkInv'
<1>1. Untouched' /\ LedgerOK'
  BY DEF IInv, WorkInv, Untouched, LedgerOK, ledgerVars
<1>2. AcceptedOK' /\ AnchoredIsOnChain'
  BY DEF IInv, WorkInv, TypeOK, AcceptedOK, AnchoredIsOnChain, ledgerVars
<1>3. PageOK'
  BY DEF IInv, WorkInv, PageOK, ledgerVars
<1>4. AnchoringIsExclusive'
  BY DEF IInv, WorkInv, PageOK, AnchoringIsExclusive, Anchoring
<1> QED
  BY <1>1, <1>2, <1>3, <1>4 DEF WorkInv

\* Only the job, the row, the dispute or a request changes.
LEMMA NothingWritten ==
    ASSUME IInv, UNCHANGED <<ledgerVars, submissions, page>>,
           \/ job'.status # "selected" /\ job'.policy = job.policy
           \/ job.status = "selected" /\ row' = row /\ requests' = requests
    PROVE  WorkInv'
<1>1. Untouched' /\ LedgerOK' /\ AnchoredIsOnChain'
  BY DEF IInv, WorkInv, Untouched, LedgerOK, AnchoredIsOnChain, ledgerVars
<1>2. AcceptedOK'
  BY NoneIsNeither
  DEF IInv, WorkInv, AcceptedOK, Untouched, PastReview, ledgerVars
<1>3. PageOK' /\ AnchoringIsExclusive'
  BY DEF IInv, WorkInv, PageOK, AnchoringIsExclusive, Anchoring, ledgerVars
<1> QED
  BY <1>1, <1>2, <1>3 DEF WorkInv

-----------------------------------------------------------------------------
(* Every action keeps the types and WorkInv.                                *)

\* A page at a submission works on one that exists, so the job has started.
LEMMA PageWorks ==
    ASSUME IInv, NEW p \in Pages, page[p].step # "idle"
    PROVE  /\ page[p].submission \in Submissions
           /\ submissions[page[p].submission].status # "none"
           /\ job.status # "selected"
BY DEF IInv, WorkInv, PageOK, Untouched

LEMMA DraftKeeps ==
    ASSUME IInv, NEW p \in Pages, NEW s \in Submissions,
           NEW revision \in Requests \cup {None}, Draft(p, s, revision)
    PROVE  TypeOK' /\ WorkInv'
<1>1. submissions[s].status = "none" /\ page[p] = Idle
  BY NewSubmission DEF Draft
<1>2. job.status # "selected"
  BY NoneIsNeither DEF IInv, WorkInv, Untouched, Draft, MayDraft, IsActive
<1>3. /\ submissions' \in [Submissions -> SubmissionType]
      /\ submissions'[s].status = "draft"
      /\ submissions'[s].accepted = submissions[s].accepted
      /\ \A other \in Submissions \ {s} :
           submissions'[other] = submissions[other]
  <2>1. submissions \in [Submissions -> SubmissionType]
    BY DEF IInv, TypeOK, SubmissionType
  <2> QED
    BY <2>1, ZenonT(30) DEF Draft, SubmissionType
<1>4. /\ page' \in [Pages -> PageType]
      /\ page'[p].step = "drafted" /\ page'[p].submission = s
      /\ \A q \in Pages \ {p} : page'[q] = page[q]
  <2>1. page \in [Pages -> PageType]
    BY DEF IInv, TypeOK, PageType
  <2> QED
    BY <2>1 DEF Draft, PageType
<1>5. UNCHANGED <<ledgerVars, row, dispute, job, requests>>
  BY DEF Draft, workVars
<1>6. TypeOK'
  BY <1>3, <1>4, <1>5
  DEF IInv, TypeOK, SubmissionType, PageType, ledgerVars
<1>7. WorkInv'
  BY <1>1, <1>2, <1>3, <1>4, <1>5, <1>6, PageWrites DEF PastReview, AnchoringSteps
<1> QED
  BY <1>6, <1>7

LEMMA PressAnchorKeeps ==
    ASSUME IInv, NEW p \in Pages, NEW s \in Submissions, PressAnchor(p, s)
    PROVE  TypeOK' /\ WorkInv'
<1>1. /\ page' \in [Pages -> PageType]
      /\ page'[p].step = "anchor" /\ page'[p].submission = s
      /\ \A q \in Pages \ {p} : page'[q] = page[q]
  <2>1. page \in [Pages -> PageType]
    BY DEF IInv, TypeOK, PageType
  <2> QED
    BY <2>1 DEF PressAnchor, PageType
<1>2. UNCHANGED <<ledgerVars, row, dispute, job, submissions, requests>>
  BY DEF PressAnchor, workVars
<1>3. TypeOK'
  BY <1>1, <1>2 DEF IInv, TypeOK, PageType, ledgerVars
<1>4. submissions[s].status # "none"
  BY DEF PressAnchor
<1>5. WorkInv'
  BY <1>1, <1>2, <1>3, <1>4, PageMoves DEF AnchoringSteps
<1> QED
  BY <1>3, <1>5

\* The steps of a page that only go on to a step, or stop.
LEMMA GotoKeeps ==
    ASSUME IInv, NEW p \in Pages, NEW step \in {"updating", "failing"},
           Goto(p, step), page[p].step \in AnchoringSteps,
           step = "updating" => ledger.proof = page[p].submission,
           UNCHANGED <<ledgerVars, workVars, job, submissions, requests>>
    PROVE  TypeOK' /\ WorkInv'
<1>1. /\ page' \in [Pages -> PageType]
      /\ page'[p].step = step /\ page'[p].submission = page[p].submission
      /\ \A q \in Pages \ {p} : page'[q] = page[q]
  <2>1. page \in [Pages -> PageType]
    BY DEF IInv, TypeOK, PageType
  <2> QED
    BY <2>1 DEF Goto, PageType
<1>2. TypeOK'
  BY <1>1 DEF IInv, TypeOK, PageType, ledgerVars, workVars
<1>3. page[p].step # "idle"
  BY DEF AnchoringSteps
<1>4. WorkInv'
  BY <1>1, <1>2, <1>3, PageWorks, PageMoves DEF workVars
<1> QED
  BY <1>2, <1>4

LEMMA StopKeeps ==
    ASSUME IInv, NEW p \in Pages, Stop(p),
           UNCHANGED <<ledgerVars, workVars, job, submissions, requests>>
    PROVE  TypeOK' /\ WorkInv'
<1>1. /\ page' \in [Pages -> PageType] /\ page'[p].step = "idle"
      /\ \A q \in Pages \ {p} : page'[q] = page[q]
  <2>1. page \in [Pages -> PageType] /\ Idle \in PageType /\ Idle.step = "idle"
    BY DEF IInv, TypeOK, PageType, Idle
  <2> HIDE DEF Idle
  <2> QED
    BY <2>1 DEF Stop
<1>2. TypeOK'
  BY <1>1 DEF IInv, TypeOK, PageType, ledgerVars, workVars
<1>3. WorkInv'
  BY <1>1, <1>2, PageMoves DEF workVars, AnchoringSteps
<1> QED
  BY <1>2, <1>3

LEMMA GoingKeeps ==
    ASSUME IInv, NEW p \in Pages,
           Decline(p) \/ Confirm(p) \/ SeeFailure(p) \/ FailRecording(p) \/ Close(p)
    PROVE  TypeOK' /\ WorkInv'
<1>1. CASE Confirm(p)
  <2>1. page[p].submission \in Submissions /\ tx[page[p].submission] = "landed"
    BY <1>1, PageWorks DEF Confirm, Confirmed
  <2>2. ledger.proof = page[p].submission
    BY <2>1 DEF IInv, WorkInv, LedgerOK
  <2> QED
    BY <1>1, <2>2, GotoKeeps DEF Confirm, AnchoringSteps
<1>2. CASE Decline(p) \/ SeeFailure(p) \/ FailRecording(p)
  <2>1. /\ Goto(p, "failing") /\ page[p].step \in AnchoringSteps
        /\ UNCHANGED <<ledgerVars, workVars, job, submissions, requests>>
    BY <1>2 DEF Decline, SeeFailure, FailRecording, AnchoringSteps
  <2> QED
    BY <2>1, GotoKeeps
<1>3. CASE Close(p)
  BY <1>3, StopKeeps DEF Close
<1> QED
  BY <1>1, <1>2, <1>3

LEMMA UpdateRowKeeps ==
    ASSUME IInv, NEW p \in Pages, UpdateRow(p)
    PROVE  TypeOK' /\ WorkInv'
<1>1. /\ page' \in [Pages -> PageType]
      /\ page'[p].step = "recording" /\ page'[p].submission = page[p].submission
      /\ \A q \in Pages \ {p} : page'[q] = page[q]
  <2>1. page \in [Pages -> PageType]
    BY DEF IInv, TypeOK, PageType
  <2> QED
    BY <2>1 DEF UpdateRow, Goto, PageType
<1>2. job' = [job EXCEPT !.status = "submitted"] /\ row' = "submitted"
      /\ UNCHANGED <<ledgerVars, dispute, submissions, requests>>
  BY DEF UpdateRow
<1>3. job'.status = "submitted" /\ job'.policy = job.policy
  BY <1>2 DEF IInv, TypeOK
<1>4. TypeOK'
  BY <1>1, <1>2 DEF IInv, TypeOK, PageType, ledgerVars
<1>5. page[p].step = "updating" /\ ledger.proof = page[p].submission
  BY DEF UpdateRow, IInv, WorkInv, PageOK
<1>6. page[p].submission \in Submissions
      /\ submissions[page[p].submission].status # "none"
  BY <1>5, PageWorks
<1>7. Untouched' /\ LedgerOK' /\ AcceptedOK' /\ AnchoredIsOnChain'
  BY <1>2, <1>3
  DEF IInv, WorkInv, Untouched, LedgerOK, AcceptedOK, AnchoredIsOnChain, ledgerVars
<1>8. PageOK'
  BY <1>1, <1>2, <1>5, <1>6 DEF IInv, WorkInv, PageOK, ledgerVars
<1>9. AnchoringIsExclusive'
  BY <1>1, <1>2, <1>5
  DEF IInv, WorkInv, AnchoringIsExclusive, Anchoring
<1> QED
  BY <1>4, <1>7, <1>8, <1>9 DEF WorkInv

LEMMA SubmitMetadataKeeps ==
    ASSUME IInv, NEW p \in Pages, SubmitMetadata(p)
    PROVE  TypeOK' /\ WorkInv'
<1> DEFINE s == page[p].submission
           status == IF PreviewEnabled THEN "submitted_for_review" ELSE "submitted"
<1>1. s \in Submissions /\ submissions[s].status # "none" /\ job.status # "selected"
  BY PageWorks DEF SubmitMetadata
<1>2. submissions[s].status # "anchoring"
  BY DEF SubmitMetadata, MaySubmit, IsMutable
<1>3. /\ submissions' \in [Submissions -> SubmissionType]
      /\ submissions'[s].status = status
      /\ submissions'[s].accepted = submissions[s].accepted
      /\ \A other \in Submissions \ {s} :
           submissions'[other] = submissions[other]
  <2>1. submissions \in [Submissions -> SubmissionType]
    BY DEF IInv, TypeOK, SubmissionType
  <2> DEFINE new == [submissions[s] EXCEPT !.status = status,
                                           !.onChain = "not_submitted"]
  <2>2. submissions' = [submissions EXCEPT ![s] = new]
    BY DEF SubmitMetadata
  <2>3. /\ new \in SubmissionType /\ new.status = status
        /\ new.accepted = submissions[s].accepted
    BY <1>1, <2>1, ZenonT(30) DEF SubmissionType
  <2> HIDE DEF new, s, status
  <2> QED
    BY <1>1, <2>1, <2>2, <2>3
<1>4. /\ page' \in [Pages -> PageType]
      /\ page'[p].step \in {"idle", "anchor"}
      /\ page'[p].step # "idle" => page'[p].submission = s
      /\ \A q \in Pages \ {p} : page'[q] = page[q]
  <2>1. page \in [Pages -> PageType] /\ Idle \in PageType /\ Idle.step = "idle"
    BY DEF IInv, TypeOK, PageType, Idle
  <2>2. Stop(p) \/ Goto(p, "anchor")
    BY DEF SubmitMetadata
  <2> HIDE DEF Idle
  <2> QED
    BY <2>1, <2>2 DEF Stop, Goto, PageType
<1>5. /\ job'.status # "selected" /\ job'.policy = job.policy
      /\ job' \in [status : {"selected", "funded", "submitted", "disputed",
                             "closed", "revision_requested",
                             "revision_submitted"},
                   policy : {"none", "fixed", "unlimited"}, limit : Limits,
                   count : Nat, active : Requests \cup {None}]
  BY <1>1 DEF IInv, TypeOK, SubmitMetadata
<1>6. requests' \in [Requests ->
         {"none", "requested", "revision_submitted", "accepted", "cancelled"}]
  BY DEF IInv, TypeOK, SubmitMetadata, Answer
<1>7. UNCHANGED <<ledgerVars, workVars>>
  BY DEF SubmitMetadata
<1>8. TypeOK'
  BY <1>3, <1>4, <1>5, <1>6, <1>7
  DEF IInv, TypeOK, SubmissionType, PageType, ledgerVars, workVars
<1> HIDE DEF s
<1>9. WorkInv'
  BY <1>1, <1>2, <1>3, <1>4, <1>5, <1>7, <1>8, PageWrites
  DEF PastReview, AnchoringSteps
<1> QED
  BY <1>8, <1>9

\* The steps of anchoring that write the submission: the page that writes is
\* the one that has it.
LEMMA AnchoringKeeps ==
    ASSUME IInv, NEW p \in Pages,
           RetryAnchor(p) \/ MarkAnchoring(p) \/ RecordAnchor(p) \/ ReportFailure(p)
    PROVE  TypeOK' /\ WorkInv'
<1> DEFINE s == page[p].submission
<1>1. page[p].step # "idle"
  BY DEF RetryAnchor, MarkAnchoring, RecordAnchor, ReportFailure
<1>2. s \in Submissions /\ submissions[s].status # "none" /\ job.status # "selected"
  BY <1>1, PageWorks
<1>3. UNCHANGED <<ledgerVars, workVars, job, requests>>
  BY DEF RetryAnchor, MarkAnchoring, RecordAnchor, ReportFailure
<1>4. submissions \in [Submissions -> SubmissionType]
  BY DEF IInv, TypeOK, SubmissionType
<1>5. page \in [Pages -> PageType] /\ Idle \in PageType /\ Idle.step = "idle"
  BY DEF IInv, TypeOK, PageType, Idle
<1>6. ASSUME MayAnchor(s), job.policy # "none"
      PROVE  submissions[s].accepted = "yes"
  <2>1. PreviewEnabled
    BY <1>6 DEF PreviewEnabled, IInv, TypeOK
  <2> QED
    BY <1>2, <1>6, <2>1 DEF MayAnchor, IInv, WorkInv, AcceptedOK, PastReview
<1>7. ASSUME page[p].step \in AnchoringSteps
      PROVE  /\ submissions[s].status = "anchoring"
             /\ job.policy # "none" => submissions[s].accepted = "yes"
  BY <1>2, <1>7 DEF IInv, WorkInv, AnchoringIsExclusive, Anchoring,
                    AnchoringSteps, AcceptedOK, PastReview
<1> HIDE DEF Idle
<1>8. CASE RetryAnchor(p)
  <2>1. /\ submissions' \in [Submissions -> SubmissionType]
        /\ submissions'[s].status \in {"accepted_for_final", "submitted"}
        /\ submissions'[s].accepted = submissions[s].accepted
        /\ \A other \in Submissions \ {s} :
             submissions'[other] = submissions[other]
    BY <1>2, <1>4, <1>8 DEF RetryAnchor, SubmissionType
  <2>2. /\ page' \in [Pages -> PageType]
        /\ page'[p].step = "mark" /\ page'[p].submission = s
        /\ \A q \in Pages \ {p} : page'[q] = page[q]
    BY <1>5, <1>8 DEF RetryAnchor, Goto, PageType
  <2>3. TypeOK'
    BY <1>3, <2>1, <2>2
    DEF IInv, TypeOK, SubmissionType, PageType, ledgerVars, workVars
  <2>4. MayAnchor(s) /\ submissions[s].status # "anchoring"
    BY <1>8 DEF RetryAnchor, MayAnchor
  <2> HIDE DEF s
  <2>5. WorkInv'
    BY <1>2, <1>3, <1>6, <2>1, <2>2, <2>3, <2>4, PageWrites DEF AnchoringSteps
  <2> QED
    BY <2>3, <2>5
<1>9. CASE MarkAnchoring(p)
  <2>1. /\ submissions' \in [Submissions -> SubmissionType]
        /\ submissions'[s].status = "anchoring"
        /\ submissions'[s].accepted = submissions[s].accepted
        /\ \A other \in Submissions \ {s} :
             submissions'[other] = submissions[other]
    BY <1>2, <1>4, <1>9 DEF MarkAnchoring, SubmissionType
  <2>2. /\ page' \in [Pages -> PageType]
        /\ page'[p].step = "signing" /\ page'[p].submission = s
        /\ \A q \in Pages \ {p} : page'[q] = page[q]
    BY <1>5, <1>9 DEF MarkAnchoring, Goto, PageType
  <2>3. TypeOK'
    BY <1>3, <2>1, <2>2
    DEF IInv, TypeOK, SubmissionType, PageType, ledgerVars, workVars
  <2>4. MayAnchor(s) /\ submissions[s].status # "anchoring"
    BY <1>9 DEF MarkAnchoring, MayAnchor
  <2> HIDE DEF s
  <2>5. WorkInv'
    BY <1>2, <1>3, <1>6, <2>1, <2>2, <2>3, <2>4, PageWrites DEF AnchoringSteps
  <2> QED
    BY <2>3, <2>5
<1>10. CASE RecordAnchor(p) \/ ReportFailure(p)
  <2>1. page[p].step \in AnchoringSteps
    BY <1>10 DEF RecordAnchor, ReportFailure, AnchoringSteps
  <2>2. /\ submissions' \in [Submissions -> SubmissionType]
        /\ submissions'[s].status \in {"anchored", "anchor_failed"}
        /\ submissions'[s].accepted = submissions[s].accepted
        /\ \A other \in Submissions \ {s} :
             submissions'[other] = submissions[other]
    BY <1>2, <1>4, <1>10 DEF RecordAnchor, ReportFailure, SubmissionType
  <2>3. /\ page' \in [Pages -> PageType] /\ page'[p].step = "idle"
        /\ \A q \in Pages \ {p} : page'[q] = page[q]
    BY <1>5, <1>10 DEF RecordAnchor, ReportFailure, Stop
  <2>4. submissions'[s].status = "anchored" => ledger.proof = s
    <3>1. CASE RecordAnchor(p)
      BY <3>1 DEF RecordAnchor, IInv, WorkInv, PageOK
    <3>2. CASE ReportFailure(p)
      BY <1>2, <1>4, <3>2 DEF ReportFailure, SubmissionType
    <3> QED
      BY <1>10, <3>1, <3>2
  <2>5. TypeOK'
    BY <1>3, <2>2, <2>3
    DEF IInv, TypeOK, SubmissionType, PageType, ledgerVars, workVars
  <2>6. page[p].submission = s
    OBVIOUS
  <2> HIDE DEF s
  <2>7. WorkInv'
    BY <1>2, <1>3, <1>7, <2>1, <2>2, <2>3, <2>4, <2>5, <2>6, PageWrites
    DEF AnchoringSteps
  <2> QED
    BY <2>5, <2>7
<1> QED
  BY <1>8, <1>9, <1>10

\* The transaction is sent by a page that has the submission, hence accepted.
LEMMA SubmitKeeps ==
    ASSUME IInv, NEW p \in Pages, Submit(p)
    PROVE  TypeOK' /\ WorkInv'
<1> DEFINE s == page[p].submission
<1>1. s \in Submissions /\ job.status # "selected"
      /\ submissions[s].status # "none"
  BY PageWorks DEF Submit
<1>2. /\ page' \in [Pages -> PageType]
      /\ page'[p].step = "waiting" /\ page'[p].submission = s
      /\ \A q \in Pages \ {p} : page'[q] = page[q]
  <2>1. page \in [Pages -> PageType]
    BY DEF IInv, TypeOK, PageType
  <2> QED
    BY <2>1 DEF Submit, Goto, PageType
<1>3. /\ tx' \in [Submissions -> {"none", "pending", "landed", "failed"}]
      /\ tx'[s] = "pending"
      /\ \A other \in Submissions \ {s} : tx'[other] = tx[other]
  BY <1>1 DEF IInv, TypeOK, Submit
<1>4. UNCHANGED <<ledger, row, dispute, job, submissions, requests>>
  BY DEF Submit, workVars
<1>5. TypeOK'
  BY <1>2, <1>3, <1>4 DEF IInv, TypeOK, PageType
<1>6. submissions[s].status = "anchoring" /\ page[p].step = "signing"
  BY DEF Submit, IInv, WorkInv, AnchoringIsExclusive, Anchoring
<1>7. job.policy # "none" => submissions[s].accepted = "yes"
  BY <1>1, <1>6 DEF IInv, WorkInv, AcceptedOK, PastReview
<1>8. Untouched' /\ LedgerOK' /\ AnchoredIsOnChain'
  BY <1>1, <1>3, <1>4 DEF IInv, WorkInv, Untouched, LedgerOK, AnchoredIsOnChain
<1>9. AcceptedOK'
  BY <1>3, <1>4, <1>7 DEF IInv, WorkInv, AcceptedOK
<1>10. PageOK'
  BY <1>1, <1>2, <1>4 DEF IInv, WorkInv, PageOK
<1>11. AnchoringIsExclusive'
  BY <1>2, <1>4, <1>6 DEF IInv, WorkInv, AnchoringIsExclusive, Anchoring
<1> QED
  BY <1>5, <1>8, <1>9, <1>10, <1>11 DEF WorkInv

LEMMA LedgerKeeps ==
    ASSUME IInv,
           MoveLedger \/ \E s \in Submissions : Land(s) \/ Drop(s)
    PROVE  TypeOK' /\ WorkInv'
<1>1. UNCHANGED <<row, dispute, job, submissions, requests, page>>
  BY DEF MoveLedger, Land, Drop, workVars
<1>2. ASSUME NEW s \in Submissions, Land(s)
      PROVE  TypeOK' /\ WorkInv'
  <2>1. /\ ledger.status = "funded" /\ tx[s] = "pending"
        /\ ledger' = [status |-> "submitted", proof |-> s]
    BY <1>2 DEF Land
  <2>2. /\ tx' \in [Submissions -> {"none", "pending", "landed", "failed"}]
        /\ tx'[s] = "landed"
        /\ \A other \in Submissions \ {s} : tx'[other] = tx[other]
    BY <1>2 DEF IInv, TypeOK, Land
  <2>3. ledger.proof = None /\ \A other \in Submissions : tx[other] # "landed"
    BY <2>1, NoneIsNeither DEF IInv, TypeOK, WorkInv, LedgerOK
  <2>4. TypeOK'
    BY <1>1, <2>1, <2>2 DEF IInv, TypeOK
  <2>5. Untouched' /\ LedgerOK'
    BY <1>1, <2>1, <2>2, <2>3, NoneIsNeither DEF IInv, WorkInv, Untouched, LedgerOK
  <2>6. AcceptedOK'
    BY <1>1, <2>1, <2>2 DEF IInv, WorkInv, AcceptedOK
  <2>7. AnchoredIsOnChain' /\ PageOK'
    BY <1>1, <2>1, <2>3, NoneIsNeither
    DEF IInv, WorkInv, AnchoredIsOnChain, PageOK
  <2>8. AnchoringIsExclusive'
    BY <1>1 DEF IInv, WorkInv, AnchoringIsExclusive, Anchoring
  <2> QED
    BY <2>4, <2>5, <2>6, <2>7, <2>8 DEF WorkInv
<1>3. ASSUME NEW s \in Submissions, Drop(s)
      PROVE  TypeOK' /\ WorkInv'
  <2>1. /\ ledger' = ledger /\ tx[s] = "pending"
        /\ tx' \in [Submissions -> {"none", "pending", "landed", "failed"}]
        /\ tx'[s] = "failed"
        /\ \A other \in Submissions \ {s} : tx'[other] = tx[other]
    BY <1>3 DEF IInv, TypeOK, Drop
  <2>2. TypeOK'
    BY <1>1, <2>1 DEF IInv, TypeOK
  <2>3. Untouched' /\ LedgerOK' /\ AcceptedOK'
    BY <1>1, <2>1 DEF IInv, WorkInv, Untouched, LedgerOK, AcceptedOK
  <2>4. AnchoredIsOnChain' /\ PageOK' /\ AnchoringIsExclusive'
    BY <1>1, <2>1
    DEF IInv, WorkInv, AnchoredIsOnChain, PageOK, AnchoringIsExclusive, Anchoring
  <2> QED
    BY <2>2, <2>3, <2>4 DEF WorkInv
<1>4. CASE MoveLedger
  <2>1. /\ tx' = tx /\ ledger'.proof = ledger.proof
        /\ ledger'.status \in {"disputed", "closed"}
        /\ ledger' \in [status : {"funded", "submitted", "disputed", "closed"},
                        proof : Submissions \cup {None}]
    BY <1>4 DEF IInv, TypeOK, MoveLedger
  <2>2. TypeOK'
    BY <1>1, <2>1 DEF IInv, TypeOK
  <2>3. Untouched' /\ LedgerOK' /\ AcceptedOK'
    BY <1>1, <2>1 DEF IInv, WorkInv, Untouched, LedgerOK, AcceptedOK
  <2>4. AnchoredIsOnChain' /\ PageOK' /\ AnchoringIsExclusive'
    BY <1>1, <2>1
    DEF IInv, WorkInv, AnchoredIsOnChain, PageOK, AnchoringIsExclusive, Anchoring
  <2> QED
    BY <2>2, <2>3, <2>4 DEF WorkInv
<1> QED
  BY <1>2, <1>3, <1>4

\* The mutations that write a submission without being at its wallet.
LEMMA ReviewKeeps ==
    ASSUME IInv, NEW s \in Submissions,
           \/ AcceptPreview(s) \/ CancelDraft(s)
           \/ \E r \in Requests : RequestRevision(s, r)
    PROVE  TypeOK' /\ WorkInv'
<1>1. submissions \in [Submissions -> SubmissionType]
  BY DEF IInv, TypeOK, SubmissionType
<1>2. CASE AcceptPreview(s)
  <2>1. /\ submissions' \in [Submissions -> SubmissionType]
        /\ submissions'[s].status = "accepted_for_final"
        /\ submissions'[s].accepted = "yes"
        /\ \A other \in Submissions \ {s} :
             submissions'[other] = submissions[other]
    <3>1. /\ submissions' = [submissions EXCEPT ![s] = submissions'[s]]
          /\ submissions'[s] = [submissions[s] EXCEPT
                                  !.status = "accepted_for_final",
                                  !.accepted = "yes"]
      BY <1>1, <1>2 DEF AcceptPreview
    <3>2. /\ submissions'[s] \in SubmissionType
          /\ submissions'[s].status = "accepted_for_final"
          /\ submissions'[s].accepted = "yes"
      BY <1>1, <3>1, ZenonT(30) DEF SubmissionType
    <3> QED
      BY <1>1, <3>1, <3>2
  <2>2. /\ job' = [job EXCEPT !.status = "submitted", !.active = None]
        /\ UNCHANGED <<ledgerVars, workVars, requests, page>>
    BY <1>2 DEF AcceptPreview
  <2>3. job'.status = "submitted" /\ job'.policy = job.policy
    BY <2>2 DEF IInv, TypeOK
  <2>4. TypeOK'
    BY <2>1, <2>2 DEF IInv, TypeOK, SubmissionType, ledgerVars, workVars
  <2>5. submissions[s].status = "submitted_for_review"
    BY <1>2 DEF AcceptPreview, MayAccept
  <2>6. WorkInv'
    BY <2>1, <2>2, <2>3, <2>4, <2>5, OthersWrite
  <2> QED
    BY <2>4, <2>6
<1>3. CASE CancelDraft(s)
  <2>1. /\ submissions' \in [Submissions -> SubmissionType]
        /\ submissions'[s].status = "cancelled"
        /\ submissions'[s].accepted = submissions[s].accepted
        /\ \A other \in Submissions \ {s} :
             submissions'[other] = submissions[other]
    BY <1>1, <1>3 DEF CancelDraft, SetStatus, SubmissionType
  <2>2. UNCHANGED <<ledgerVars, workVars, job, requests, page>>
    BY <1>3 DEF CancelDraft
  <2>3. submissions[s].status \notin {"none", "anchoring"}
    BY <1>3 DEF CancelDraft, IsMutable
  <2>4. job.status # "selected"
    BY <2>3 DEF IInv, WorkInv, Untouched
  <2>5. TypeOK'
    BY <2>1, <2>2 DEF IInv, TypeOK, SubmissionType, ledgerVars, workVars
  <2>6. WorkInv'
    BY <2>1, <2>2, <2>3, <2>4, <2>5, OthersWrite DEF PastReview
  <2> QED
    BY <2>5, <2>6
<1>4. ASSUME NEW r \in Requests, RequestRevision(s, r)
      PROVE  TypeOK' /\ WorkInv'
  <2>1. /\ submissions' \in [Submissions -> SubmissionType]
        /\ submissions'[s].status = "revision_requested"
             \/ submissions'[s].status = submissions[s].status
        /\ submissions'[s].accepted = submissions[s].accepted
        /\ \A other \in Submissions \ {s} :
             submissions'[other] = submissions[other]
    <3>1. CASE submissions' = submissions
      BY <1>1, <3>1
    <3>2. CASE submissions' = [submissions EXCEPT ![s].status = "revision_requested"]
      BY <1>1, <3>2 DEF SubmissionType
    <3> QED
      BY <1>4, <3>1, <3>2 DEF RequestRevision, SetStatus
  <2>2. submissions[s].status = "anchoring" => submissions' = submissions
    BY <1>4 DEF RequestRevision
  <2>3. /\ job' = [job EXCEPT !.status = "revision_requested", !.active = r,
                              !.count = @ + 1]
        /\ requests' = [requests EXCEPT ![r] = "requested"]
        /\ UNCHANGED <<ledgerVars, workVars, page>>
    BY <1>4 DEF RequestRevision
  <2>4. job'.status = "revision_requested" /\ job'.policy = job.policy
    BY <2>3 DEF IInv, TypeOK
  <2>5. submissions[s].status # "none"
    BY <1>4 DEF RequestRevision, MayRequest
  <2>6. TypeOK'
    <3>1. job' \in [status : {"selected", "funded", "submitted", "disputed",
                             "closed", "revision_requested",
                             "revision_submitted"},
                   policy : {"none", "fixed", "unlimited"}, limit : Limits,
                   count : Nat, active : Requests \cup {None}]
      <4>1. job.count \in Nat /\ job.count + 1 \in Nat
        BY DEF IInv, TypeOK
      <4> QED
        BY <2>3, <4>1 DEF IInv, TypeOK
    <3>2. requests' \in [Requests -> {"none", "requested",
                        "revision_submitted", "accepted", "cancelled"}]
      BY <2>3 DEF IInv, TypeOK
    <3> QED
      BY <2>1, <2>3, <3>1, <3>2
      DEF IInv, TypeOK, SubmissionType, ledgerVars, workVars
  <2>7. submissions'[s].status = "anchored" => ledger.proof = s
    BY <2>1 DEF IInv, WorkInv, AnchoredIsOnChain
  <2>8. WorkInv'
    BY <2>1, <2>2, <2>3, <2>4, <2>5, <2>6, <2>7, OthersWrite DEF PastReview
  <2> QED
    BY <2>6, <2>8
<1> QED
  BY <1>2, <1>3, <1>4

\* The steps that write neither a submission nor the ledger.
LEMMA RestKeeps ==
    ASSUME IInv,
           \/ \E s \in Submissions, r \in Requests : MarkRevisionSubmitted(r, s)
           \/ \E r \in Requests : AcceptRevision(r) \/ CancelRevision(r)
           \/ \E policy \in {"none", "fixed", "unlimited"}, limit \in Limits :
                SetRevisionPolicy(policy, limit)
           \/ Dispute \/ FollowLedger
    PROVE  TypeOK' /\ WorkInv'
<1>1. ASSUME NEW s \in Submissions, NEW r \in Requests, MarkRevisionSubmitted(r, s)
      PROVE  TypeOK' /\ WorkInv'
  <2>1. /\ job' = [job EXCEPT !.status = "revision_submitted", !.active = None]
        /\ Answer(r)
        /\ UNCHANGED <<ledgerVars, workVars, submissions, page>>
    BY <1>1 DEF MarkRevisionSubmitted
  <2>2. job'.status = "revision_submitted" /\ job'.policy = job.policy
    BY <2>1 DEF IInv, TypeOK
  <2>3. TypeOK'
    BY <2>1 DEF IInv, TypeOK, Answer, ledgerVars, workVars
  <2> QED
    BY <2>1, <2>2, <2>3, NothingWritten
<1>2. ASSUME NEW r \in Requests, AcceptRevision(r)
      PROVE  TypeOK' /\ WorkInv'
  <2>1. /\ requests[r] # "none"
        /\ requests' = [requests EXCEPT ![r] = "accepted"]
        /\ UNCHANGED <<ledgerVars, workVars, job, submissions, page>>
    BY <1>2 DEF AcceptRevision
  <2>2. job'.status # "selected" /\ job'.policy = job.policy
    BY <2>1 DEF IInv, WorkInv, Untouched
  <2>3. TypeOK'
    BY <2>1 DEF IInv, TypeOK, ledgerVars, workVars
  <2> QED
    BY <2>1, <2>2, <2>3, NothingWritten
<1>3. ASSUME NEW r \in Requests, CancelRevision(r)
      PROVE  TypeOK' /\ WorkInv'
  <2>1. /\ requests[r] = "requested"
        /\ requests' = [requests EXCEPT ![r] = "cancelled"]
        /\ job' = [job EXCEPT !.active = None]
        /\ UNCHANGED <<ledgerVars, workVars, submissions, page>>
    BY <1>3 DEF CancelRevision, IsActive
  <2>2. job.status # "selected"
    BY <2>1 DEF IInv, WorkInv, Untouched
  <2>3. job'.status = job.status /\ job'.policy = job.policy
    BY <2>1 DEF IInv, TypeOK
  <2>4. TypeOK'
    BY <2>1 DEF IInv, TypeOK, ledgerVars, workVars
  <2>5. job'.status # "selected" /\ UNCHANGED <<ledgerVars, submissions, page>>
    BY <2>1, <2>2, <2>3
  <2> QED
    BY <2>3, <2>4, <2>5, NothingWritten
<1>4. ASSUME NEW policy \in {"none", "fixed", "unlimited"}, NEW limit \in Limits,
             SetRevisionPolicy(policy, limit)
      PROVE  TypeOK' /\ WorkInv'
  <2>1. /\ job.status = "selected"
        /\ job' = [job EXCEPT !.policy = policy, !.limit = limit]
        /\ UNCHANGED <<ledgerVars, workVars, submissions, requests, page>>
    BY <1>4 DEF SetRevisionPolicy
  <2>2. TypeOK'
    BY <2>1 DEF IInv, TypeOK, ledgerVars, workVars
  <2> QED
    BY <2>1, <2>2, NothingWritten DEF workVars
<1>5. CASE Dispute
  <2>1. /\ dispute' \in {"none", "open"}
        /\ UNCHANGED <<ledgerVars, row, job, submissions, requests, page>>
    BY <1>5 DEF Dispute
  <2>2. TypeOK'
    BY <2>1 DEF IInv, TypeOK, ledgerVars
  <2>3. \/ job'.status # "selected" /\ job'.policy = job.policy
        \/ job.status = "selected" /\ row' = row /\ requests' = requests
    BY <2>1
  <2> QED
    BY <2>1, <2>2, <2>3, NothingWritten
<1>6. CASE FollowLedger
  <2>1. /\ row' = ledger.status /\ job' = [job EXCEPT !.status = ledger.status]
        /\ UNCHANGED <<ledgerVars, dispute, submissions, requests, page>>
    BY <1>6 DEF FollowLedger
  <2>2. job'.status # "selected" /\ job'.policy = job.policy
    BY <2>1 DEF IInv, TypeOK
  <2>3. TypeOK'
    BY <2>1 DEF IInv, TypeOK, ledgerVars
  <2> QED
    BY <2>1, <2>2, <2>3, NothingWritten
<1> QED
  BY <1>1, <1>2, <1>3, <1>4, <1>5, <1>6

-----------------------------------------------------------------------------
(* The quota.                                                               *)

RequestStatuses ==
    {"none", "requested", "revision_submitted", "accepted", "cancelled"}

Asked(history) == {r \in Requests : history[r] # "none"}

LEMMA NothingAsked ==
    ASSUME NEW history, \A r \in Requests : history[r] = "none"
    PROVE  Cardinality(Asked(history)) = 0
<1>1. Asked(history) = {}
  BY DEF Asked
<1> QED
  BY <1>1, FS_EmptySet

LEMMA OneMoreAsked ==
    ASSUME NEW history \in [Requests -> RequestStatuses], NEW r \in Requests,
           history[r] = "none"
    PROVE  Cardinality(Asked([history EXCEPT ![r] = "requested"]))
             = Cardinality(Asked(history)) + 1
<1>1. IsFiniteSet(Asked(history))
  <2>1. IsFiniteSet(Requests)
    BY DeliveryConstants, FS_Interval DEF Requests
  <2>2. Asked(history) \subseteq Requests
    BY DEF Asked
  <2> QED
    BY <2>1, <2>2, FS_Subset
<1>2. Asked([history EXCEPT ![r] = "requested"]) = Asked(history) \cup {r}
  BY DEF Asked
<1>3. r \notin Asked(history)
  BY DEF Asked
<1> QED
  BY <1>1, <1>2, <1>3, FS_AddElement

\* An answer, an acceptance or a cancellation of a request asks for none.
LEMMA SameAsked ==
    ASSUME TypeOK, NEW r \in Requests, requests[r] # "none",
           NEW status \in {"revision_submitted", "accepted", "cancelled"},
           requests' = [requests EXCEPT ![r] = status]
    PROVE  /\ Asked(requests') = Asked(requests)
           /\ \A other \in Requests :
                requests'[other] = "requested" =>
                  other # r /\ requests[other] = "requested"
BY DEF TypeOK, Asked

LEMMA QuotaFrom ==
    ASSUME job'.count = Cardinality(Asked(requests')),
           job'.policy \in {"none", "fixed", "unlimited"},
           job'.policy = "none" => job'.count = 0,
           job'.policy = "fixed" => job'.count <= job'.limit,
           \A r \in Requests : requests'[r] = "requested" => job'.active = r
    PROVE  RevisionsWithinQuota'
<1>1. CASE job'.policy = "none"
  BY <1>1 DEF RevisionsWithinQuota, Asked, IsActive
<1>2. CASE job'.policy = "fixed"
  BY <1>2 DEF RevisionsWithinQuota, Asked, IsActive
<1>3. CASE job'.policy = "unlimited"
  BY <1>3 DEF RevisionsWithinQuota, Asked, IsActive
<1> QED
  BY <1>1, <1>2, <1>3

LEMMA QuotaUnchanged ==
    ASSUME TypeOK, RevisionsWithinQuota, job'.count = job.count,
           job'.policy = job.policy, job'.limit = job.limit,
           Asked(requests') = Asked(requests),
           \A r \in Requests : requests'[r] = "requested" =>
             requests[r] = "requested" /\ job'.active = r
    PROVE  RevisionsWithinQuota'
<1>1. job.count = Cardinality(Asked(requests))
  BY DEF RevisionsWithinQuota, Asked
<1>2. job'.count = Cardinality(Asked(requests'))
  BY <1>1
<1> QED
  BY <1>2 DEF RevisionsWithinQuota, Asked, IsActive

LEMMA QuotaKept ==
    ASSUME IInv, [Next]_vars
    PROVE  RevisionsWithinQuota'
<1> USE NoneIsNeither
<1>0. TypeOK /\ RevisionsWithinQuota
  BY DEF IInv
<1>1. ASSUME UNCHANGED <<job, requests>>
      PROVE  RevisionsWithinQuota'
  BY <1>0, <1>1 DEF RevisionsWithinQuota, IsActive
<1>2. ASSUME NEW p \in Pages, SubmitMetadata(p)
      PROVE  RevisionsWithinQuota'
  <2> DEFINE revision == submissions[page[p].submission].revision
  <2>1. job'.count = job.count /\ job'.policy = job.policy /\ job'.limit = job.limit
    BY <1>0, <1>2 DEF TypeOK, SubmitMetadata
  <2>2. page[p].submission \in Submissions
    BY <1>2, PageWorks DEF SubmitMetadata
  <2>3. CASE revision = None
    <3>1. requests' = requests /\ job'.active = job.active
      BY <1>0, <1>2, <2>3 DEF TypeOK, SubmitMetadata
    <3> QED
      BY <1>0, <2>1, <3>1, QuotaUnchanged DEF RevisionsWithinQuota, IsActive
  <2>4. CASE revision # None
    <3>1. revision \in Requests /\ requests[revision] = "requested"
      BY <1>0, <1>2, <2>2, <2>4 DEF TypeOK, SubmitMetadata, MaySubmit, IsActive
    <3>2. requests' = [requests EXCEPT ![revision] = "revision_submitted"]
      BY <1>2, <2>4 DEF SubmitMetadata, Answer
    <3>3. \A other \in Requests : requests[other] = "requested" => other = revision
      BY <1>0, <3>1 DEF RevisionsWithinQuota, IsActive
    <3> HIDE DEF revision
    <3> QED
      BY <1>0, <2>1, <3>1, <3>2, <3>3, SameAsked, QuotaUnchanged
  <2> QED
    BY <2>3, <2>4
<1>3. ASSUME NEW s \in Submissions, NEW r \in Requests, RequestRevision(s, r)
      PROVE  RevisionsWithinQuota'
  <2>1. requests[r] = "none" /\ requests \in [Requests -> RequestStatuses]
    BY <1>0, <1>3
    DEF TypeOK, RequestRevision, IsNewRequest, FreeRequests, RequestStatuses
  <2>2. requests' = [requests EXCEPT ![r] = "requested"]
    BY <1>3 DEF RequestRevision
  <2>3. Cardinality(Asked(requests')) = Cardinality(Asked(requests)) + 1
    BY <2>1, <2>2, OneMoreAsked
  <2>4. /\ job'.count = job.count + 1 /\ job'.active = r
        /\ job'.policy = job.policy /\ job'.limit = job.limit
    BY <1>0, <1>3 DEF TypeOK, RequestRevision
  <2>5. \A other \in Requests : requests[other] # "requested"
    BY <1>0, <1>3 DEF RequestRevision, MayRequest, IsActive, RevisionsWithinQuota
  <2>6. \A other \in Requests : requests'[other] = "requested" => other = r
    BY <2>1, <2>2, <2>5
  <2>7. \/ job.policy = "unlimited"
        \/ job.policy = "fixed" /\ job.count < job.limit
    BY <1>0, <1>3 DEF RequestRevision, MayRequest, PreviewEnabled, QuotaLeft
  <2>8. job'.count = Cardinality(Asked(requests'))
    BY <1>0, <2>3, <2>4 DEF RevisionsWithinQuota, Asked
  <2>9. job.count \in Nat /\ job.limit \in Nat
    BY <1>0, DeliveryConstants DEF TypeOK
  <2>10. /\ job'.policy # "none"
         /\ job'.policy = "fixed" => job'.count <= job'.limit
    BY <2>4, <2>7, <2>9
  <2> QED
    BY <1>0, <2>4, <2>6, <2>8, <2>10, QuotaFrom DEF TypeOK
<1>4. ASSUME NEW s \in Submissions, AcceptPreview(s)
      PROVE  RevisionsWithinQuota'
  <2>1. \A r \in Requests : requests[r] # "requested"
    BY <1>0, <1>4 DEF AcceptPreview, MayAccept, IsActive, RevisionsWithinQuota
  <2>2. /\ requests' = requests /\ job'.count = job.count
        /\ job'.policy = job.policy /\ job'.limit = job.limit
    BY <1>0, <1>4 DEF TypeOK, AcceptPreview
  <2> QED
    BY <1>0, <2>1, <2>2, QuotaUnchanged
<1>5. ASSUME NEW policy \in {"none", "fixed", "unlimited"}, NEW limit \in Limits,
             SetRevisionPolicy(policy, limit)
      PROVE  RevisionsWithinQuota'
  <2>1. \A r \in Requests : requests[r] = "none"
    BY <1>5 DEF SetRevisionPolicy, IInv, WorkInv, Untouched
  <2>2. requests' = requests /\ job'.count = job.count /\ job'.policy \in
          {"none", "fixed", "unlimited"} /\ job'.limit \in Limits
    BY <1>0, <1>5 DEF TypeOK, SetRevisionPolicy
  <2>3. job'.count = 0
    BY <1>0, <2>1, <2>2, NothingAsked DEF RevisionsWithinQuota, Asked
  <2>4. Cardinality(Asked(requests')) = 0 /\ job'.limit \in Nat
    BY <2>1, <2>2, NothingAsked, DeliveryConstants
  <2>5. job'.policy = "fixed" => job'.count <= job'.limit
    BY <2>3, <2>4
  <2> QED
    BY <2>1, <2>2, <2>3, <2>4, <2>5, QuotaFrom
<1>6. ASSUME NEW r \in Requests, NEW s \in Submissions, MarkRevisionSubmitted(r, s)
      PROVE  RevisionsWithinQuota'
  <2>1. /\ requests[r] = "requested" /\ job'.count = job.count
        /\ job'.policy = job.policy /\ job'.limit = job.limit
        /\ requests' = [requests EXCEPT ![r] = "revision_submitted"]
    BY <1>0, <1>6 DEF TypeOK, MarkRevisionSubmitted, Answer, IsActive
  <2>2. \A other \in Requests : requests[other] = "requested" => other = r
    BY <1>0, <2>1 DEF RevisionsWithinQuota, IsActive
  <2> QED
    BY <1>0, <2>1, <2>2, SameAsked, QuotaUnchanged
<1>7. ASSUME NEW r \in Requests, AcceptRevision(r)
      PROVE  RevisionsWithinQuota'
  <2>1. /\ requests[r] # "none" /\ job' = job
        /\ requests' = [requests EXCEPT ![r] = "accepted"]
    BY <1>7 DEF AcceptRevision
  <2>2. \A other \in Requests : requests[other] = "requested" => job.active = other
    BY <1>0 DEF RevisionsWithinQuota, IsActive
  <2> QED
    BY <1>0, <2>1, <2>2, SameAsked, QuotaUnchanged
<1>8. ASSUME NEW r \in Requests, CancelRevision(r)
      PROVE  RevisionsWithinQuota'
  <2>1. /\ requests[r] = "requested" /\ job'.count = job.count
        /\ job'.policy = job.policy /\ job'.limit = job.limit
        /\ requests' = [requests EXCEPT ![r] = "cancelled"]
    BY <1>0, <1>8 DEF TypeOK, CancelRevision, IsActive
  <2>2. \A other \in Requests : requests[other] = "requested" => other = r
    BY <1>0, <2>1 DEF RevisionsWithinQuota, IsActive
  <2> QED
    BY <1>0, <2>1, <2>2, SameAsked, QuotaUnchanged
<1>9. ASSUME job'.count = job.count, job'.active = job.active,
             job'.policy = job.policy, job'.limit = job.limit,
             requests' = requests
      PROVE  RevisionsWithinQuota'
  BY <1>0, <1>9, QuotaUnchanged DEF RevisionsWithinQuota, IsActive
<1>10. ASSUME FollowLedger \/ \E p \in Pages : UpdateRow(p)
       PROVE  RevisionsWithinQuota'
  <2>1. requests' = requests
    BY <1>10 DEF FollowLedger, UpdateRow
  <2>2. job' = [job EXCEPT !.status = "submitted"]
          \/ job' = [job EXCEPT !.status = ledger.status]
    BY <1>10 DEF FollowLedger, UpdateRow
  <2>3. /\ job'.count = job.count /\ job'.active = job.active
        /\ job'.policy = job.policy /\ job'.limit = job.limit
    BY <1>0, <2>2 DEF TypeOK
  <2> QED
    BY <1>9, <2>1, <2>3
<1>11. ASSUME NEW p \in Pages, PageStep(p)
       PROVE  RevisionsWithinQuota'
  <2>1. CASE SubmitMetadata(p) \/ UpdateRow(p)
    BY <1>2, <1>10, <2>1
  <2>2. CASE ~SubmitMetadata(p) /\ ~UpdateRow(p)
    <3>1. UNCHANGED <<job, requests>>
      BY <1>11, <2>2 DEF PageStep, Draft, PressAnchor, RetryAnchor, MarkAnchoring,
         Submit, Decline, Confirm, SeeFailure, RecordAnchor, FailRecording,
         ReportFailure, Close
    <3> QED
      BY <1>1, <3>1
  <2> QED
    BY <2>1, <2>2
<1>12. ASSUME \/ \E s \in Submissions : Land(s) \/ Drop(s) \/ CancelDraft(s)
              \/ Dispute \/ MoveLedger \/ vars' = vars
       PROVE  RevisionsWithinQuota'
  <2>1. UNCHANGED <<job, requests>>
    BY <1>12 DEF Land, Drop, CancelDraft, Dispute, MoveLedger, vars
  <2> QED
    BY <1>1, <2>1
<1> QED
  BY <1>3, <1>4, <1>5, <1>6, <1>7, <1>8, <1>10, <1>11, <1>12 DEF Next, RevisionStep

-----------------------------------------------------------------------------
LEMMA InitHolds == ASSUME Init PROVE IInv
<1>1. TypeOK
  BY DEF Init, TypeOK, Blank, Idle
<1>2. WorkInv
  BY NoneIsNeither
  DEF Init, WorkInv, Untouched, PageOK, LedgerOK, AcceptedOK, AnchoredIsOnChain,
      AnchoringIsExclusive, Anchoring, PastReview, Blank, Idle
<1>3. RevisionsWithinQuota
  <2>1. \A r \in Requests : requests[r] = "none"
    BY DEF Init
  <2>2. Cardinality(Asked(requests)) = 0
    BY <2>1, NothingAsked
  <2>3. job.count = 0 /\ job.limit \in Nat
        /\ job.policy \in {"none", "fixed", "unlimited"}
    BY DeliveryConstants DEF Init
  <2>4. job.count = Cardinality(Asked(requests)) /\ job.count <= job.limit
    BY <2>2, <2>3
  <2>5. CASE job.policy = "none"
    BY <2>1, <2>3, <2>4, <2>5 DEF RevisionsWithinQuota, Asked, IsActive
  <2>6. CASE job.policy = "fixed"
    BY <2>1, <2>3, <2>4, <2>6 DEF RevisionsWithinQuota, Asked, IsActive
  <2>7. CASE job.policy = "unlimited"
    BY <2>1, <2>3, <2>4, <2>7 DEF RevisionsWithinQuota, Asked, IsActive
  <2> QED
    BY <2>3, <2>5, <2>6, <2>7
<1> QED
  BY <1>1, <1>2, <1>3 DEF IInv

LEMMA NextKeeps == ASSUME IInv, [Next]_vars PROVE IInv'
<1>1. TypeOK' /\ WorkInv'
  <2>1. ASSUME NEW p \in Pages, PageStep(p) PROVE TypeOK' /\ WorkInv'
    BY <2>1, DraftKeeps, PressAnchorKeeps, SubmitMetadataKeeps, AnchoringKeeps,
       SubmitKeeps, GoingKeeps, UpdateRowKeeps DEF PageStep
  <2>2. CASE RevisionStep
    BY <2>2, ReviewKeeps, RestKeeps DEF RevisionStep
  <2>3. CASE MoveLedger \/ \E s \in Submissions : Land(s) \/ Drop(s)
    BY <2>3, LedgerKeeps
  <2>4. CASE Dispute \/ FollowLedger
    BY <2>4, RestKeeps
  <2>5. CASE vars' = vars
    BY <2>5 DEF vars, ledgerVars, workVars, IInv, TypeOK, WorkInv, Untouched,
       PageOK, LedgerOK, AcceptedOK, AnchoredIsOnChain, AnchoringIsExclusive,
       Anchoring
  <2> QED
    BY <2>1, <2>2, <2>3, <2>4, <2>5 DEF Next
<1>2. RevisionsWithinQuota'
  BY QuotaKept
<1> QED
  BY <1>1, <1>2 DEF IInv

LEMMA Inductive == Spec => []IInv
<1>1. Init => IInv
  BY InitHolds
<1>2. IInv /\ [Next]_vars => IInv'
  BY NextKeeps
<1> QED
  BY <1>1, <1>2, PTL DEF Spec

\* The rows of work, the ledger and the pages keep their types.
THEOREM DeliveryTypes == Spec => []TypeOK
<1>1. IInv => TypeOK
  BY DEF IInv
<1> QED
  BY <1>1, Inductive, PTL

\* Where the policy grants revisions, only what the client accepted gets into
\* the contract, whatever pages, retries, late transactions and disputes do.
THEOREM AcceptedWorkOnly == Spec => []OnlyAcceptedIsAnchored
<1>1. IInv => OnlyAcceptedIsAnchored
  BY DEF IInv, TypeOK, WorkInv, AcceptedOK, OnlyAcceptedIsAnchored
<1> QED
  BY <1>1, Inductive, PTL

\* What is shown as anchored is what the contract holds.
THEOREM AnchoredOnChain == Spec => []AnchoredIsOnChain
<1>1. IInv => AnchoredIsOnChain
  BY DEF IInv, WorkInv
<1> QED
  BY <1>1, Inductive, PTL

\* One submission is at one wallet at a time.
THEOREM AnchoringExclusive == Spec => []AnchoringIsExclusive
<1>1. IInv => AnchoringIsExclusive
  BY DEF IInv, WorkInv
<1> QED
  BY <1>1, Inductive, PTL

\* The revisions asked for are counted and stay within the policy's limit.
THEOREM QuotaHolds == Spec => []RevisionsWithinQuota
<1>1. IInv => RevisionsWithinQuota
  BY DEF IInv
<1> QED
  BY <1>1, Inductive, PTL

-----------------------------------------------------------------------------
(* The ledger as Custody sees it. *)

StageOf(status) ==
    IF status \in {"funded", "submitted"} THEN "held" ELSE status
StageView == [e \in {"escrow"} |-> StageOf(ledger.status)]
WorkerView == [e \in {"escrow"} |-> "freelancer"]

LEMMA DeliveryCustodyStep ==
    ASSUME IInv, [Next]_vars
    PROVE  [Keeping!Next]_(<<StageView, WorkerView>>)
<1> USE DEF Keeping!Move
<1>0. ledger \in [status : {"funded", "submitted", "disputed", "closed"},
                  proof : Submissions \cup {None}]
  BY DEF IInv, TypeOK
<1>1. CASE UNCHANGED ledger
  BY <1>1 DEF StageView, WorkerView
<1>2. ASSUME NEW s \in Submissions, Land(s)
      PROVE  UNCHANGED <<StageView, WorkerView>>
  BY <1>2 DEF Land, StageView, WorkerView, StageOf
<1>3. CASE MoveLedger
  <2>1. \/ ledger.status \in {"funded", "submitted"} /\ ledger'.status = "disputed"
        \/ ledger.status # "closed" /\ ledger'.status = "closed"
    BY <1>0, <1>3 DEF MoveLedger
  <2>2. CASE ledger.status \in {"funded", "submitted"} /\ ledger'.status = "disputed"
    <3>1. Keeping!Dispute("escrow")
      BY <2>2 DEF Keeping!Dispute
    <3> QED  BY <3>1 DEF Keeping!Next
  <2>3. CASE ledger.status # "closed" /\ ledger'.status = "closed"
    <3>1. Keeping!Close("escrow")
      BY <1>0, <2>3 DEF Keeping!Close
    <3> QED  BY <3>1 DEF Keeping!Next
  <2> QED  BY <2>1, <2>2, <2>3
<1>4. ASSUME NEW p \in Pages, PageStep(p)
      PROVE  UNCHANGED ledger
  BY <1>4
  DEF PageStep, Draft, PressAnchor, SubmitMetadata, RetryAnchor, MarkAnchoring,
      Submit, Decline, Confirm, SeeFailure, UpdateRow, RecordAnchor,
      FailRecording, ReportFailure, Close, ledgerVars
<1>5. CASE RevisionStep
  <2>1. UNCHANGED ledger
    BY <1>5
    DEF RevisionStep, RequestRevision, MarkRevisionSubmitted, AcceptPreview,
        CancelDraft, AcceptRevision, CancelRevision, SetRevisionPolicy,
        ledgerVars
  <2> QED  BY <1>1, <2>1
<1>6. ASSUME \/ \E s \in Submissions : Drop(s)
             \/ Dispute \/ FollowLedger \/ UNCHANGED vars
      PROVE  UNCHANGED ledger
  BY <1>6 DEF Drop, Dispute, FollowLedger, vars, ledgerVars
<1> QED  BY <1>1, <1>2, <1>3, <1>4, <1>5, <1>6 DEF Next

\* Submissions, revisions and late proofs move the ledger only as the contract
\* promises: a proof that lands late neither reopens nor un-disputes the escrow.
THEOREM DeliveryKeepsCustody == Spec => KeepsCustody
<1>1. IInv /\ [Next]_vars => [Keeping!Next]_(Keeping!vars)
  BY DeliveryCustodyStep DEF Keeping!vars, StageView, WorkerView, StageOf
<1> QED
  BY <1>1, Inductive, PTL DEF Spec, KeepsCustody, Keeping!Kept

=============================================================================
