--------------------------- MODULE WorkAgreements ---------------------------
(***************************************************************************)
(* How a client hires a freelancer for a micro-gig: the job, its work      *)
(* agreements and their version rows in Convex, and the escrow of the job  *)
(* with the freelancer it names, on the ledger and in its row.  Two paths  *)
(* lead to a commitment: the freelancer is selected first and the escrow   *)
(* is created for him, or the job is posted with a funded open escrow and  *)
(* the freelancer is assigned to it later.                                 *)
(*                                                                         *)
(* A mutation of Convex is one atomic action.  A contract call and the     *)
(* mutation that records it are two, so a recording may come late, after   *)
(* the agreement or the selection has changed, or never.  The statuses of  *)
(* the escrow after funding are EscrowMirror's subject and coarser here.   *)
(***************************************************************************)
EXTENDS Integers

CONSTANTS
    Agreements,    \* ids of workAgreements rows
    Texts,         \* what a client may write, generate or upload as terms
    Freelancers,
    None,
    MaxVersion     \* bound: versions an agreement may reach

VARIABLES
    job,           \* the jobs row: its status and selectedFreelancerWallet
    agreements,    \* the workAgreements rows of the job, or None
    versions,      \* its workAgreementVersions rows
    ledger,        \* the escrow in the contract: is it held, and for whom
    row            \* the escrows row

vars == <<job, agreements, versions, ledger, row>>

-----------------------------------------------------------------------------
EditableStatuses == {"draft", "pending_preview", "ready_to_send"}
AcceptedStatuses == {"accepted", "locked"}
NonBlockingStatuses == {"rejected", "cancelled", "superseded"}
Statuses == EditableStatuses \cup {"pending_acceptance"}
                \cup AcceptedStatuses \cup NonBlockingStatuses

JobStatuses == {"open", "selected", "funded", "submitted", "disputed",
                "completed", "cancelled"}

Deals == [text : Texts, freelancer : Freelancers]

AgreementRows ==
    [status : Statuses, kind : {"generated", "uploaded", "fileless"},
     version : 1..MaxVersion, text : Texts \cup {None},
     freelancer : Freelancers \cup {None}, escrow : BOOLEAN,
     snapshot : Deals \cup {None}]

ASSUME WorkAgreementsConstants ==
    /\ None \notin Texts \cup Freelancers
    /\ None \notin AgreementRows
    /\ None \notin [text : Texts, freelancer : Freelancers, status : AcceptedStatuses]
    /\ MaxVersion \in Nat \ {0}

Existing == {a \in Agreements : agreements[a] # None}

\* getActiveAgreementByJob sorts these and takes the first: OneActiveAgreement
\* shows that there is never more than one.
Active == {a \in Existing : agreements[a].status \notin NonBlockingStatuses}

\* getAcceptedAgreementForJob
Accepted == {a \in Existing : agreements[a].status \in AcceptedStatuses}

\* isLegacyAgreementExempt
IsLegacyAgreementExempt ==
    job.status \in {"submitted", "completed", "cancelled", "disputed"}

\* assertAgreementAcceptedForWorkStart
MayStartWork ==
    \/ IsLegacyAgreementExempt
    \/ \E a \in Active : agreements[a].status \in AcceptedStatuses

\* assertAgreementLockedForProofSubmission
MaySubmitProof ==
    \/ IsLegacyAgreementExempt
    \/ \E a \in Active : agreements[a].status = "locked"

Init ==
    /\ job = [status |-> "open", freelancer |-> None]
    /\ agreements = [a \in Agreements |-> None]
    /\ versions = {}
    /\ ledger = [status |-> "none", freelancer |-> None]
    /\ row = [status |-> "none", freelancer |-> None]

-----------------------------------------------------------------------------
(* Drafting, by the client.                                                 *)

\* buildBaseAgreementFields
NewAgreement(kind, status, text, version) ==
    [status |-> status, kind |-> kind, version |-> version, text |-> text,
     freelancer |-> job.freelancer, escrow |-> row.status # "none",
     snapshot |-> None]

\* A mutant: another agreement of the job is not looked for.
CreateAnother(a) ==
    /\ a \notin Existing
    /\ \E text \in Texts :
         agreements' = [agreements EXCEPT ![a] =
                          NewAgreement("generated", "pending_preview", text, 1)]
    /\ UNCHANGED <<job, versions, ledger, row>>

\* createWorkAgreementDraft (an uploaded one has no file then, and never gets
\* one), generateHighrableWorkAgreement and createClientUploadedAgreement.
Create(a) ==
    /\ a \notin Existing /\ Active = {}
    /\ agreements' \in
         {[agreements EXCEPT ![a] = NewAgreement("generated", "draft", None, 1)],
          [agreements EXCEPT ![a] = NewAgreement("fileless", "draft", None, 1)]}
         \cup {[agreements EXCEPT ![a] =
                  NewAgreement(kind, "pending_preview", text, 1)] :
                  kind \in {"generated", "uploaded"}, text \in Texts}
    /\ UNCHANGED <<job, versions, ledger, row>>

\* assertCanEditWorkAgreement
MayEdit(a) == a \in Existing /\ agreements[a].status \in EditableStatuses

\* regenerateHighrableWorkAgreement
Regenerate(a, text) ==
    /\ MayEdit(a) /\ agreements[a].kind = "generated"
    /\ agreements[a].version < MaxVersion
    /\ agreements' = [agreements EXCEPT ![a].version = @ + 1,
                                        ![a].text = text]
    /\ UNCHANGED <<job, versions, ledger, row>>

\* updateWorkAgreementDraft: the version stays as it is.
UpdateDraft(a, text) ==
    /\ MayEdit(a)
    /\ agreements' = [agreements EXCEPT ![a].text = text]
    /\ UNCHANGED <<job, versions, ledger, row>>

\* What markWorkAgreementReadyToSend and assertCanSendAgreement ask of the
\* terms: a text, or a file for an uploaded agreement.
IsPrepared(a) ==
    /\ agreements[a].kind # "fileless"
    /\ agreements[a].text # None

\* markWorkAgreementReadyToSend, which may also skip the sending.
MarkReadyToSend(a, status) ==
    /\ MayEdit(a) /\ IsPrepared(a)
    /\ agreements' = [agreements EXCEPT ![a].status = status]
    /\ UNCHANGED <<job, versions, ledger, row>>

\* sendAgreementForAcceptance; a generated agreement that names another
\* freelancer and was not edited since is generated anew.
Send(a, text) ==
    /\ MayEdit(a) /\ IsPrepared(a)
    /\ job.freelancer # None
    /\ agreements[a].freelancer \in {None, job.freelancer}
    /\ text = agreements[a].text \/ agreements[a].kind = "generated"
    /\ agreements' = [agreements EXCEPT ![a].status = "pending_acceptance",
                                        ![a].freelancer = job.freelancer,
                                        ![a].text = text]
    /\ UNCHANGED <<job, versions, ledger, row>>

-----------------------------------------------------------------------------
(* The freelancer's answer.                                                 *)

RowOf(a) == {v \in versions : v.agreement = a
                              /\ v.number = agreements[a].version}

\* ensureAgreementVersionForAgreement and buildAgreementVersionFromAgreement:
\* a row that is there already is kept as it is.
EnsureVersion(a, status, snapshot) ==
    IF RowOf(a) # {} THEN versions
    ELSE versions \cup {[agreement |-> a, number |-> agreements[a].version,
                         status |-> status, text |-> agreements[a].text,
                         snapshot |-> snapshot]}

\* assertCanAcceptAgreement and assertCanRejectAgreement: the agreement's own
\* freelancer; the selection of the job is not looked at.
MayAnswer(a, f) ==
    /\ a \in Existing /\ agreements[a].status = "pending_acceptance"
    /\ agreements[a].freelancer = f

\* buildAgreementImmutableSnapshot and its hash stand for each other.
Snapshot(a, f) == [text |-> agreements[a].text, freelancer |-> f]

\* acceptWorkAgreement
Accept(a, f) ==
    /\ MayAnswer(a, f)
    /\ agreements' = [agreements EXCEPT ![a].status = "accepted",
                                        ![a].snapshot = Snapshot(a, f)]
    /\ versions' = EnsureVersion(a, "accepted", Snapshot(a, f))
    /\ UNCHANGED <<job, ledger, row>>

\* rejectWorkAgreement
Reject(a, f) ==
    /\ MayAnswer(a, f)
    /\ agreements' = [agreements EXCEPT ![a].status = "rejected"]
    /\ UNCHANGED <<job, versions, ledger, row>>

-----------------------------------------------------------------------------
(* After a rejection, or instead of a commitment: the client again.         *)

\* reviseRejectedAgreement: a new row continues the versions of the old one,
\* with its text or a new file.
Revise(a, b, text) ==
    LET old == agreements[a]
    IN  /\ a \in Existing /\ old.status = "rejected" /\ b \notin Existing
        /\ Active = {}
        /\ old.freelancer # None /\ job.freelancer = old.freelancer
        /\ old.version < MaxVersion
        /\ text = old.text \/ old.kind = "uploaded"
        /\ agreements' = [agreements EXCEPT
              ![a].status = "superseded",
              ![b] = NewAgreement(old.kind, "pending_preview", text,
                                  old.version + 1)]
        /\ UNCHANGED <<job, versions, ledger, row>>

\* A mutant: the replacement of the rejected agreement is not looked for.
AbandonAnyway(a) ==
    /\ a \in Existing /\ agreements[a].status = "rejected"
    /\ agreements' = [agreements EXCEPT ![a].status = "cancelled"]
    /\ job' = IF job.status = "selected"
                THEN [status |-> "open", freelancer |-> None] ELSE job
    /\ UNCHANGED <<versions, ledger, row>>

\* abandonRejectedAgreement
Abandon(a) ==
    /\ a \in Existing /\ agreements[a].status = "rejected"
    /\ Active = {}
    /\ agreements' = [agreements EXCEPT ![a].status = "cancelled"]
    /\ job' = IF job.status = "selected"
                THEN [status |-> "open", freelancer |-> None] ELSE job
    /\ UNCHANGED <<versions, ledger, row>>

\* A mutant: whatever is in play can be cancelled before the funding shows.
CancelActive(a) ==
    /\ a \in Active
    /\ job.status \notin {"funded", "submitted"}
    /\ agreements' = [agreements EXCEPT ![a].status = "cancelled"]
    /\ UNCHANGED <<job, versions, ledger, row>>

\* cancelWorkAgreementDraft and cancelPendingAgreement: an accepted agreement
\* is kept once the job or the escrow it is linked to shows the funding.
Cancel(a) ==
    /\ a \in Existing
    /\ agreements[a].status \in
         EditableStatuses \cup {"pending_acceptance", "accepted"}
    /\ agreements[a].status = "accepted" =>
         /\ job.status \notin {"funded", "submitted"}
         /\ agreements[a].escrow => row.status # "funded"
    /\ agreements' = [agreements EXCEPT ![a].status = "cancelled"]
    /\ UNCHANGED <<job, versions, ledger, row>>

-----------------------------------------------------------------------------
(* The lock.                                                                *)

\* A mutant: the version row is only looked for.
LockWithoutVersion(a, linked) ==
    /\ agreements' = [agreements EXCEPT ![a].status = "locked",
                                        ![a].escrow = @ \/ linked]
    /\ versions' = EnsureVersion(a, "locked", agreements[a].snapshot)

\* lockWorkAgreementForCommitment
LockForCommitment(a, linked) ==
    /\ agreements' = [agreements EXCEPT ![a].status = "locked",
                                        ![a].escrow = @ \/ linked]
    /\ versions' =
         {IF v \in RowOf(a) THEN [v EXCEPT !.status = "locked"] ELSE v :
            v \in EnsureVersion(a, "locked", agreements[a].snapshot)}

\* lockWorkAgreement
Lock(a) ==
    /\ a \in Existing /\ agreements[a].status = "accepted"
    /\ LockForCommitment(a, FALSE)
    /\ UNCHANGED <<job, ledger, row>>

\* lockAcceptedAgreementForJob, within the mutations that record a funding.
LockOnFunding ==
    IF \E a \in Accepted : agreements[a].status = "accepted"
      THEN \E a \in Accepted : LockForCommitment(a, TRUE)
      ELSE UNCHANGED <<agreements, versions>>

\* createAgreementVersionFromLockedAgreement
Materialize(a) ==
    /\ a \in Accepted
    /\ versions' = EnsureVersion(a, agreements[a].status,
                                 agreements[a].snapshot)
    /\ UNCHANGED <<job, agreements, ledger, row>>

-----------------------------------------------------------------------------
(* The job and its escrow.                                                  *)

\* selectFreelancer
SelectFreelancer(f) ==
    /\ job.status = "open"
    /\ job' = [status |-> "selected", freelancer |-> f]
    /\ UNCHANGED <<agreements, versions, ledger, row>>

\* createEscrow of the escrow panel: create_escrow for the selected freelancer.
CreateEscrow ==
    /\ job.status = "selected" /\ ledger.status = "none"
    /\ ledger' = [status |-> "created", freelancer |-> job.freelancer]
    /\ UNCHANGED <<job, agreements, versions, row>>

\* assertEscrowCreationAllowed, for an escrow that names a freelancer.
CreationAllowed == row.status = "none" /\ job.freelancer = ledger.freelancer

\* createEscrowRecord, status "created"
RecordCreation ==
    /\ ledger.status \in {"created", "held"} /\ ledger.freelancer # None
    /\ CreationAllowed
    /\ row' = [status |-> "created", freelancer |-> ledger.freelancer]
    /\ UNCHANGED <<job, agreements, versions, ledger>>

\* runAtomicOpenEscrowPosting: create_and_fund_open_escrow with the posting.
PostFunded ==
    /\ job.status = "open" /\ job.freelancer = None /\ ledger.status = "none"
    /\ ledger' = [status |-> "held", freelancer |-> None]
    /\ UNCHANGED <<job, agreements, versions, row>>

\* createEscrowRecord, status "funded", of an escrow without a freelancer.
RecordPosting ==
    /\ ledger = [status |-> "held", freelancer |-> None]
    /\ row.status = "none"
    /\ job.freelancer # None => MayStartWork
    /\ row' = [status |-> "funded", freelancer |-> None]
    /\ job' = [job EXCEPT !.status = "funded"]
    /\ LockOnFunding
    /\ UNCHANGED ledger

\* fundEscrow of the escrow panel
Fund ==
    /\ row.status = "created" /\ ledger.status = "created"
    /\ ledger' = [ledger EXCEPT !.status = "held"]
    /\ UNCHANGED <<job, agreements, versions, row>>

\* updateEscrowStatus, status "funded"; refused without an accepted agreement.
RecordFunding ==
    /\ ledger.status = "held" /\ row.status = "created"
    /\ MayStartWork
    /\ row' = [row EXCEPT !.status = "funded"]
    /\ job' = [job EXCEPT !.status = "funded"]
    /\ LockOnFunding
    /\ UNCHANGED ledger

\* applyEscrowStatusSync of a funded escrow: the agreement is left alone.
SyncFunding ==
    /\ ledger.status = "held" /\ row.status = "created"
    /\ row' = [row EXCEPT !.status = "funded"]
    /\ job' = [job EXCEPT !.status = "funded"]
    /\ UNCHANGED <<agreements, versions, ledger>>

\* assignPreFundedEscrow: assign_freelancer of a posted escrow ...
Assign(f) ==
    /\ job.status = "funded" /\ job.freelancer = None
    /\ row = [status |-> "funded", freelancer |-> None]
    /\ ledger = [status |-> "held", freelancer |-> None]
    /\ ledger' = [ledger EXCEPT !.freelancer = f]
    /\ UNCHANGED <<job, agreements, versions, row>>

\* ... and assignFreelancerToEscrow, which looks at the escrow row only.
RecordAssignment ==
    /\ row.status # "none" /\ row.freelancer = None
    /\ ledger.freelancer # None
    /\ row' = [row EXCEPT !.freelancer = ledger.freelancer]
    /\ job' = [status |-> IF row.status = "funded" THEN "funded"
                                                   ELSE "selected",
               freelancer |-> ledger.freelancer]
    /\ UNCHANGED <<agreements, versions, ledger>>

\* createWorkSubmissionDraft and what follows it, up to the recorded proof:
\* the panel shows to the selected freelancer, the server asks for the one of
\* the row and the contract for its own.
SubmitProof ==
    /\ row.status = "funded" /\ ledger.status = "held"
    /\ job.freelancer # None
    /\ row.freelancer = job.freelancer /\ ledger.freelancer = job.freelancer
    /\ MaySubmitProof
    /\ row' = [row EXCEPT !.status = "submitted"]
    /\ job' = [job EXCEPT !.status = "submitted"]
    /\ UNCHANGED <<agreements, versions, ledger>>

\* A dispute of a hold that has a freelancer, marked and recorded.
Dispute ==
    /\ row.status \in {"funded", "submitted"} /\ row.freelancer # None
    /\ row' = [row EXCEPT !.status = "disputed"]
    /\ job' = [job EXCEPT !.status = "disputed"]
    /\ UNCHANGED <<agreements, versions, ledger>>

\* The escrow is released, refunded or cancelled, and that is recorded.
Close(status) ==
    /\ \/ status = "completed" /\ row.status \in {"submitted", "disputed"}
       \/ status = "cancelled" /\ row.status \in {"created", "funded",
                                                  "disputed"}
    /\ ledger' = [ledger EXCEPT !.status = "closed"]
    /\ row' = [row EXCEPT !.status = "closed"]
    /\ job' = [job EXCEPT !.status = status]
    /\ UNCHANGED <<agreements, versions>>

-----------------------------------------------------------------------------
ClientStep(a) ==
    \/ Create(a) \/ Cancel(a) \/ Abandon(a) \/ Lock(a) \/ Materialize(a)
    \/ \E text \in Texts :
         \/ Regenerate(a, text) \/ UpdateDraft(a, text) \/ Send(a, text)
         \/ \E b \in Agreements : Revise(a, b, text)
    \/ \E status \in {"ready_to_send", "pending_acceptance"} :
         MarkReadyToSend(a, status)

FreelancerStep(f) ==
    \/ \E a \in Agreements : Accept(a, f) \/ Reject(a, f)
    \/ SelectFreelancer(f)
    \/ Assign(f)

EscrowStep ==
    \/ CreateEscrow \/ RecordCreation \/ PostFunded \/ RecordPosting
    \/ Fund \/ RecordFunding \/ SyncFunding \/ RecordAssignment
    \/ SubmitProof \/ Dispute
    \/ \E status \in {"completed", "cancelled"} : Close(status)

Next ==
    \/ \E a \in Agreements : ClientStep(a)
    \/ \E f \in Freelancers : FreelancerStep(f)
    \/ EscrowStep

Spec == Init /\ [][Next]_vars

-----------------------------------------------------------------------------
(* Properties.                                                              *)

\* Type invariant: what is sent, accepted and kept as a version always has
\* terms and a freelancer (assertCanSendAgreement, assertCanAcceptAgreement).
TypeOK ==
    /\ job \in [status : JobStatuses, freelancer : Freelancers \cup {None}]
    /\ agreements \in [Agreements -> AgreementRows \cup {None}]
    /\ versions \subseteq
         [agreement : Agreements, number : 1..MaxVersion,
          status : AcceptedStatuses, text : Texts, snapshot : Deals]
    /\ ledger \in [status : {"none", "created", "held", "closed"},
                   freelancer : Freelancers \cup {None}]
    /\ row \in [status : {"none", "created", "funded", "submitted",
                          "disputed", "closed"},
                freelancer : Freelancers \cup {None}]

\* Creation and revision each insert a row, and neither leaves the job with
\* two agreements in play, of which the guards would look at one only.
OneActiveAgreement == \A a, b \in Active : a = b

\* acceptWorkAgreement never looks at the selection, and still an agreement
\* in play is with the freelancer the job has selected: the selection cannot
\* change under it, by an abandoned rejection or by a late assignment.
CommittedToTheSelected ==
    \A a \in Active : agreements[a].freelancer # None =>
        agreements[a].freelancer = job.freelancer

\* The row, the hashed snapshot and the version row hold the same terms from
\* the acceptance on, and there is exactly one version row: the evidence that
\* reviews and disputes cite is what the freelancer accepted.
AcceptedCopiesAgree ==
    \A a \in Accepted :
        /\ agreements[a].snapshot =
             [text |-> agreements[a].text,
              freelancer |-> agreements[a].freelancer]
        /\ RowOf(a) =
             {[agreement |-> a, number |-> agreements[a].version,
               status |-> agreements[a].status, text |-> agreements[a].text,
               snapshot |-> agreements[a].snapshot]}

DealOf(a) ==
    IF a \in Accepted
      THEN [text |-> agreements[a].text,
            freelancer |-> agreements[a].freelancer,
            status |-> agreements[a].status]
      ELSE None

Promise == INSTANCE AgreedTerms WITH deal <- [a \in Agreements |-> DealOf(a)]

\* The handlers implement AgreedTerms: no draft, regeneration, revision, late
\* funding or second lock changes what was accepted, no second agreement is
\* accepted beside it, and what is locked stays.
KeepsTheDeal == Promise!Spec

\* Proof is recorded under a locked agreement of the freelancer who delivers
\* it (assertAgreementLockedForProofSubmission looks at the status only).
ProofUnderOwnAgreement ==
    [][job.status = "funded" /\ job'.status = "submitted" =>
         \E a \in Active : /\ agreements[a].status = "locked"
                           /\ agreements[a].freelancer = row.freelancer]_vars

\* The view of the ledger in this module, where "held" includes a dispute.
Keeping == INSTANCE Custody WITH
    Escrows <- {"escrow"}, Workers <- Freelancers, Nobody <- None,
    stage  <- [e \in {"escrow"} |->
                 IF ledger.status = "created" THEN "open" ELSE ledger.status],
    worker <- [e \in {"escrow"} |-> ledger.freelancer]

\* On both paths, a freelancer selected first or assigned to an escrow funded
\* before, the ledger of this module moves as the contract promises, although
\* the steps are taken by what the rows say.
KeepsCustody == Keeping!Spec

=============================================================================
