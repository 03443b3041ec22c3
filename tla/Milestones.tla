------------------------------ MODULE Milestones ------------------------------
(***************************************************************************)
(* A project of milestones done one after the other.  A milestone takes a  *)
(* freelancer, each with an escrow of its own, only when the one before it *)
(* is paid; the client may first offer it to the freelancer of the one     *)
(* before, who accepts or rejects, or open it to others.                   *)
(*                                                                         *)
(* Pages of both parties make the calls to the ledger and record them      *)
(* afterwards, so a recording can be late, overtaken by a sync or by       *)
(* another page's, or never made.  The status of a milestone is written by *)
(* recordings, syncs, settlements, cancellations and previews of work, and *)
(* the status of the project is derived from it in some of these.          *)
(*                                                                         *)
(* Amounts, deadlines, applications, the work agreement and the revisions  *)
(* of a proof are left out, and so is the acceptance of a preview; a       *)
(* dispute is opened at most once for a milestone.                         *)
(***************************************************************************)
EXTENDS Integers, FiniteSets

CONSTANTS
    Pages,           \* open pages of either party
    Freelancers,
    MaxMilestones,   \* bound: how many milestones the project gets
    MaxEscrows,      \* bound: how many escrows are created for it
    None

ASSUME MilestoneConstants ==
    /\ MaxMilestones \in Nat \ {0} /\ MaxEscrows \in Nat
    /\ None \notin Nat /\ None \notin Freelancers

Milestones == 1 .. MaxMilestones
Escrows == 1 .. MaxEscrows

VARIABLES
    job,          \* the status of the project
    milestones,   \* the milestones rows; "none" where there is no row yet
    rows,         \* the escrows row of each milestone
    disputes,     \* the dispute of each milestone
    ledger,       \* the escrows in the contract, with the statuses they had
    page          \* the call each page is making

backendVars == <<job, milestones, rows, disputes>>
vars == <<backendVars, ledger, page>>

-----------------------------------------------------------------------------
\* With a fixed number of revisions, the default, a proof is a preview first.
RevisionPolicy == {"none", "fixed"}

Blank == [status |-> "none", gate |-> "locked", freelancer |-> None,
          offered |-> None, proof |-> "none", revisionPolicy |-> "none"]
NoRow == [escrow |-> None, status |-> "none"]
NoEscrow == [status |-> "none", past |-> {}, milestone |-> None,
             freelancer |-> None]
Idle == [step |-> "idle", call |-> "none", milestone |-> None, escrow |-> None]

\* createMilestoneProject: only the first milestone takes applications.
Init ==
    /\ job = "open"
    /\ \E size \in Milestones, policy \in [Milestones -> RevisionPolicy] :
         milestones = [m \in Milestones |->
           IF m > size THEN Blank
           ELSE [Blank EXCEPT !.status = "open",
                              !.gate = IF m = 1 THEN "open" ELSE "locked",
                              !.revisionPolicy = policy[m]]]
    /\ rows = [m \in Milestones |-> NoRow]
    /\ disputes = [m \in Milestones |-> "none"]
    /\ ledger = [e \in Escrows |-> NoEscrow]
    /\ page = [p \in Pages |-> Idle]

-----------------------------------------------------------------------------
(* The status of the project and the gate of a milestone.                   *)

Terminal == {"released", "cancelled"}

\* A mutant: one finished milestone finishes the project.
DeriveBySome(rowsOf) ==
    LET statuses == {rowsOf[m].status : m \in Milestones} \ {"none"}
    IN  CASE "disputed" \in statuses    -> "disputed"
          [] statuses = {"cancelled"}   -> "cancelled"
          [] "disputed" \notin statuses /\ statuses \cap Terminal # {}
               /\ statuses # {"cancelled"} -> "completed"
          [] OTHER -> "open"

\* deriveMilestoneProjectJobStatus
DeriveStatus(rowsOf) ==
    LET statuses == {rowsOf[m].status : m \in Milestones} \ {"none"}
    IN  IF "disputed" \in statuses            THEN "disputed"
        ELSE IF statuses = {"cancelled"}      THEN "cancelled"
        ELSE IF statuses \subseteq Terminal   THEN "completed"
        ELSE IF "submitted" \in statuses      THEN "submitted"
        ELSE IF "funded" \in statuses         THEN "funded"
        ELSE IF statuses \cap {"assigned", "escrow_created"} # {}
                                              THEN "selected"
        ELSE "open"

\* A mutant: a cancelled milestone makes room for the next.
PreviousIsOver(m) == m > 1 => milestones[m - 1].status \in Terminal

PreviousIsPaid(m) == m > 1 => milestones[m - 1].status = "released"

\* deriveMilestoneApplicationGate, where canApply
CanApply(m) ==
    /\ milestones[m].status = "open" /\ PreviousIsPaid(m)
    /\ milestones[m].gate \in
         IF m = 1 THEN {"open"} ELSE {"open", "continuation_rejected"}

\* patchParentJobStatusForMilestoneProject after a milestone is written
PutAndDerive(m, milestone) ==
    LET written == [milestones EXCEPT ![m] = milestone]
    IN  milestones' = written /\ job' = DeriveStatus(written)

\* patchMilestoneForEscrowStatus, with the escrows row
PatchForEscrow(m, status) ==
    /\ rows' = [rows EXCEPT ![m].status = status]
    /\ PutAndDerive(m, [milestones[m] EXCEPT !.status =
                          IF status = "created" THEN "escrow_created" ELSE status])

-----------------------------------------------------------------------------
(* The client and the freelancers agree on who does a milestone.            *)

\* addMilestoneToProject, which derives nothing
AddMilestone(m) ==
    /\ milestones[m].status = "none" /\ milestones[m - 1].status # "none"
    /\ job \notin {"completed", "cancelled"}
    /\ \E policy \in RevisionPolicy :
         milestones' = [milestones EXCEPT ![m].status = "open",
                                          ![m].revisionPolicy = policy]
    /\ UNCHANGED <<job, rows, disputes, ledger, page>>

\* assignFreelancerToMilestone and assignFreelancerToMultipleMilestones: the
\* loop fails as a whole, and an assignment opens no other gate.
Assign(group, f) ==
    LET written == [m \in Milestones |->
          IF m \in group THEN [milestones[m] EXCEPT !.status = "assigned",
                                                    !.gate = "closed",
                                                    !.freelancer = f]
                         ELSE milestones[m]]
    IN  /\ \A m \in group : CanApply(m)
        /\ milestones' = written /\ job' = DeriveStatus(written)
        /\ UNCHANGED <<rows, disputes, ledger, page>>

\* offerMilestoneContinuation, by which the freelancer before may stay
OfferContinuation(m) ==
    /\ m > 1 /\ milestones[m].status = "open" /\ PreviousIsPaid(m)
    /\ milestones[m].gate = "locked"
    /\ milestones[m - 1].freelancer # None
    /\ milestones' = [milestones EXCEPT
                        ![m].gate = "continuation_pending",
                        ![m].offered = milestones[m - 1].freelancer]
    /\ UNCHANGED <<job, rows, disputes, ledger, page>>

\* A mutant: applications are opened over a pending offer.
OpenAtOnce(m) ==
    /\ milestones[m].status = "open" /\ PreviousIsPaid(m)
    /\ milestones' = [milestones EXCEPT ![m].gate = "open",
                                        ![m].offered = None]
    /\ UNCHANGED <<job, rows, disputes, ledger, page>>

\* openMilestoneForReplacement
OpenForReplacement(m) ==
    /\ milestones[m].status = "open" /\ PreviousIsPaid(m)
    /\ milestones[m].gate # "continuation_pending"
    /\ milestones' = [milestones EXCEPT ![m].gate = "open",
                                        ![m].offered = None]
    /\ UNCHANGED <<job, rows, disputes, ledger, page>>

HasOffer(m, f) ==
    /\ milestones[m].status = "open"
    /\ milestones[m].gate = "continuation_pending" /\ milestones[m].offered = f

\* respondToMilestoneContinuation, which does not look at the milestone before
AcceptContinuation(m, f) ==
    /\ HasOffer(m, f)
    /\ PutAndDerive(m, [milestones[m] EXCEPT !.status = "assigned",
                                             !.gate = "closed",
                                             !.freelancer = f])
    /\ UNCHANGED <<rows, disputes, ledger, page>>

RejectContinuation(m, f) ==
    /\ HasOffer(m, f)
    /\ milestones' = [milestones EXCEPT ![m].gate = "continuation_rejected"]
    /\ UNCHANGED <<job, rows, disputes, ledger, page>>

-----------------------------------------------------------------------------
(* A page makes a call.  A call is named for the status it leads to.        *)

Linked(m) == rows[m].escrow # None

\* What the panel of a milestone and the page of its dispute offer.  The
\* panel shows the step only where the milestone and the row agree.
Offers(m, call) ==
    LET row == rows[m].status
        status == milestones[m].status
        paused == disputes[m] = "active"
    IN  CASE call = "created"   -> status = "assigned" /\ ~Linked(m)
          [] call = "funded"    -> status = "escrow_created" /\ row = "created"
          [] call = "proof"     -> status = "funded" /\ row = "funded" /\ ~paused
          [] call = "submitted" -> /\ status = "funded" /\ row = "funded"
                                   /\ milestones[m].proof = "some"
          [] call = "released"  -> /\ status = "submitted" /\ row = "submitted"
                                   /\ ~paused
          [] call = "cancelled" -> /\ \/ status = "escrow_created" /\ row = "created"
                                      \/ status = "funded" /\ row = "funded"
                                   /\ ~paused /\ milestones[m].proof = "none"
          [] call = "disputed"  -> row \in {"funded", "submitted"} /\ paused

LedgerCalls ==
    {"created", "funded", "submitted", "released", "cancelled", "disputed"}
Calls == LedgerCalls \cup {"proof"}

Press(p, m, call) ==
    /\ page[p] = Idle /\ Offers(m, call)
    /\ page' = [page EXCEPT ![p] =
         [step |-> IF call = "proof" THEN "recording" ELSE "calling",
          call |-> call, milestone |-> m, escrow |-> rows[m].escrow]]
    /\ UNCHANGED <<backendVars, ledger>>

\* From which statuses the contract goes to one.
Before ==
    [funded |-> {"created"}, submitted |-> {"funded"},
     released |-> {"submitted"}, cancelled |-> {"created", "funded"},
     disputed |-> {"funded", "submitted"}]

Enter(e, status) ==
    ledger' = [ledger EXCEPT ![e].status = status,
                             ![e].past = @ \cup {status}]

\* create_escrow, for the freelancer the page shows
CreateOnLedger(p, e) ==
    LET m == page[p].milestone
    IN  /\ page[p].step = "calling" /\ page[p].call = "created"
        /\ ledger[e].status = "none"
        /\ e > 1 => ledger[e - 1].status # "none"
        /\ ledger' = [ledger EXCEPT ![e] =
             [status |-> "created", past |-> {"created"}, milestone |-> m,
              freelancer |-> milestones[m].freelancer]]
        /\ page' = [page EXCEPT ![p].step = "recording", ![p].escrow = e]
        /\ UNCHANGED backendVars

CallLedger(p) ==
    LET e == page[p].escrow
        call == page[p].call
    IN  /\ page[p].step = "calling" /\ call \in DOMAIN Before
        /\ ledger[e].status \in Before[call]
        /\ Enter(e, call)
        /\ page' = [page EXCEPT ![p].step = "recording"]
        /\ UNCHANGED backendVars

\* A mutant: only the freelancer is compared when an escrow is recorded.
MayRecordAny(p) ==
    milestones[page[p].milestone].freelancer
        = ledger[page[p].escrow].freelancer

MayRecord(p) ==
    LET m == page[p].milestone
    IN  /\ milestones[m].status = "assigned" /\ ~Linked(m)
        /\ milestones[m].freelancer = ledger[page[p].escrow].freelancer

Stop(p) == page' = [page EXCEPT ![p] = Idle]

\* createMilestoneEscrowRecord
RecordEscrow(p) ==
    LET m == page[p].milestone
    IN  /\ page[p].step = "recording" /\ page[p].call = "created" /\ MayRecord(p)
        /\ rows' = [rows EXCEPT ![m] = [escrow |-> page[p].escrow,
                                        status |-> "created"]]
        /\ PutAndDerive(m, [milestones[m] EXCEPT !.status = "escrow_created"])
        /\ Stop(p)
        /\ UNCHANGED <<disputes, ledger>>

\* updateMilestoneEscrowStatus, whatever the row was, or the success of a
\* cancellation or a marking
RecordStatus(p) ==
    LET m == page[p].milestone
        call == page[p].call
    IN  /\ page[p].step = "recording" /\ call \in DOMAIN Before
        /\ call = "released" => disputes[m] # "active"
        /\ PatchForEscrow(m, call)
        /\ Stop(p)
        /\ UNCHANGED <<disputes, ledger>>

\* submitWorkProofMetadata of a draft made when the escrow was funded: a
\* preview is written to the milestone whatever has become of it.
RecordProof(p) ==
    LET m == page[p].milestone
        preview == milestones[m].revisionPolicy = "fixed"
    IN  /\ page[p].step = "recording" /\ page[p].call = "proof"
        /\ milestones' = [milestones EXCEPT
             ![m].status = IF preview THEN "submitted" ELSE @,
             ![m].proof = "some"]
        /\ Stop(p)
        /\ UNCHANGED <<job, rows, disputes, ledger>>

\* The wallet, the ledger or the backend refuses, or the page is closed.
Close(p) ==
    /\ page[p] # Idle /\ Stop(p)
    /\ UNCHANGED <<backendVars, ledger>>

-----------------------------------------------------------------------------
(* What else writes a milestone.                                            *)

Rank == [none |-> 0, created |-> 1, funded |-> 2, submitted |-> 3,
         released |-> 4, cancelled |-> 4, disputed |-> 4]

\* applyEscrowStatusSync of a status read before, only forwards
Sync(m, status) ==
    /\ Linked(m) /\ status \in ledger[rows[m].escrow].past
    /\ Rank[rows[m].status] < 4 /\ Rank[rows[m].status] < Rank[status]
    /\ PatchForEscrow(m, status)
    /\ UNCHANGED <<disputes, ledger, page>>

\* createCancellationRequest that needs no ledger, by the row of the escrow
\* and the status of the milestone: nothing is derived for the project.  The
\* panel of a milestone shows no button for it.
CancelOffLedger(m) ==
    /\ milestones[m].status # "none" /\ disputes[m] # "active"
    /\ milestones[m].proof = "none"
    /\ rows[m].status \in {"none", "disputed"}
    /\ milestones[m].freelancer = None \/ ~Linked(m)
         \/ milestones[m].status \notin {"funded", "submitted"}
    /\ milestones' = [milestones EXCEPT ![m].status = "cancelled"]
    /\ UNCHANGED <<job, rows, disputes, ledger, page>>

\* createDispute from the panel, and a party's withdrawal of it
OpenDispute(m) ==
    /\ disputes[m] = "none" /\ rows[m].status \in {"funded", "submitted"}
    /\ milestones[m].status = rows[m].status
    /\ disputes' = [disputes EXCEPT ![m] = "active"]
    /\ UNCHANGED <<job, milestones, rows, ledger, page>>

WithdrawDispute(m) ==
    /\ disputes[m] = "active"
    /\ disputes' = [disputes EXCEPT ![m] = "withdrawn"]
    /\ UNCHANGED <<job, milestones, rows, ledger, page>>

\* resolve_dispute
Settle(e, status) ==
    /\ ledger[e].status = "disputed"
    /\ disputes[ledger[e].milestone] = "active"
    /\ Enter(e, status)
    /\ UNCHANGED <<backendVars, page>>

\* recordDisputeResolutionSucceeded
RecordSettlement(m) ==
    /\ disputes[m] = "active" /\ Linked(m)
    /\ ledger[rows[m].escrow].status \in Terminal
    /\ "disputed" \in ledger[rows[m].escrow].past
    /\ PatchForEscrow(m, ledger[rows[m].escrow].status)
    /\ disputes' = [disputes EXCEPT ![m] = "settled"]
    /\ UNCHANGED <<ledger, page>>

-----------------------------------------------------------------------------
AgreeStep ==
    \/ \E f \in Freelancers :
         \/ \E group \in (SUBSET Milestones) \ {{}} : Assign(group, f)
         \/ \E m \in Milestones : AcceptContinuation(m, f) \/ RejectContinuation(m, f)
    \/ \E m \in Milestones :
         OfferContinuation(m) \/ OpenForReplacement(m)
    \/ \E m \in Milestones \ {1} : AddMilestone(m)

PageStep(p) ==
    \/ \E m \in Milestones, call \in Calls : Press(p, m, call)
    \/ \E e \in Escrows : CreateOnLedger(p, e)
    \/ CallLedger(p) \/ RecordEscrow(p) \/ RecordStatus(p) \/ RecordProof(p)
    \/ Close(p)

OtherStep ==
    \/ \E m \in Milestones :
         \/ CancelOffLedger(m) \/ OpenDispute(m) \/ WithdrawDispute(m)
         \/ RecordSettlement(m)
         \/ \E status \in LedgerCalls : Sync(m, status)
    \/ \E e \in Escrows, status \in Terminal : Settle(e, status)

Next == AgreeStep \/ (\E p \in Pages : PageStep(p)) \/ OtherStep

Spec == Init /\ [][Next]_vars

-----------------------------------------------------------------------------
(* Properties.                                                              *)

\* Type invariant.
TypeOK ==
    /\ job \in {"open", "selected", "funded", "submitted", "disputed",
                "completed", "cancelled"}
    /\ milestones \in [Milestones ->
         [status : (LedgerCalls \ {"created"}) \cup
                     {"none", "open", "assigned", "escrow_created"},
          gate : {"locked", "open", "continuation_pending",
                  "continuation_rejected", "closed"},
          freelancer : Freelancers \cup {None},
          offered : Freelancers \cup {None}, proof : {"none", "some"},
          revisionPolicy : RevisionPolicy]]
    /\ rows \in [Milestones -> [escrow : Escrows \cup {None},
                                status : LedgerCalls \cup {"none"}]]
    /\ disputes \in [Milestones -> {"none", "active", "withdrawn", "settled"}]
    /\ ledger \in [Escrows ->
         [status : LedgerCalls \cup {"none"}, past : SUBSET LedgerCalls,
          milestone : Milestones \cup {None},
          freelancer : Freelancers \cup {None}]]
    /\ page \in [Pages ->
         [step : {"idle", "calling", "recording"}, call : Calls \cup {"none"},
          milestone : Milestones \cup {None}, escrow : Escrows \cup {None}]]

\* A freelancer is committed to a milestone only when the one before it is
\* paid on the ledger, not only in a row that a late recording may set back
\* or a stale sync forward; so one milestone holds money at a time.
WorkInOrder ==
    \A m \in Milestones \ {1} : milestones[m].freelancer # None =>
        /\ Linked(m - 1)
        /\ ledger[rows[m - 1].escrow].status = "released"

\* An offer to stay ends with the answer of the freelancer it was made to:
\* nobody else is taken, and no other offer made, while it is pending.
OfferIsKept ==
    [][\A m \in Milestones :
         milestones[m].gate = "continuation_pending" =>
           \/ /\ milestones'[m].gate = "continuation_pending"
              /\ milestones'[m].offered = milestones[m].offered
              /\ milestones'[m].freelancer = None
           \/ milestones'[m].gate = "continuation_rejected"
           \/ /\ milestones'[m].gate = "closed"
              /\ milestones'[m].freelancer = milestones[m].offered]_vars

Holds(e) == ledger[e].status \in {"funded", "submitted", "disputed"}

\* A project shown as finished holds no money in any of its escrows, although
\* its status is derived from rows, and only in some of the handlers that
\* write them.  The exception is a milestone whose dispute was withdrawn: its
\* escrow can be cancelled without the ledger (Cancellations).
CompletedHoldsNothing ==
    job \in {"completed", "cancelled"} =>
        \A e \in Escrows : Holds(e) => disputes[ledger[e].milestone] = "withdrawn"

\* An escrow that got money is the one recorded for its milestone, and pays
\* the freelancer of that milestone, although several pages may create one.
MoneyIsRecorded ==
    \A e \in Escrows : "funded" \in ledger[e].past =>
        /\ rows[ledger[e].milestone].escrow = e
        /\ milestones[ledger[e].milestone].freelancer = ledger[e].freelancer


\* Violated by the code: while the money of a milestone is held, someone is
\* offered the next step, whatever was recorded and when nobody is acting.
HeldWorkMovesOn ==
    \A m \in Milestones :
        /\ rows[m].status \in {"funded", "submitted"}
        /\ ledger[rows[m].escrow].status = rows[m].status
        /\ \A p \in Pages : page[p] = Idle
        => \E call \in Calls : Offers(m, call)

\* The view of the ledger in this module: each escrow with the freelancer of
\* the milestone it was created for.
Keeping == INSTANCE Custody WITH
    Workers <- Freelancers, Nobody <- None,
    stage  <- [e \in Escrows |->
                 CASE ledger[e].status = "none"      -> "none"
                   [] ledger[e].status = "created"   -> "open"
                   [] ledger[e].status = "disputed"  -> "disputed"
                   [] ledger[e].status \in {"funded", "submitted"} -> "held"
                   [] OTHER -> "closed"],
    worker <- [e \in Escrows |-> ledger[e].freelancer]

\* The ledger of this module moves as the contract promises, and an escrow
\* keeps the freelancer it was created for, whatever becomes of its milestone.
KeepsCustody == Keeping!Spec

=============================================================================
