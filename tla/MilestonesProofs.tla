--------------------------- MODULE MilestonesProofs ---------------------------
(***************************************************************************)
(* The safety of Milestones for any number of pages, freelancers,          *)
(* milestones and escrows.                                                 *)
(*                                                                         *)
(* The inductive invariant says what a page knows: while it makes a call   *)
(* to an escrow, that is the recorded escrow of its milestone, and what it *)
(* records has happened on the ledger.  So a milestone shown as released   *)
(* is paid there, and an offer is only pending after a paid milestone.     *)
(***************************************************************************)
EXTENDS Milestones, TLAPS

MilestoneType ==
    [status : (LedgerCalls \ {"created"}) \cup
                {"none", "open", "assigned", "escrow_created"},
     gate : {"locked", "open", "continuation_pending",
             "continuation_rejected", "closed"},
     freelancer : Freelancers \cup {None},
     offered : Freelancers \cup {None}, proof : {"none", "some"},
     revisionPolicy : RevisionPolicy]

RowType == [escrow : Escrows \cup {None}, status : LedgerCalls \cup {"none"}]

EscrowType ==
    [status : LedgerCalls \cup {"none"}, past : SUBSET LedgerCalls,
     milestone : Milestones \cup {None}, freelancer : Freelancers \cup {None}]

PageType ==
    [step : {"idle", "calling", "recording"}, call : Calls \cup {"none"},
     milestone : Milestones \cup {None}, escrow : Escrows \cup {None}]

JobType == {"open", "selected", "funded", "submitted", "disputed",
            "completed", "cancelled"}

DisputeType == {"none", "active", "withdrawn", "settled"}

Moves == {"funded", "submitted", "released", "cancelled", "disputed"}
Unstarted == {"none", "open"}

\* The money of a milestone is paid out, on the ledger.
Paid(m) == Linked(m) /\ ledger[rows[m].escrow].status = "released"

MilestoneOK ==
    \A m \in Milestones :
        /\ milestones[m].status \in Unstarted => milestones[m].freelancer = None
        /\ milestones[m].gate = "continuation_pending" =>
             milestones[m].freelancer = None
        /\ Linked(m) => milestones[m].status \notin Unstarted
        /\ milestones[m].status = "released" => Paid(m)

OffersInOrder ==
    \A m \in Milestones \ {1} :
        milestones[m].gate = "continuation_pending" => Paid(m - 1)

RowsOK ==
    \A m \in Milestones :
        /\ rows[m].status # "none" => Linked(m)
        /\ Linked(m) =>
             /\ ledger[rows[m].escrow].status # "none"
             /\ ledger[rows[m].escrow].milestone = m
             /\ ledger[rows[m].escrow].freelancer = milestones[m].freelancer

LedgerOK ==
    \A e \in Escrows :
        /\ ledger[e].status # "none" => ledger[e].milestone \in Milestones
        /\ ledger[e].past # {} => ledger[e].status # "none"
        /\ "released" \in ledger[e].past => ledger[e].status = "released"

PageOK ==
    \A p \in Pages :
        /\ page[p].step # "idle" => page[p].milestone \in Milestones
        /\ page[p].step # "idle" /\ page[p].call \in Moves =>
             /\ Linked(page[p].milestone)
             /\ rows[page[p].milestone].escrow = page[p].escrow
        /\ page[p].step = "recording" /\ page[p].call \in Moves =>
             page[p].call \in ledger[page[p].escrow].past
        /\ page[p].step = "recording" /\ page[p].call = "created" =>
             /\ page[p].escrow \in Escrows
             /\ ledger[page[p].escrow].status # "none"
             /\ ledger[page[p].escrow].milestone = page[p].milestone

\* What relates milestones and rows to the ledger.
OrderInv == MilestoneOK /\ OffersInOrder /\ RowsOK /\ MoneyIsRecorded /\ WorkInOrder

IInv == TypeOK /\ OrderInv /\ LedgerOK /\ PageOK

-----------------------------------------------------------------------------
(* Types, field by field.                                                   *)

LEMMA TypeFields ==
    TypeOK <=> /\ job \in JobType /\ milestones \in [Milestones -> MilestoneType]
               /\ rows \in [Milestones -> RowType]
               /\ disputes \in [Milestones -> DisputeType]
               /\ ledger \in [Escrows -> EscrowType]
               /\ page \in [Pages -> PageType]
BY DEF TypeOK, JobType, MilestoneType, RowType, DisputeType, EscrowType, PageType

LEMMA TypeFieldsNext ==
    TypeOK' <=> /\ job' \in JobType /\ milestones' \in [Milestones -> MilestoneType]
                /\ rows' \in [Milestones -> RowType]
                /\ disputes' \in [Milestones -> DisputeType]
                /\ ledger' \in [Escrows -> EscrowType]
                /\ page' \in [Pages -> PageType]
BY DEF TypeOK, JobType, MilestoneType, RowType, DisputeType, EscrowType, PageType

LEMMA JobDerived ==
    ASSUME NEW rowsOf
    PROVE  DeriveStatus(rowsOf) \in JobType
BY DEF DeriveStatus, JobType

LEMMA MovesAreDomain == Moves = DOMAIN Before
BY DEF Moves, Before

LEMMA Indices ==
    /\ Milestones \subseteq Nat /\ 1 \in Milestones
    /\ \A m \in Milestones \ {1} : m - 1 \in Milestones
    /\ Escrows \subseteq Nat /\ None \notin Escrows /\ None \notin Milestones
BY MilestoneConstants DEF Milestones, Escrows

-----------------------------------------------------------------------------
(* A step that writes milestones and rows, each as it may.                   *)

\* How the row of a milestone may be rewritten.
Fits(m, old, new) ==
    /\ \/ new.freelancer = old.freelancer
       \/ old.status = "open" /\ (m # 1 => Paid(m - 1))
    /\ new.status = "released" => Paid(m)
    /\ new.status \in Unstarted =>
         old.status \in Unstarted /\ new.freelancer = None
    /\ new.gate = "continuation_pending" =>
         new.freelancer = None /\ (m # 1 => Paid(m - 1))

\* The escrow that becomes the milestone's.
NewLink(m, e, milestone) ==
    /\ e \in Escrows /\ ledger[e].status # "none" /\ ledger[e].milestone = m
    /\ ledger[e].freelancer = milestone.freelancer
    /\ milestone.status \notin Unstarted

LEMMA RowsWritten ==
    ASSUME IInv, TypeOK', ledger' = ledger,
           \A m \in Milestones : \/ milestones'[m] = milestones[m]
                                 \/ Fits(m, milestones[m], milestones'[m]),
           \A m \in Milestones :
             /\ rows'[m].status # "none" => rows'[m].escrow # None
             /\ \/ rows'[m].escrow = rows[m].escrow
                \/ ~Linked(m) /\ NewLink(m, rows'[m].escrow, milestones'[m])
    PROVE  OrderInv' /\ LedgerOK'
<1>1. \A m \in Milestones : Paid(m) => Paid(m)'
  BY DEF Paid, Linked
<1>2. \A m \in Milestones : Linked(m) => Linked(m)' /\ rows'[m].escrow = rows[m].escrow
  BY DEF Linked
<1> USE Indices
<1>3. MilestoneOK'
  <2> SUFFICES ASSUME NEW m \in Milestones
               PROVE  /\ milestones'[m].status \in Unstarted => milestones'[m].freelancer = None
                      /\ milestones'[m].gate = "continuation_pending" =>
                           milestones'[m].freelancer = None
                      /\ Linked(m)' => milestones'[m].status \notin Unstarted
                      /\ milestones'[m].status = "released" => Paid(m)'
    BY DEF MilestoneOK
  <2> QED BY <1>1 DEF IInv, OrderInv, MilestoneOK, Fits, NewLink, Linked
<1>4. OffersInOrder'
  BY <1>1 DEF IInv, OrderInv, OffersInOrder, Fits
<1>5. RowsOK'
  BY DEF IInv, OrderInv, RowsOK, MilestoneOK, Fits, NewLink, Linked, Unstarted
<1>6. LedgerOK'
  BY DEF IInv, LedgerOK
<1>7. MoneyIsRecorded'
  <2> SUFFICES ASSUME NEW e \in Escrows, "funded" \in ledger[e].past
               PROVE  /\ rows'[ledger[e].milestone].escrow = e
                      /\ milestones'[ledger[e].milestone].freelancer = ledger[e].freelancer
    BY DEF MoneyIsRecorded
  <2> DEFINE m == ledger[e].milestone
  <2>1. m \in Milestones /\ rows[m].escrow = e
    BY DEF IInv, OrderInv, MoneyIsRecorded, LedgerOK
  <2>2. rows'[m].escrow = e
    BY <1>2, <2>1 DEF Linked
  <2>3. RowsOK'
    BY <1>5
  <2> QED BY <2>1, <2>2, <2>3 DEF RowsOK, Linked
<1>8. WorkInOrder'
  <2> SUFFICES ASSUME NEW m \in Milestones \ {1}, milestones'[m].freelancer # None
               PROVE  Paid(m - 1)'
    BY DEF WorkInOrder, Paid
  <2> QED BY <1>1 DEF IInv, OrderInv, WorkInOrder, Paid, Fits
<1> QED BY <1>3, <1>4, <1>5, <1>6, <1>7, <1>8 DEF OrderInv

\* ... and the pages, of which one at most stops.
LEMMA PagesWait ==
    ASSUME IInv, ledger' = ledger,
           \A m \in Milestones : Linked(m) => rows'[m].escrow = rows[m].escrow,
           \A p \in Pages : page'[p] = page[p] \/ page'[p] = Idle
    PROVE  PageOK'
<1> SUFFICES ASSUME NEW p \in Pages, page'[p] = page[p]
             PROVE  /\ page[p].step # "idle" => page[p].milestone \in Milestones
                    /\ page[p].step # "idle" /\ page[p].call \in Moves =>
                         /\ rows'[page[p].milestone].escrow # None
                         /\ rows'[page[p].milestone].escrow = page[p].escrow
                    /\ page[p].step = "recording" /\ page[p].call \in Moves =>
                         page[p].call \in ledger[page[p].escrow].past
                    /\ page[p].step = "recording" /\ page[p].call = "created" =>
                         /\ page[p].escrow \in Escrows
                         /\ ledger[page[p].escrow].status # "none"
                         /\ ledger[page[p].escrow].milestone = page[p].milestone
  BY DEF PageOK, Idle, Linked
<1> QED BY DEF IInv, PageOK, Linked

-----------------------------------------------------------------------------
(* The steps that write milestones only.                                    *)

LEMMA MilestonesOnly ==
    ASSUME IInv, milestones' \in [Milestones -> MilestoneType], job' \in JobType,
           UNCHANGED <<rows, disputes, ledger>>,
           page' \in [Pages -> PageType],
           \A p \in Pages : page'[p] = page[p] \/ page'[p] = Idle,
           \A m \in Milestones : \/ milestones'[m] = milestones[m]
                                 \/ Fits(m, milestones[m], milestones'[m])
    PROVE  IInv'
<1>1. TypeOK'
  BY TypeFields, TypeFieldsNext DEF IInv
<1>2. \A m \in Milestones : rows'[m].status # "none" => rows'[m].escrow # None
  BY DEF IInv, OrderInv, RowsOK, Linked
<1>3. OrderInv' /\ LedgerOK'
  BY <1>1, <1>2, RowsWritten
<1>4. PageOK'
  BY PagesWait
<1> QED BY <1>1, <1>3, <1>4 DEF IInv

LEMMA StopTypes ==
    ASSUME TypeOK, NEW p \in Pages, Stop(p)
    PROVE  /\ page' \in [Pages -> PageType]
           /\ \A q \in Pages : page'[q] = page[q] \/ page'[q] = Idle
BY TypeFields DEF Stop, Idle, PageType

\* A milestone written field by field is one written as a whole.
LEMMA OneWritten ==
    ASSUME milestones \in [Milestones -> MilestoneType], NEW m \in Milestones,
           NEW new \in MilestoneType,
           milestones' = [milestones EXCEPT ![m] = new]
    PROVE  /\ milestones' \in [Milestones -> MilestoneType]
           /\ milestones'[m] = new
           /\ \A n \in Milestones : n # m => milestones'[n] = milestones[n]
OBVIOUS

LEMMA AddMilestoneKeeps ==
    ASSUME IInv, NEW m \in Milestones \ {1}, AddMilestone(m)
    PROVE  IInv'
<1>1. /\ milestones \in [Milestones -> MilestoneType] /\ job \in JobType
      /\ page \in [Pages -> PageType]
  BY TypeFields DEF IInv
<1>2. PICK policy \in RevisionPolicy :
        milestones' = [milestones EXCEPT ![m].status = "open",
                                         ![m].revisionPolicy = policy]
  BY DEF AddMilestone
<1>3. milestones' \in [Milestones -> MilestoneType]
  <2>1. milestones'[m] = [milestones[m] EXCEPT !.status = "open",
                                               !.revisionPolicy = policy]
    BY <1>1, <1>2
  <2>2. milestones'[m] \in MilestoneType
    BY <1>1, <2>1 DEF MilestoneType
  <2>3. milestones' = [milestones EXCEPT ![m] = milestones'[m]]
    BY <1>1, <1>2
  <2> QED BY <1>1, <2>2, <2>3
<1>4. milestones[m].status = "none"
  BY DEF AddMilestone
<1>5. Fits(m, milestones[m], milestones'[m])
  <2>1. /\ milestones'[m].status = "open"
        /\ milestones'[m].freelancer = milestones[m].freelancer
        /\ milestones'[m].gate = milestones[m].gate
    BY <1>1, <1>2 DEF MilestoneType
  <2> QED BY <2>1, <1>4 DEF Fits, IInv, OrderInv, MilestoneOK, OffersInOrder, Unstarted
<1>6. \A n \in Milestones : n # m => milestones'[n] = milestones[n]
  BY <1>1, <1>2
<1> QED BY <1>1, <1>3, <1>5, <1>6, MilestonesOnly DEF AddMilestone

LEMMA AssignKeeps ==
    ASSUME IInv, NEW group \in SUBSET Milestones, NEW f \in Freelancers,
           Assign(group, f)
    PROVE  IInv'
<1>1. /\ milestones \in [Milestones -> MilestoneType]
      /\ page \in [Pages -> PageType]
  BY TypeFields DEF IInv
<1>2. milestones' = [m \in Milestones |->
          IF m \in group THEN [milestones[m] EXCEPT !.status = "assigned",
                                                    !.gate = "closed",
                                                    !.freelancer = f]
                         ELSE milestones[m]]
  BY DEF Assign
<1>3. milestones' \in [Milestones -> MilestoneType]
  <2>1. ASSUME NEW m \in Milestones
        PROVE  [milestones[m] EXCEPT !.status = "assigned", !.gate = "closed",
                                     !.freelancer = f] \in MilestoneType
    BY <1>1, ZenonT(30) DEF MilestoneType
  <2> QED BY <1>1, <1>2, <2>1
<1>4. job' \in JobType
  BY JobDerived DEF Assign
<1>5. \A m \in group : Fits(m, milestones[m], milestones'[m])
  <2> SUFFICES ASSUME NEW m \in group
               PROVE  Fits(m, milestones[m], milestones'[m])
    OBVIOUS
  <2>1. /\ milestones'[m].status = "assigned" /\ milestones'[m].gate = "closed"
    BY <1>1, <1>2 DEF MilestoneType
  <2>2. milestones[m].status = "open" /\ PreviousIsPaid(m)
    BY DEF Assign, CanApply
  <2>3. m # 1 => Paid(m - 1)
    BY <2>2, Indices DEF PreviousIsPaid, IInv, OrderInv, MilestoneOK
  <2> QED BY <2>1, <2>2, <2>3 DEF Fits, Unstarted
<1>6. \A m \in Milestones \ group : milestones'[m] = milestones[m]
  BY <1>2
<1> QED BY <1>1, <1>3, <1>4, <1>5, <1>6, MilestonesOnly DEF Assign

LEMMA TwoFields ==
    ASSUME NEW old \in MilestoneType, NEW offered \in Freelancers \cup {None},
           NEW gate \in {"locked", "open", "continuation_pending",
                         "continuation_rejected", "closed"}
    PROVE  [old EXCEPT !.gate = gate, !.offered = offered] \in MilestoneType
BY DEF MilestoneType

\* The steps that only move a gate of an open milestone.
LEMMA GateMoved ==
    ASSUME IInv, NEW m \in Milestones, NEW gate, NEW offered,
           milestones' = [milestones EXCEPT ![m].gate = gate, ![m].offered = offered],
           gate \in {"locked", "open", "continuation_pending",
                     "continuation_rejected", "closed"},
           offered \in Freelancers \cup {None},
           milestones[m].status = "open",
           gate = "continuation_pending" => (m # 1 => Paid(m - 1)),
           UNCHANGED <<job, rows, disputes, ledger, page>>
    PROVE  IInv'
<1>1. /\ milestones \in [Milestones -> MilestoneType] /\ job \in JobType
      /\ page \in [Pages -> PageType]
  BY TypeFields DEF IInv
<1>2. /\ milestones'[m].status = "open" /\ milestones'[m].gate = gate
      /\ milestones'[m].freelancer = milestones[m].freelancer
  BY <1>1 DEF MilestoneType
<1>3. Fits(m, milestones[m], milestones'[m])
  BY <1>2 DEF Fits, IInv, OrderInv, MilestoneOK, Unstarted
<1>4. \A n \in Milestones : n # m => milestones'[n] = milestones[n]
  BY <1>1
<1>5. milestones' \in [Milestones -> MilestoneType]
  <2>1. milestones'[m] = [milestones[m] EXCEPT !.gate = gate, !.offered = offered]
    BY <1>1
  <2>2. milestones'[m] \in MilestoneType
    BY <1>1, <2>1, TwoFields
  <2>3. milestones' = [milestones EXCEPT ![m] = milestones'[m]]
    BY <1>1
  <2> QED BY <1>1, <2>2, <2>3
<1> QED BY <1>1, <1>3, <1>4, <1>5, MilestonesOnly

LEMMA GateStepKeeps ==
    ASSUME IInv, NEW m \in Milestones,
           \/ OfferContinuation(m) \/ OpenForReplacement(m)
           \/ \E f \in Freelancers : RejectContinuation(m, f)
    PROVE  IInv'
<1>1. milestones \in [Milestones -> MilestoneType]
  BY TypeFields DEF IInv
<1>2. CASE OfferContinuation(m)
  <2> DEFINE offered == milestones[m - 1].freelancer
  <2>1. m # 1 /\ m - 1 \in Milestones
    BY <1>2, Indices DEF OfferContinuation
  <2>2. Paid(m - 1)
    BY <1>2, <2>1, Indices DEF OfferContinuation, PreviousIsPaid, IInv, OrderInv, MilestoneOK
  <2>3. offered \in Freelancers \cup {None}
    BY <1>1, <2>1 DEF MilestoneType
  <2> QED BY <1>2, <2>2, <2>3, GateMoved DEF OfferContinuation
<1>3. CASE OpenForReplacement(m)
  <2> QED BY <1>3, GateMoved DEF OpenForReplacement
<1>4. ASSUME NEW f \in Freelancers, RejectContinuation(m, f)
      PROVE  IInv'
  <2>1. [milestones[m] EXCEPT !.gate = "continuation_rejected"]
            = [milestones[m] EXCEPT !.gate = "continuation_rejected",
                                    !.offered = milestones[m].offered]
    BY <1>1 DEF MilestoneType
  <2>2. milestones' = [milestones EXCEPT ![m].gate = "continuation_rejected",
                                         ![m].offered = milestones[m].offered]
    BY <1>1, <1>4, <2>1 DEF RejectContinuation
  <2>3. milestones[m].offered \in Freelancers \cup {None}
    BY <1>1 DEF MilestoneType
  <2> QED BY <1>4, <2>2, <2>3, GateMoved DEF RejectContinuation, HasOffer
<1> QED BY <1>2, <1>3, <1>4

LEMMA AcceptKeeps ==
    ASSUME IInv, NEW m \in Milestones, NEW f \in Freelancers,
           AcceptContinuation(m, f)
    PROVE  IInv'
<1> DEFINE new == [milestones[m] EXCEPT !.status = "assigned", !.gate = "closed",
                                        !.freelancer = f]
<1>1. /\ milestones \in [Milestones -> MilestoneType]
      /\ page \in [Pages -> PageType]
  BY TypeFields DEF IInv
<1>2. milestones' = [milestones EXCEPT ![m] = new] /\ job' \in JobType
  BY JobDerived DEF AcceptContinuation, PutAndDerive
<1>3. new \in MilestoneType /\ new.status = "assigned" /\ new.gate = "closed"
  BY <1>1 DEF MilestoneType
<1>4. milestones' \in [Milestones -> MilestoneType]
  BY <1>1, <1>2, <1>3
<1>5. m # 1 => Paid(m - 1)
  BY DEF AcceptContinuation, HasOffer, IInv, OrderInv, OffersInOrder
<1>6. milestones[m].status = "open"
  BY DEF AcceptContinuation, HasOffer
<1>7. Fits(m, milestones[m], new)
  BY <1>3, <1>5, <1>6 DEF Fits, Unstarted
<1> HIDE DEF new
<1>8. milestones'[m] = new /\ \A n \in Milestones : n # m => milestones'[n] = milestones[n]
  BY <1>1, <1>2
<1> QED BY <1>1, <1>2, <1>4, <1>7, <1>8, MilestonesOnly DEF AcceptContinuation

LEMMA ProofOrCancelKeeps ==
    ASSUME IInv,
           \/ \E p \in Pages : RecordProof(p)
           \/ \E m \in Milestones : CancelOffLedger(m)
    PROVE  IInv'
<1>1. /\ milestones \in [Milestones -> MilestoneType] /\ job \in JobType
      /\ page \in [Pages -> PageType]
  BY TypeFields DEF IInv
<1>2. ASSUME NEW m \in Milestones, CancelOffLedger(m)
      PROVE  IInv'
  <2>1. milestones' \in [Milestones -> MilestoneType]
    BY <1>1, <1>2 DEF CancelOffLedger, MilestoneType, LedgerCalls
  <2>2. /\ milestones'[m].status = "cancelled"
        /\ milestones'[m].freelancer = milestones[m].freelancer
        /\ milestones'[m].gate = milestones[m].gate
    BY <1>1, <1>2 DEF CancelOffLedger, MilestoneType
  <2>3. Fits(m, milestones[m], milestones'[m])
    BY <2>2 DEF Fits, IInv, OrderInv, MilestoneOK, OffersInOrder, Unstarted
  <2>4. \A n \in Milestones : n # m => milestones'[n] = milestones[n]
    BY <1>1, <1>2 DEF CancelOffLedger
  <2> QED BY <1>1, <1>2, <2>1, <2>3, <2>4, MilestonesOnly DEF CancelOffLedger
<1>3. ASSUME NEW p \in Pages, RecordProof(p)
      PROVE  IInv'
  <2> DEFINE m == page[p].milestone
             status == IF milestones[m].revisionPolicy = "fixed"
                         THEN "submitted" ELSE milestones[m].status
  <2>1. m \in Milestones
    BY <1>3 DEF RecordProof, IInv, PageOK
  <2>2. milestones' = [milestones EXCEPT ![m].status = status, ![m].proof = "some"]
    BY <1>1, <1>3 DEF RecordProof
  <2>3. status \in (LedgerCalls \ {"created"}) \cup
                     {"none", "open", "assigned", "escrow_created"}
    BY <1>1, <2>1 DEF MilestoneType, LedgerCalls
  <2>4. milestones' \in [Milestones -> MilestoneType]
    BY <1>1, <2>1, <2>2, <2>3 DEF MilestoneType
  <2>5. /\ milestones'[m].status = status
        /\ milestones'[m].freelancer = milestones[m].freelancer
        /\ milestones'[m].gate = milestones[m].gate
    BY <1>1, <2>1, <2>2 DEF MilestoneType
  <2>6. Fits(m, milestones[m], milestones'[m])
    BY <2>1, <2>5 DEF Fits, IInv, OrderInv, MilestoneOK, OffersInOrder, Unstarted
  <2>7. \A n \in Milestones : n # m => milestones'[n] = milestones[n]
    BY <1>1, <2>2
  <2>8. /\ page' \in [Pages -> PageType]
        /\ \A q \in Pages : page'[q] = page[q] \/ page'[q] = Idle
    BY <1>3, StopTypes DEF RecordProof, IInv
  <2> HIDE DEF m, status
  <2> QED BY <1>1, <1>3, <2>4, <2>6, <2>7, <2>8, MilestonesOnly DEF RecordProof
<1> QED BY <1>2, <1>3

-----------------------------------------------------------------------------
(* The steps that write rows.                                               *)

LEMMA PatchKeeps ==
    ASSUME IInv, NEW m \in Milestones, NEW status \in LedgerCalls, Linked(m),
           status = "released" => Paid(m), PatchForEscrow(m, status),
           ledger' = ledger, disputes' \in [Milestones -> DisputeType],
           page' \in [Pages -> PageType],
           \A p \in Pages : page'[p] = page[p] \/ page'[p] = Idle
    PROVE  IInv'
<1> DEFINE shown == IF status = "created" THEN "escrow_created" ELSE status
           new == [milestones[m] EXCEPT !.status = shown]
<1>1. /\ milestones \in [Milestones -> MilestoneType] /\ job \in JobType
      /\ rows \in [Milestones -> RowType] /\ ledger \in [Escrows -> EscrowType]
  BY TypeFields DEF IInv
<1>2. /\ milestones' = [milestones EXCEPT ![m] = new] /\ job' \in JobType
      /\ rows' = [rows EXCEPT ![m].status = status]
  BY JobDerived DEF PatchForEscrow, PutAndDerive
<1>3. /\ shown \in (LedgerCalls \ {"created"}) \cup
                     {"none", "open", "assigned", "escrow_created"}
      /\ shown \notin Unstarted /\ (shown = "released" => Paid(m))
  BY DEF LedgerCalls, Unstarted
<1> HIDE DEF shown
<1>4. /\ new \in MilestoneType /\ new.status = shown
      /\ new.freelancer = milestones[m].freelancer
      /\ new.gate = milestones[m].gate
  BY <1>1, <1>3 DEF MilestoneType
<1> HIDE DEF new
<1>5. Fits(m, milestones[m], new)
  <2>1. new.gate = "continuation_pending" =>
          milestones[m].freelancer = None /\ (m # 1 => Paid(m - 1))
    BY <1>4 DEF IInv, OrderInv, MilestoneOK, OffersInOrder
  <2> QED BY <1>3, <1>4, <2>1 DEF Fits
<1>6. /\ milestones' \in [Milestones -> MilestoneType] /\ milestones'[m] = new
      /\ \A n \in Milestones : n # m => milestones'[n] = milestones[n]
  BY <1>1, <1>2, <1>4
<1>7. /\ rows' \in [Milestones -> RowType]
      /\ \A n \in Milestones : rows'[n].escrow = rows[n].escrow
      /\ \A n \in Milestones : n # m => rows'[n] = rows[n]
  BY <1>1, <1>2 DEF RowType
<1>8. TypeOK'
  BY <1>1, <1>2, <1>6, <1>7, TypeFieldsNext
<1>9. \A n \in Milestones : rows'[n].status # "none" => rows'[n].escrow # None
  BY <1>7 DEF IInv, OrderInv, RowsOK, Linked
<1>10. OrderInv' /\ LedgerOK'
  BY <1>5, <1>6, <1>7, <1>8, <1>9, RowsWritten
<1>11. PageOK'
  BY <1>7, PagesWait
<1> QED BY <1>8, <1>10, <1>11 DEF IInv

LEMMA RecordStatusKeeps ==
    ASSUME IInv, NEW p \in Pages, RecordStatus(p)
    PROVE  IInv'
<1> DEFINE m == page[p].milestone
           call == page[p].call
<1>1. /\ page[p].step = "recording" /\ call \in Moves
      /\ PatchForEscrow(m, call) /\ Stop(p)
      /\ UNCHANGED <<disputes, ledger>>
  BY MovesAreDomain DEF RecordStatus
<1>2. /\ m \in Milestones /\ Linked(m) /\ rows[m].escrow = page[p].escrow
      /\ call \in ledger[rows[m].escrow].past
  BY <1>1 DEF IInv, PageOK
<1>3. rows[m].escrow \in Escrows
  BY <1>2, TypeFields DEF IInv, RowType, Linked
<1>4. call = "released" => Paid(m)
  BY <1>2, <1>3 DEF Paid, IInv, LedgerOK
<1>5. disputes' \in [Milestones -> DisputeType]
  BY <1>1, TypeFields DEF IInv
<1>6. /\ page' \in [Pages -> PageType]
      /\ \A q \in Pages : page'[q] = page[q] \/ page'[q] = Idle
  BY <1>1, StopTypes DEF IInv
<1>7. call \in LedgerCalls
  BY <1>1 DEF Moves, LedgerCalls
<1> HIDE DEF m, call
<1> QED BY <1>1, <1>2, <1>4, <1>5, <1>6, <1>7, PatchKeeps

LEMMA SyncKeeps ==
    ASSUME IInv, NEW m \in Milestones, NEW status \in LedgerCalls, Sync(m, status)
    PROVE  IInv'
<1>1. rows[m].escrow \in Escrows
  BY TypeFields DEF IInv, RowType, Sync, Linked
<1>2. status = "released" => Paid(m)
  BY <1>1 DEF Paid, Sync, IInv, LedgerOK
<1>3. /\ disputes' \in [Milestones -> DisputeType]
      /\ page' \in [Pages -> PageType] /\ page' = page
  BY TypeFields DEF IInv, Sync
<1> QED BY <1>2, <1>3, PatchKeeps DEF Sync

LEMMA RecordSettlementKeeps ==
    ASSUME IInv, NEW m \in Milestones, RecordSettlement(m)
    PROVE  IInv'
<1> DEFINE status == ledger[rows[m].escrow].status
<1>1. /\ status \in Terminal /\ Linked(m) /\ PatchForEscrow(m, status)
      /\ disputes' = [disputes EXCEPT ![m] = "settled"]
      /\ UNCHANGED <<ledger, page>>
  BY DEF RecordSettlement
<1>2. status = "released" => Paid(m)
  BY <1>1 DEF Paid
<1>3. /\ disputes' \in [Milestones -> DisputeType]
      /\ page' \in [Pages -> PageType] /\ page' = page
  BY <1>1, TypeFields DEF IInv, DisputeType
<1>4. status \in LedgerCalls
  BY <1>1 DEF Terminal, LedgerCalls
<1> HIDE DEF status
<1> QED BY <1>1, <1>2, <1>3, <1>4, PatchKeeps

LEMMA RecordEscrowKeeps ==
    ASSUME IInv, NEW p \in Pages, RecordEscrow(p)
    PROVE  IInv'
<1> DEFINE m == page[p].milestone
           e == page[p].escrow
           new == [milestones[m] EXCEPT !.status = "escrow_created"]
<1>1. /\ milestones \in [Milestones -> MilestoneType] /\ job \in JobType
      /\ rows \in [Milestones -> RowType] /\ ledger \in [Escrows -> EscrowType]
      /\ disputes \in [Milestones -> DisputeType]
  BY TypeFields DEF IInv
<1>2. /\ page[p].step = "recording" /\ page[p].call = "created" /\ MayRecord(p)
      /\ rows' = [rows EXCEPT ![m] = [escrow |-> e, status |-> "created"]]
      /\ milestones' = [milestones EXCEPT ![m] = new] /\ job' \in JobType
      /\ Stop(p) /\ UNCHANGED <<disputes, ledger>>
  BY JobDerived DEF RecordEscrow, PutAndDerive
<1>3. /\ m \in Milestones /\ e \in Escrows /\ ledger[e].status # "none"
      /\ ledger[e].milestone = m
  BY <1>2 DEF IInv, PageOK
<1>4. /\ milestones[m].status = "assigned" /\ ~Linked(m)
      /\ milestones[m].freelancer = ledger[e].freelancer
  BY <1>2 DEF MayRecord
<1>5. /\ new \in MilestoneType /\ new.status = "escrow_created"
      /\ new.freelancer = milestones[m].freelancer
      /\ new.gate = milestones[m].gate
  BY <1>1, <1>3 DEF MilestoneType
<1> HIDE DEF m, e, new
<1>6. Fits(m, milestones[m], new)
  BY <1>3, <1>5 DEF Fits, IInv, OrderInv, MilestoneOK, OffersInOrder, Unstarted
<1>7. NewLink(m, e, new)
  BY <1>3, <1>4, <1>5 DEF NewLink, Unstarted
<1>8. /\ milestones' \in [Milestones -> MilestoneType] /\ milestones'[m] = new
      /\ \A n \in Milestones : n # m => milestones'[n] = milestones[n]
  BY <1>1, <1>2, <1>3, <1>5
<1>9. /\ rows' \in [Milestones -> RowType] /\ rows'[m].escrow = e
      /\ \A n \in Milestones : n # m => rows'[n] = rows[n]
  BY <1>1, <1>2, <1>3 DEF RowType, LedgerCalls
<1>10. /\ page' \in [Pages -> PageType]
       /\ \A q \in Pages : page'[q] = page[q] \/ page'[q] = Idle
  BY <1>2, StopTypes DEF IInv
<1>11. TypeOK'
  BY <1>1, <1>2, <1>8, <1>9, <1>10, TypeFieldsNext
<1>12. \A n \in Milestones : rows'[n].status # "none" => rows'[n].escrow # None
  BY <1>3, <1>9, Indices DEF IInv, OrderInv, RowsOK, Linked
<1>13. OrderInv' /\ LedgerOK'
  BY <1>2, <1>4, <1>6, <1>7, <1>8, <1>9, <1>11, <1>12, RowsWritten
<1>14. PageOK'
  BY <1>2, <1>4, <1>9, <1>10, PagesWait
<1> QED BY <1>11, <1>13, <1>14 DEF IInv

-----------------------------------------------------------------------------
(* The steps that write the ledger, and those that write only pages or      *)
(* disputes.                                                                *)

\* What a step on the ledger keeps of an escrow there is.
Grows(e) ==
    ledger[e].status # "none" =>
        /\ ledger'[e].status # "none"
        /\ ledger'[e].milestone = ledger[e].milestone
        /\ ledger'[e].freelancer = ledger[e].freelancer
        /\ ledger[e].past \subseteq ledger'[e].past
        /\ ledger[e].status = "released" => ledger'[e].status = "released"

LEMMA LedgerWritten ==
    ASSUME IInv, TypeOK', UNCHANGED <<milestones, rows>>,
           \A e \in Escrows : Grows(e),
           \A e \in Escrows : "funded" \in ledger'[e].past =>
             \/ "funded" \in ledger[e].past
             \/ \E m \in Milestones : Linked(m) /\ rows[m].escrow = e
    PROVE  OrderInv'
<1>1. \A m \in Milestones : Linked(m) =>
        rows[m].escrow \in Escrows /\ ledger[rows[m].escrow].status # "none"
  BY TypeFields DEF IInv, OrderInv, RowsOK, RowType, Linked
<1>2. \A m \in Milestones : Paid(m) => Paid(m)'
  BY <1>1 DEF Paid, Linked, Grows
<1>3. MilestoneOK' /\ OffersInOrder'
  BY <1>2, Indices DEF IInv, OrderInv, MilestoneOK, OffersInOrder, Linked
<1>4. RowsOK'
  BY <1>1 DEF IInv, OrderInv, RowsOK, Linked, Grows
<1>5. MoneyIsRecorded'
  <2> SUFFICES ASSUME NEW e \in Escrows, "funded" \in ledger'[e].past
               PROVE  /\ rows[ledger'[e].milestone].escrow = e
                      /\ milestones[ledger'[e].milestone].freelancer
                           = ledger'[e].freelancer
    BY DEF MoneyIsRecorded
  <2>1. CASE "funded" \in ledger[e].past
    BY <2>1 DEF IInv, OrderInv, MoneyIsRecorded, LedgerOK, Grows
  <2>2. CASE \E m \in Milestones : Linked(m) /\ rows[m].escrow = e
    BY <1>4, <2>2 DEF RowsOK, Linked
  <2> QED BY <2>1, <2>2
<1>6. WorkInOrder'
  BY <1>2, Indices DEF IInv, OrderInv, WorkInOrder, Paid, Linked
<1> QED BY <1>3, <1>4, <1>5, <1>6 DEF OrderInv

\* A status is entered from one that allows it.
LEMMA EnterKeeps ==
    ASSUME IInv, NEW e \in Escrows, NEW status \in Moves, Enter(e, status),
           ledger[e].status \notin {"none", "released"},
           status = "funded" =>
             \E m \in Milestones : Linked(m) /\ rows[m].escrow = e,
           UNCHANGED backendVars, page' \in [Pages -> PageType]
    PROVE  /\ TypeOK' /\ OrderInv' /\ LedgerOK'
           /\ status \in ledger'[e].past
           /\ \A d \in Escrows : Grows(d)
<1>1. ledger \in [Escrows -> EscrowType]
  BY TypeFields DEF IInv
<1>2. /\ ledger'[e].status = status
      /\ ledger'[e].past = ledger[e].past \cup {status}
      /\ ledger'[e].milestone = ledger[e].milestone
      /\ ledger'[e].freelancer = ledger[e].freelancer
  BY <1>1 DEF Enter, EscrowType
<1>3. \A d \in Escrows : d # e => ledger'[d] = ledger[d]
  BY <1>1 DEF Enter
<1>4. status \in LedgerCalls /\ status # "none"
  BY DEF Moves, LedgerCalls
<1>5. ledger' \in [Escrows -> EscrowType]
  <2>1. ledger'[e] = [ledger[e] EXCEPT !.status = status,
                                       !.past = ledger[e].past \cup {status}]
    BY <1>1 DEF Enter
  <2> DEFINE past == ledger[e].past \cup {status}
  <2>2. past \in SUBSET LedgerCalls
    BY <1>1, <1>4 DEF EscrowType
  <2> HIDE DEF past
  <2>3. [ledger[e] EXCEPT !.status = status, !.past = past] \in EscrowType
    BY <1>1, <1>4, <2>2 DEF EscrowType
  <2>4. ledger'[e] \in EscrowType
    BY <2>1, <2>3 DEF past
  <2>5. ledger' = [ledger EXCEPT ![e] = ledger'[e]]
    BY <1>1 DEF Enter
  <2> QED BY <1>1, <2>4, <2>5
<1>6. TypeOK'
  BY <1>5, TypeFields, TypeFieldsNext DEF IInv, backendVars
<1>7. \A d \in Escrows : Grows(d)
  BY <1>2, <1>3, <1>4 DEF Grows
<1>8. LedgerOK'
  BY <1>2, <1>3, <1>4 DEF IInv, LedgerOK
<1>9. OrderInv'
  BY <1>2, <1>3, <1>6, <1>7, LedgerWritten DEF backendVars
<1> QED BY <1>2, <1>6, <1>7, <1>8, <1>9

LEMMA CallLedgerKeeps ==
    ASSUME IInv, NEW p \in Pages, CallLedger(p)
    PROVE  IInv'
<1> DEFINE e == page[p].escrow
           m == page[p].milestone
           call == page[p].call
<1>1. /\ page \in [Pages -> PageType] /\ rows \in [Milestones -> RowType]
  BY TypeFields DEF IInv
<1>2. /\ page[p].step = "calling" /\ call \in Moves
      /\ ledger[e].status \in Before[call] /\ Enter(e, call)
      /\ page' = [page EXCEPT ![p].step = "recording"]
      /\ UNCHANGED backendVars
  BY MovesAreDomain DEF CallLedger
<1>3. m \in Milestones /\ Linked(m) /\ rows[m].escrow = e
  BY <1>2 DEF IInv, PageOK
<1>4. e \in Escrows
  BY <1>1, <1>3 DEF RowType, Linked
<1>5. ledger[e].status \notin {"none", "released"}
  BY <1>2 DEF Before, Moves
<1>6. /\ page' \in [Pages -> PageType]
      /\ page'[p].step = "recording" /\ page'[p].call = call
      /\ page'[p].milestone = m /\ page'[p].escrow = e
      /\ \A q \in Pages : q # p => page'[q] = page[q]
  BY <1>1, <1>2 DEF PageType
<1> HIDE DEF e, m, call
<1>7. /\ TypeOK' /\ OrderInv' /\ LedgerOK'
      /\ call \in ledger'[e].past /\ \A d \in Escrows : Grows(d)
  BY <1>2, <1>3, <1>4, <1>5, <1>6, EnterKeeps
<1>8. PageOK'
  <2> SUFFICES ASSUME NEW q \in Pages
               PROVE  /\ page'[q].step # "idle" => page'[q].milestone \in Milestones
                      /\ page'[q].step # "idle" /\ page'[q].call \in Moves =>
                           /\ Linked(page'[q].milestone)
                           /\ rows[page'[q].milestone].escrow = page'[q].escrow
                      /\ page'[q].step = "recording" /\ page'[q].call \in Moves =>
                           page'[q].call \in ledger'[page'[q].escrow].past
                      /\ page'[q].step = "recording" /\ page'[q].call = "created" =>
                           /\ page'[q].escrow \in Escrows
                           /\ ledger'[page'[q].escrow].status # "none"
                           /\ ledger'[page'[q].escrow].milestone = page'[q].milestone
    BY <1>2 DEF PageOK, Linked, backendVars
  <2>1. CASE q = p
    BY <1>2, <1>3, <1>6, <1>7, <2>1 DEF Moves
  <2>2. CASE q # p
    <3>1. page'[q] = page[q]
      BY <1>6, <2>2
    <3>2. \A n \in Milestones : Linked(n) =>
            /\ rows[n].escrow \in Escrows
            /\ ledger[rows[n].escrow].past \subseteq ledger'[rows[n].escrow].past
      BY <1>1, <1>7 DEF IInv, OrderInv, RowsOK, Linked, RowType, Grows
    <3>3. \A d \in Escrows : ledger[d].status # "none" =>
            /\ ledger'[d].status # "none"
            /\ ledger'[d].milestone = ledger[d].milestone
      BY <1>7 DEF Grows
    <3> QED BY <3>1, <3>2, <3>3, SMTT(30) DEF IInv, PageOK
  <2> QED BY <2>1, <2>2
<1> QED BY <1>7, <1>8 DEF IInv

LEMMA SettleKeeps ==
    ASSUME IInv, NEW e \in Escrows, NEW status \in Terminal, Settle(e, status)
    PROVE  IInv'
<1>1. page' \in [Pages -> PageType] /\ rows \in [Milestones -> RowType]
  BY TypeFields DEF IInv, Settle
<1>2. /\ TypeOK' /\ OrderInv' /\ LedgerOK' /\ \A d \in Escrows : Grows(d)
  BY <1>1, EnterKeeps DEF Settle, Terminal, Moves
<1>3. \A n \in Milestones : Linked(n) =>
        /\ rows[n].escrow \in Escrows
        /\ ledger[rows[n].escrow].past \subseteq ledger'[rows[n].escrow].past
  BY <1>1, <1>2 DEF IInv, OrderInv, RowsOK, Linked, RowType, Grows
<1>4. \A d \in Escrows : ledger[d].status # "none" =>
        /\ ledger'[d].status # "none"
        /\ ledger'[d].milestone = ledger[d].milestone
  BY <1>2 DEF Grows
<1>5. PageOK'
  BY <1>3, <1>4 DEF IInv, PageOK, Settle, backendVars, Linked
<1> QED BY <1>2, <1>5 DEF IInv

LEMMA CreateOnLedgerKeeps ==
    ASSUME IInv, NEW p \in Pages, NEW e \in Escrows, CreateOnLedger(p, e)
    PROVE  IInv'
<1> DEFINE m == page[p].milestone
           f == milestones[m].freelancer
           new == [status |-> "created", past |-> {"created"}, milestone |-> m,
                   freelancer |-> f]
<1>1. /\ page \in [Pages -> PageType] /\ rows \in [Milestones -> RowType]
      /\ milestones \in [Milestones -> MilestoneType]
      /\ ledger \in [Escrows -> EscrowType]
  BY TypeFields DEF IInv
<1>2. /\ page[p].step = "calling" /\ page[p].call = "created"
      /\ ledger[e].status = "none" /\ ledger' = [ledger EXCEPT ![e] = new]
      /\ page' = [page EXCEPT ![p].step = "recording", ![p].escrow = e]
      /\ UNCHANGED backendVars
  BY DEF CreateOnLedger
<1>3. m \in Milestones /\ f \in Freelancers \cup {None}
  BY <1>1, <1>2 DEF IInv, PageOK, MilestoneType
<1>4. new \in EscrowType /\ new.status = "created" /\ new.past = {"created"}
      /\ new.milestone = m
  BY <1>3 DEF EscrowType, LedgerCalls
<1> HIDE DEF new, m
<1>5. /\ ledger' \in [Escrows -> EscrowType] /\ ledger'[e] = new
      /\ \A d \in Escrows : d # e => ledger'[d] = ledger[d]
  BY <1>1, <1>2, <1>4
<1>6. /\ page'[p].step = "recording" /\ page'[p].call = "created"
      /\ page'[p].milestone = m /\ page'[p].escrow = e
      /\ \A q \in Pages : q # p => page'[q] = page[q]
  BY <1>1, <1>2 DEF PageType, m
<1>7. page' \in [Pages -> PageType]
  <2>1. page'[p] = [page[p] EXCEPT !.step = "recording", !.escrow = e]
    BY <1>1, <1>2
  <2>2. page'[p] \in PageType
    BY <1>1, <2>1 DEF PageType
  <2>3. page' = [page EXCEPT ![p] = page'[p]]
    BY <1>1, <1>2
  <2> QED BY <1>1, <2>2, <2>3
<1>8. TypeOK'
  BY <1>2, <1>5, <1>7, TypeFields, TypeFieldsNext DEF IInv, backendVars
<1>9. \A d \in Escrows : Grows(d)
  BY <1>2, <1>5 DEF Grows
<1>10. LedgerOK'
  BY <1>3, <1>4, <1>5 DEF IInv, LedgerOK
<1>11. OrderInv'
  BY <1>2, <1>4, <1>5, <1>8, <1>9, LedgerWritten DEF backendVars
<1>12. \A n \in Milestones : Linked(n) =>
         ledger'[rows[n].escrow] = ledger[rows[n].escrow]
  BY <1>1, <1>2, <1>5 DEF IInv, OrderInv, RowsOK, Linked, RowType
<1>13. PageOK'
  <2> SUFFICES ASSUME NEW q \in Pages
               PROVE  /\ page'[q].step # "idle" => page'[q].milestone \in Milestones
                      /\ page'[q].step # "idle" /\ page'[q].call \in Moves =>
                           /\ Linked(page'[q].milestone)
                           /\ rows[page'[q].milestone].escrow = page'[q].escrow
                      /\ page'[q].step = "recording" /\ page'[q].call \in Moves =>
                           page'[q].call \in ledger'[page'[q].escrow].past
                      /\ page'[q].step = "recording" /\ page'[q].call = "created" =>
                           /\ page'[q].escrow \in Escrows
                           /\ ledger'[page'[q].escrow].status # "none"
                           /\ ledger'[page'[q].escrow].milestone = page'[q].milestone
    BY <1>2 DEF PageOK, Linked, backendVars
  <2>1. CASE q = p
    BY <1>3, <1>4, <1>5, <1>6, <2>1 DEF Moves
  <2>2. CASE q # p
    <3>1. page'[q] = page[q]
      BY <1>6, <2>2
    <3>2. \A d \in Escrows : ledger[d].status # "none" => ledger'[d] = ledger[d]
      BY <1>2, <1>5
    <3> QED BY <1>12, <3>1, <3>2 DEF IInv, PageOK
  <2> QED BY <2>1, <2>2
<1> QED BY <1>8, <1>10, <1>11, <1>13 DEF IInv

LEMMA PressKeeps ==
    ASSUME IInv, NEW p \in Pages, NEW m \in Milestones, NEW call \in Calls,
           Press(p, m, call)
    PROVE  IInv'
<1> DEFINE new == [step |-> IF call = "proof" THEN "recording" ELSE "calling",
                   call |-> call, milestone |-> m, escrow |-> rows[m].escrow]
<1>1. /\ page \in [Pages -> PageType] /\ rows \in [Milestones -> RowType]
  BY TypeFields DEF IInv
<1>2. page' = [page EXCEPT ![p] = new] /\ UNCHANGED <<backendVars, ledger>>
  BY DEF Press
<1>3. /\ new \in PageType
      /\ new.call = call /\ new.milestone = m /\ new.escrow = rows[m].escrow
      /\ new.step = "recording" => call = "proof"
  BY <1>1 DEF PageType, RowType
<1>4. call \in Moves => Linked(m)
  <2>1. call \in Moves => rows[m].status # "none"
    BY DEF Press, Offers, Moves
  <2> QED BY <2>1 DEF IInv, OrderInv, RowsOK
<1> HIDE DEF new
<1>5. /\ page' \in [Pages -> PageType] /\ page'[p] = new
      /\ \A q \in Pages : q # p => page'[q] = page[q]
  BY <1>1, <1>2, <1>3
<1>6. TypeOK'
  BY <1>2, <1>5, TypeFields, TypeFieldsNext DEF IInv, backendVars
<1>7. OrderInv' /\ LedgerOK'
  BY <1>2, <1>6, RowsWritten DEF backendVars, IInv, OrderInv, RowsOK, Linked
<1>8. PageOK'
  BY <1>2, <1>3, <1>4, <1>5 DEF IInv, PageOK, backendVars, Linked, Moves
<1> QED BY <1>6, <1>7, <1>8 DEF IInv

LEMMA RestKeeps ==
    ASSUME IInv,
           \/ \E p \in Pages : Close(p)
           \/ \E m \in Milestones : OpenDispute(m) \/ WithdrawDispute(m)
    PROVE  IInv'
<1>1. TypeOK' /\ UNCHANGED <<job, milestones, rows, ledger>>
      /\ \A q \in Pages : page'[q] = page[q] \/ page'[q] = Idle
  BY StopTypes, TypeFields, TypeFieldsNext
     DEF IInv, Close, backendVars, OpenDispute, WithdrawDispute, DisputeType
<1>2. OrderInv' /\ LedgerOK'
  BY <1>1, RowsWritten DEF IInv, OrderInv, RowsOK, Linked
<1>3. PageOK'
  BY <1>1, PagesWait
<1> QED BY <1>1, <1>2, <1>3 DEF IInv

-----------------------------------------------------------------------------
(* An offer is kept: most steps leave it alone.                             *)

Kept(m) ==
    /\ milestones'[m].gate = milestones[m].gate
    /\ milestones'[m].offered = milestones[m].offered
    /\ milestones'[m].freelancer = milestones[m].freelancer

Answered(m) ==
    milestones[m].gate = "continuation_pending" =>
      \/ /\ milestones'[m].gate = "continuation_pending"
         /\ milestones'[m].offered = milestones[m].offered
         /\ milestones'[m].freelancer = None
      \/ milestones'[m].gate = "continuation_rejected"
      \/ /\ milestones'[m].gate = "closed"
         /\ milestones'[m].freelancer = milestones[m].offered

LEMMA KeptIsAnswered ==
    ASSUME IInv, NEW m \in Milestones, Kept(m)
    PROVE  Answered(m)
BY DEF Kept, Answered, IInv, OrderInv, MilestoneOK

LEMMA OffersAnswered ==
    ASSUME IInv, [Next]_vars, NEW m \in Milestones
    PROVE  Answered(m)
<1>1. milestones \in [Milestones -> MilestoneType]
  BY TypeFields DEF IInv
<1>2. ASSUME NEW n \in Milestones, AddMilestone(n)
      PROVE  Kept(m)
  BY <1>1, <1>2 DEF AddMilestone, Kept, MilestoneType
<1>3. ASSUME NEW n \in Milestones, NEW f \in Freelancers,
             AcceptContinuation(n, f) \/ RejectContinuation(n, f)
      PROVE  Answered(m)
  <2>1. CASE n = m
    <3>1. CASE AcceptContinuation(n, f)
      <4>1. /\ milestones[m].offered = f /\ milestones'[m].gate = "closed"
            /\ milestones'[m].freelancer = f
        BY <1>1, <2>1, <3>1
           DEF AcceptContinuation, HasOffer, PutAndDerive, MilestoneType
      <4> QED BY <4>1 DEF Answered
    <3>2. CASE RejectContinuation(n, f)
      <4>1. milestones'[m].gate = "continuation_rejected"
        BY <1>1, <2>1, <3>2 DEF RejectContinuation, MilestoneType
      <4> QED BY <4>1 DEF Answered
    <3> QED BY <1>3, <3>1, <3>2
  <2>2. CASE n # m
    BY <1>1, <1>3, <2>2, KeptIsAnswered
       DEF AcceptContinuation, RejectContinuation, PutAndDerive, Kept
  <2> QED BY <2>1, <2>2
<1>4. ASSUME NEW f \in Freelancers, NEW group \in SUBSET Milestones, Assign(group, f)
      PROVE  Answered(m)
  <2>1. CASE m \in group
    BY <1>4, <2>1 DEF Assign, CanApply, Answered
  <2>2. CASE m \notin group
    BY <1>4, <2>2, KeptIsAnswered DEF Assign, Kept
  <2> QED BY <2>1, <2>2
<1>5. ASSUME NEW n \in Milestones, OfferContinuation(n) \/ OpenForReplacement(n)
      PROVE  Answered(m)
  <2>1. CASE n = m
    BY <1>5, <2>1 DEF OfferContinuation, OpenForReplacement, Answered
  <2>2. CASE n # m
    BY <1>1, <1>5, <2>2, KeptIsAnswered
       DEF OfferContinuation, OpenForReplacement, Kept
  <2> QED BY <2>1, <2>2
<1>6. ASSUME NEW n, NEW status, PatchForEscrow(n, status)
      PROVE  Kept(m)
  BY <1>1, <1>6 DEF PatchForEscrow, PutAndDerive, Kept, MilestoneType
<1>7. ASSUME NEW p \in Pages, PageStep(p)
      PROVE  Kept(m)
  <2>1. CASE RecordEscrow(p)
    BY <1>1, <2>1 DEF RecordEscrow, PutAndDerive, Kept, MilestoneType
  <2>2. CASE RecordProof(p)
    BY <1>1, <2>2 DEF RecordProof, Kept, MilestoneType
  <2>3. CASE RecordStatus(p)
    BY <1>6, <2>3 DEF RecordStatus
  <2>4. CASE UNCHANGED milestones
    BY <2>4 DEF Kept
  <2> QED BY <1>7, <2>1, <2>2, <2>3, <2>4
          DEF PageStep, Press, CreateOnLedger, CallLedger, Close, backendVars
<1>8. ASSUME OtherStep
      PROVE  Kept(m)
  <2>1. ASSUME NEW n \in Milestones, CancelOffLedger(n)
        PROVE  Kept(m)
    BY <1>1, <2>1 DEF CancelOffLedger, Kept, MilestoneType
  <2>2. CASE UNCHANGED milestones
    BY <2>2 DEF Kept
  <2> QED BY <1>6, <1>8, <2>1, <2>2 DEF OtherStep, OpenDispute, WithdrawDispute,
                                       RecordSettlement, Sync, Settle, backendVars
<1>9. CASE UNCHANGED vars
  BY <1>9, KeptIsAnswered DEF vars, backendVars, Kept
<1> QED BY <1>2, <1>3, <1>4, <1>5, <1>7, <1>8, <1>9, KeptIsAnswered
        DEF Next, AgreeStep

-----------------------------------------------------------------------------
(* The theorems.                                                            *)

LEMMA InitEstablishes ==
    ASSUME Init
    PROVE  IInv
<1>1. PICK size \in Milestones, policy \in [Milestones -> RevisionPolicy] :
        milestones = [m \in Milestones |->
           IF m > size THEN Blank
           ELSE [Blank EXCEPT !.status = "open",
                              !.gate = IF m = 1 THEN "open" ELSE "locked",
                              !.revisionPolicy = policy[m]]]
  BY DEF Init
<1>2. ASSUME NEW m \in Milestones
      PROVE  /\ milestones[m] \in MilestoneType
             /\ milestones[m].status \in Unstarted
             /\ milestones[m].freelancer = None
             /\ milestones[m].gate # "continuation_pending"
  BY <1>1 DEF Blank, MilestoneType, Unstarted, RevisionPolicy
<1>3. milestones \in [Milestones -> MilestoneType]
  BY <1>1, <1>2
<1>4. TypeOK
  BY <1>3, TypeFields
     DEF Init, NoRow, NoEscrow, Idle, JobType, RowType, DisputeType, EscrowType, PageType
<1>5. /\ \A m \in Milestones : rows[m].escrow = None /\ rows[m].status = "none"
      /\ \A e \in Escrows : ledger[e].status = "none" /\ ledger[e].past = {}
      /\ \A p \in Pages : page[p].step = "idle"
  BY DEF Init, NoRow, NoEscrow, Idle
<1>6. OrderInv
  BY <1>2, <1>5 DEF OrderInv, MilestoneOK, OffersInOrder, RowsOK, MoneyIsRecorded,
                    WorkInOrder, Linked, Unstarted
<1>7. LedgerOK /\ PageOK
  BY <1>5 DEF LedgerOK, PageOK
<1> QED BY <1>4, <1>6, <1>7 DEF IInv

LEMMA StepKeeps ==
    ASSUME IInv, [Next]_vars
    PROVE  IInv'
<1>1. CASE AgreeStep
  BY <1>1, AssignKeeps, AcceptKeeps, GateStepKeeps, AddMilestoneKeeps
     DEF AgreeStep
<1>2. CASE \E p \in Pages : PageStep(p)
  BY <1>2, PressKeeps, CreateOnLedgerKeeps, CallLedgerKeeps, RecordEscrowKeeps,
     RecordStatusKeeps, ProofOrCancelKeeps, RestKeeps DEF PageStep
<1>3. CASE OtherStep
  BY <1>3, ProofOrCancelKeeps, RestKeeps, RecordSettlementKeeps, SyncKeeps,
     SettleKeeps DEF OtherStep
<1>4. CASE UNCHANGED vars
  <2>1. TypeOK'
    BY <1>4, TypeFields, TypeFieldsNext DEF IInv, vars, backendVars
  <2>2. OrderInv' /\ LedgerOK'
    BY <1>4, <2>1, RowsWritten DEF vars, backendVars, IInv, OrderInv, RowsOK, Linked
  <2>3. PageOK'
    BY <1>4, PagesWait DEF vars, backendVars
  <2> QED BY <2>1, <2>2, <2>3 DEF IInv
<1> QED BY <1>1, <1>2, <1>3, <1>4 DEF Next

LEMMA Inductive == Spec => []IInv
<1>1. Init => IInv
  BY InitEstablishes
<1>2. IInv /\ [Next]_vars => IInv'
  BY StepKeeps
<1> QED BY <1>1, <1>2, PTL DEF Spec

\* The variables of Milestones keep their types.
THEOREM MilestoneTypeCorrect == Spec => []TypeOK
<1>1. IInv => TypeOK
  BY DEF IInv
<1> QED BY <1>1, Inductive, PTL

\* However late a page records, however stale a sync is: no freelancer is
\* committed to a milestone before the one before it is paid on the ledger.
THEOREM WorkOrder == Spec => []WorkInOrder
<1>1. IInv => WorkInOrder
  BY DEF IInv, OrderInv
<1> QED BY <1>1, Inductive, PTL

\* Money only gets into the escrow recorded for a milestone, made for the
\* freelancer of that milestone, although several pages may create escrows.
THEOREM MoneyRecorded == Spec => []MoneyIsRecorded
<1>1. IInv => MoneyIsRecorded
  BY DEF IInv, OrderInv
<1> QED BY <1>1, Inductive, PTL

\* While an offer to stay is pending nobody else is taken and no other offer
\* is made; it ends with the answer of the freelancer it was made to.
THEOREM OfferKept == Spec => OfferIsKept
<1> DEFINE Step == \A m \in Milestones : Answered(m)
<1>1. IInv /\ [Next]_vars => Step
  BY OffersAnswered
<1>2. Step => [\A m \in Milestones :
         milestones[m].gate = "continuation_pending" =>
           \/ /\ milestones'[m].gate = "continuation_pending"
              /\ milestones'[m].offered = milestones[m].offered
              /\ milestones'[m].freelancer = None
           \/ milestones'[m].gate = "continuation_rejected"
           \/ /\ milestones'[m].gate = "closed"
              /\ milestones'[m].freelancer = milestones[m].offered]_vars
  BY DEF Answered
<1> QED BY <1>1, <1>2, Inductive, PTL DEF Spec, OfferIsKept

-----------------------------------------------------------------------------
(* A finished project holds no money.  What this needs besides: every step   *)
(* that writes a row derives the status of the project again, a cancelled    *)
(* milestone with an escrow is closed on the ledger or had its dispute       *)
(* withdrawn, and both last.                                                 *)

Closed(m) ==
    ledger[rows[m].escrow].status \in Terminal \/ disputes[m] = "withdrawn"

PastOK ==
    \A e \in Escrows :
        /\ Holds(e) => "funded" \in ledger[e].past
        /\ "cancelled" \in ledger[e].past => ledger[e].status = "cancelled"
        /\ "disputed" \in ledger[e].past => disputes[ledger[e].milestone] # "none"

MarksOK ==
    \A p \in Pages : page[p].step # "idle" /\ page[p].call = "disputed" =>
        disputes[page[p].milestone] # "none"

StatusOK ==
    \A m \in Milestones :
        /\ Linked(m) => rows[m].status # "none"
        /\ rows[m].status = "disputed" => "disputed" \in ledger[rows[m].escrow].past
        /\ disputes[m] = "settled" =>
             Linked(m) /\ ledger[rows[m].escrow].status \in Terminal

CancelledOK ==
    \A m \in Milestones : milestones[m].status = "cancelled" /\ Linked(m) => Closed(m)

FinishedOK ==
    job \in {"completed", "cancelled"} => \A m \in Milestones : Linked(m) => Closed(m)

FinishInv == PastOK /\ MarksOK /\ StatusOK /\ CancelledOK /\ FinishedOK

\* What no step undoes.
Lasts ==
    /\ \A e \in Escrows :
         /\ ledger[e].status \in Terminal => ledger'[e].status = ledger[e].status
         /\ ledger[e].past \subseteq ledger'[e].past
    /\ \A m \in Milestones :
         /\ disputes[m] # "none" => disputes'[m] # "none"
         /\ disputes[m] = "withdrawn" => disputes'[m] = "withdrawn"

LEMMA LinkedToEscrow ==
    ASSUME IInv
    PROVE  \A m \in Milestones : Linked(m) => rows[m].escrow \in Escrows
BY TypeFields DEF IInv, RowType, Linked

LEMMA ClosedLasts ==
    ASSUME IInv, Lasts, NEW m \in Milestones, Linked(m), Closed(m),
           rows'[m].escrow = rows[m].escrow
    PROVE  Closed(m)'
BY LinkedToEscrow DEF Closed, Lasts

\* A project is only called finished when each of its milestones is.
LEMMA FinishedMeansClosed ==
    ASSUME IInv, CancelledOK, job = DeriveStatus(milestones)
    PROVE  FinishedOK
<1> SUFFICES ASSUME NEW m \in Milestones, Linked(m), job \in {"completed", "cancelled"}
             PROVE  Closed(m)
  BY DEF FinishedOK
<1>1. milestones[m].status \in Terminal \cup {"none"}
  BY DEF DeriveStatus, Terminal
<1>2. milestones[m].status # "none"
  BY DEF IInv, OrderInv, MilestoneOK, Unstarted
<1>3. milestones[m].status = "released" => Closed(m)
  BY DEF IInv, OrderInv, MilestoneOK, Paid, Closed, Terminal
<1> QED BY <1>1, <1>2, <1>3 DEF CancelledOK, Terminal

\* What a step makes of the milestones: the status of the project is derived
\* or left alone, and what is cancelled was, or is closed.
LEMMA FinishKept ==
    ASSUME IInv, IInv', FinishInv, Lasts,
           \A m \in Milestones : Linked(m) => rows'[m].escrow = rows[m].escrow,
           \/ job' = DeriveStatus(milestones')
           \/ job' = job /\ UNCHANGED rows,
           \A m \in Milestones : milestones'[m].status = "cancelled" =>
             \/ milestones[m].status = "cancelled" /\ Linked(m)
             \/ ~Linked(m)'
             \/ Closed(m)'
    PROVE  CancelledOK' /\ FinishedOK'
<1>1. CancelledOK'
  BY ClosedLasts DEF FinishInv, CancelledOK
<1>2. CASE job' = DeriveStatus(milestones')
  <2>1. (IInv /\ CancelledOK /\ job = DeriveStatus(milestones) => FinishedOK)'
    BY FinishedMeansClosed, PTL
  <2>2. (job = DeriveStatus(milestones))'
    BY <1>2 DEF DeriveStatus
  <2> QED BY <1>1, <2>1, <2>2
<1>3. CASE job' = job /\ UNCHANGED rows
  <2>1. \A m \in Milestones : Linked(m) /\ job \in {"completed", "cancelled"} => Closed(m)
    BY DEF FinishInv, FinishedOK
  <2>2. \A m \in Milestones : Linked(m)' => Linked(m) /\ rows'[m].escrow = rows[m].escrow
    BY <1>3 DEF Linked
  <2>3. \A m \in Milestones :
          Linked(m)' /\ job' \in {"completed", "cancelled"} => Closed(m)'
    BY <2>1, <2>2, <1>3, ClosedLasts
  <2> QED BY <1>1, <2>3 DEF FinishedOK
<1> QED BY <1>1, <1>2, <1>3

\* The steps that leave the rows alone and cancel nothing.
LEMMA RowsKept ==
    ASSUME IInv, IInv', FinishInv, Lasts, UNCHANGED rows,
           job' = job \/ job' = DeriveStatus(milestones'),
           \A m \in Milestones :
             /\ disputes'[m] = "settled" => disputes[m] = "settled"
             /\ milestones'[m].status = "cancelled" =>
                  milestones[m].status = "cancelled" \/ ~Linked(m) \/ Closed(m)
    PROVE  StatusOK' /\ CancelledOK' /\ FinishedOK'
<1>1. \A m \in Milestones : Linked(m)' = Linked(m)
  BY DEF Linked
<1>2. StatusOK'
  BY <1>1, LinkedToEscrow DEF FinishInv, StatusOK, Lasts, RowsOK, IInv, OrderInv
<1>3. CancelledOK' /\ FinishedOK'
  BY <1>1, ClosedLasts, FinishKept
<1> QED BY <1>2, <1>3

\* The steps that write the status of an escrow to its row and milestone.
LEMMA StatusPatched ==
    ASSUME IInv, IInv', FinishInv, Lasts, NEW m \in Milestones,
           NEW status \in LedgerCalls, Linked(m), PatchForEscrow(m, status),
           status = "cancelled" => ledger[rows[m].escrow].status = "cancelled",
           status = "disputed" => "disputed" \in ledger[rows[m].escrow].past,
           UNCHANGED ledger,
           \A n \in Milestones :
             disputes'[n] = "settled" =>
               \/ disputes[n] = "settled"
               \/ n = m /\ ledger[rows[m].escrow].status \in Terminal
    PROVE  StatusOK' /\ CancelledOK' /\ FinishedOK'
<1>1. /\ rows' = [rows EXCEPT ![m].status = status]
      /\ milestones' = [milestones EXCEPT ![m] =
           [milestones[m] EXCEPT !.status =
              IF status = "created" THEN "escrow_created" ELSE status]]
      /\ job' = DeriveStatus(milestones')
  BY DEF PatchForEscrow, PutAndDerive
<1>2. /\ milestones \in [Milestones -> MilestoneType]
      /\ rows \in [Milestones -> RowType]
  BY TypeFields DEF IInv
<1>3. \A n \in Milestones :
        /\ rows'[n].escrow = rows[n].escrow
        /\ Linked(n)' = Linked(n)
        /\ rows'[n].status = IF n = m THEN status ELSE rows[n].status
        /\ n # m => milestones'[n].status = milestones[n].status
  BY <1>1, <1>2 DEF RowType, Linked
<1>4. milestones'[m].status = "cancelled" => status = "cancelled"
  BY <1>1, <1>2 DEF MilestoneType
<1>5. status = "cancelled" => Closed(m)'
  BY <1>3 DEF Closed, Terminal
<1>6. StatusOK'
  BY <1>3 DEF FinishInv, StatusOK, LedgerCalls
<1>7. CancelledOK' /\ FinishedOK'
  BY <1>1, <1>3, <1>4, <1>5, FinishKept
<1> QED BY <1>6, <1>7

\* What the ledger and the disputes keep.
LEMMA LastsIfKept ==
    ASSUME UNCHANGED ledger,
           \A m \in Milestones :
             /\ disputes[m] # "none" => disputes'[m] # "none"
             /\ disputes[m] = "withdrawn" => disputes'[m] = "withdrawn"
    PROVE  Lasts
BY DEF Lasts

LEMMA PastKept ==
    ASSUME IInv, FinishInv, Lasts, UNCHANGED ledger
    PROVE  PastOK'
<1> SUFFICES ASSUME NEW e \in Escrows
             PROVE  /\ Holds(e)' => "funded" \in ledger[e].past
                    /\ "cancelled" \in ledger[e].past => ledger[e].status = "cancelled"
                    /\ "disputed" \in ledger[e].past =>
                         disputes'[ledger[e].milestone] # "none"
  BY DEF PastOK
<1>1. ledger[e].past # {} => ledger[e].milestone \in Milestones
  BY DEF IInv, LedgerOK
<1> QED BY <1>1 DEF FinishInv, PastOK, Lasts, Holds

LEMMA MarksKept ==
    ASSUME IInv, FinishInv, Lasts,
           \A p \in Pages : \/ page'[p].step = "idle"
                            \/ /\ page[p].step # "idle"
                               /\ page'[p].call = page[p].call
                               /\ page'[p].milestone = page[p].milestone
    PROVE  MarksOK'
<1> SUFFICES ASSUME NEW p \in Pages, page'[p].step # "idle", page'[p].call = "disputed"
             PROVE  disputes'[page'[p].milestone] # "none"
  BY DEF MarksOK
<1>1. page[p].milestone \in Milestones /\ disputes[page[p].milestone] # "none"
  BY DEF IInv, PageOK, FinishInv, MarksOK
<1> QED BY <1>1 DEF Lasts

\* A page that stops or waits.
LEMMA PagesMayStop ==
    ASSUME IInv, FinishInv, Lasts, UNCHANGED ledger,
           UNCHANGED page \/ \E p \in Pages : Stop(p)
    PROVE  PastOK' /\ MarksOK'
<1>1. page \in [Pages -> PageType]
  BY TypeFields DEF IInv
<1>2. PastOK'
  BY PastKept
<1>3. MarksOK'
  <2>1. CASE UNCHANGED page
    BY <2>1, MarksKept
  <2>2. CASE \E p \in Pages : Stop(p)
    BY <2>2, <1>1, MarksKept DEF Stop, Idle
  <2> QED BY <2>1, <2>2
<1> QED BY <1>2, <1>3

\* A status is entered on the ledger.
LEMMA EnterFinishes ==
    ASSUME IInv, FinishInv, NEW e \in Escrows, NEW status \in Moves,
           Enter(e, status), ledger[e].status \notin Terminal,
           status \in {"submitted", "disputed"} => Holds(e),
           status = "disputed" => disputes[ledger[e].milestone] # "none",
           UNCHANGED disputes
    PROVE  PastOK' /\ Lasts
<1>1. ledger \in [Escrows -> EscrowType]
  BY TypeFields DEF IInv
<1>2. /\ ledger'[e].status = status
      /\ ledger'[e].past = ledger[e].past \cup {status}
      /\ ledger'[e].milestone = ledger[e].milestone
      /\ \A d \in Escrows : d # e => ledger'[d] = ledger[d]
  BY <1>1 DEF Enter, EscrowType
<1>3. Lasts
  BY <1>2 DEF Lasts
<1>4. "cancelled" \notin ledger[e].past
  BY DEF FinishInv, PastOK, Terminal
<1>5. /\ Holds(e)' => "funded" \in ledger'[e].past
      /\ "cancelled" \in ledger'[e].past => ledger'[e].status = "cancelled"
      /\ "disputed" \in ledger'[e].past => disputes'[ledger'[e].milestone] # "none"
  BY <1>2, <1>4 DEF FinishInv, PastOK, Holds, Moves
<1>6. \A d \in Escrows : d # e =>
        /\ Holds(d)' => "funded" \in ledger'[d].past
        /\ "cancelled" \in ledger'[d].past => ledger'[d].status = "cancelled"
        /\ "disputed" \in ledger'[d].past => disputes'[ledger'[d].milestone] # "none"
  BY <1>2 DEF FinishInv, PastOK, Holds
<1> QED BY <1>3, <1>5, <1>6 DEF PastOK

LEMMA CallLedgerFinishes ==
    ASSUME IInv, IInv', FinishInv, NEW p \in Pages, CallLedger(p)
    PROVE  FinishInv'
<1> DEFINE e == page[p].escrow
           m == page[p].milestone
           call == page[p].call
<1>1. /\ page \in [Pages -> PageType]
      /\ page[p].step = "calling" /\ call \in Moves
      /\ ledger[e].status \in Before[call] /\ Enter(e, call)
      /\ page' = [page EXCEPT ![p].step = "recording"]
      /\ UNCHANGED backendVars
  BY MovesAreDomain, TypeFields DEF CallLedger, IInv
<1>2. m \in Milestones /\ Linked(m) /\ rows[m].escrow = e
  BY <1>1 DEF IInv, PageOK
<1>3. e \in Escrows /\ ledger[e].milestone = m
  BY <1>2, LinkedToEscrow DEF IInv, OrderInv, RowsOK
<1>4. /\ ledger[e].status \notin Terminal
      /\ call \in {"submitted", "disputed"} => Holds(e)
  BY <1>1 DEF Before, Moves, Terminal, Holds
<1>5. call = "disputed" => disputes[m] # "none"
  BY <1>1 DEF FinishInv, MarksOK
<1>6. PastOK' /\ Lasts
  BY <1>1, <1>3, <1>4, <1>5, EnterFinishes DEF backendVars
<1>7. MarksOK'
  <2>1. \A q \in Pages : /\ page'[q].call = page[q].call
                         /\ page'[q].milestone = page[q].milestone
                         /\ page[q].step = "idle" => page'[q].step = "idle"
    BY <1>1 DEF PageType
  <2> QED BY <2>1, <1>6, MarksKept
<1>8. StatusOK' /\ CancelledOK' /\ FinishedOK'
  BY <1>1, <1>6, RowsKept DEF backendVars
<1> QED BY <1>6, <1>7, <1>8 DEF FinishInv

LEMMA SettleFinishes ==
    ASSUME IInv, IInv', FinishInv, NEW e \in Escrows, NEW status \in Terminal,
           Settle(e, status)
    PROVE  FinishInv'
<1>1. /\ status \in Moves /\ status \notin {"submitted", "disputed"}
      /\ ledger[e].status \notin Terminal
      /\ Enter(e, status) /\ UNCHANGED <<backendVars, page>>
  BY DEF Settle, Moves, Terminal
<1>2. PastOK' /\ Lasts
  BY <1>1, EnterFinishes DEF backendVars
<1>3. MarksOK'
  BY <1>1, <1>2, MarksKept
<1>4. StatusOK' /\ CancelledOK' /\ FinishedOK'
  BY <1>1, <1>2, RowsKept DEF backendVars
<1> QED BY <1>2, <1>3, <1>4 DEF FinishInv

LEMMA CreateFinishes ==
    ASSUME IInv, IInv', FinishInv, NEW p \in Pages, NEW e \in Escrows,
           CreateOnLedger(p, e)
    PROVE  FinishInv'
<1>1. /\ page \in [Pages -> PageType] /\ ledger \in [Escrows -> EscrowType]
      /\ page[p].step = "calling"
      /\ ledger[e].status = "none"
      /\ page' = [page EXCEPT ![p].step = "recording", ![p].escrow = e]
      /\ UNCHANGED backendVars
  BY TypeFields DEF CreateOnLedger, IInv
<1>2. /\ ledger[e].past = {}
      /\ ledger'[e].status = "created" /\ ledger'[e].past = {"created"}
      /\ \A d \in Escrows : d # e => ledger'[d] = ledger[d]
  BY <1>1 DEF CreateOnLedger, IInv, LedgerOK
<1>3. Lasts
  BY <1>1, <1>2 DEF Lasts, Terminal, backendVars
<1>4. PastOK'
  BY <1>1, <1>2 DEF FinishInv, PastOK, Holds, backendVars
<1>5. MarksOK'
  <2>1. \A q \in Pages : /\ page'[q].call = page[q].call
                         /\ page'[q].milestone = page[q].milestone
                         /\ page[q].step = "idle" => page'[q].step = "idle"
    BY <1>1 DEF PageType
  <2> QED BY <2>1, <1>3, MarksKept
<1>6. StatusOK' /\ CancelledOK' /\ FinishedOK'
  BY <1>1, <1>3, RowsKept DEF backendVars
<1> QED BY <1>3, <1>4, <1>5, <1>6 DEF FinishInv

\* A page that records a status of the ledger, or a sync that does.
LEMMA PatchFinishes ==
    ASSUME IInv, IInv', FinishInv, NEW m \in Milestones,
           NEW status \in LedgerCalls, Linked(m), PatchForEscrow(m, status),
           status \in ledger[rows[m].escrow].past,
           UNCHANGED <<disputes, ledger>>,
           UNCHANGED page \/ \E p \in Pages : Stop(p)
    PROVE  FinishInv'
<1>1. Lasts
  BY LastsIfKept
<1>2. PastOK' /\ MarksOK'
  BY <1>1, PagesMayStop
<1>3. status = "cancelled" => ledger[rows[m].escrow].status = "cancelled"
  BY LinkedToEscrow DEF FinishInv, PastOK
<1>4. StatusOK' /\ CancelledOK' /\ FinishedOK'
  BY <1>1, <1>3, StatusPatched
<1> QED BY <1>2, <1>4 DEF FinishInv

LEMMA RecordStatusFinishes ==
    ASSUME IInv, IInv', FinishInv, NEW p \in Pages, RecordStatus(p)
    PROVE  FinishInv'
<1> DEFINE m == page[p].milestone
           call == page[p].call
<1>1. /\ page[p].step = "recording" /\ call \in Moves
      /\ PatchForEscrow(m, call) /\ Stop(p)
      /\ UNCHANGED <<disputes, ledger>>
  BY MovesAreDomain DEF RecordStatus
<1>2. /\ m \in Milestones /\ Linked(m)
      /\ call \in ledger[rows[m].escrow].past
  BY <1>1 DEF IInv, PageOK
<1>3. call \in LedgerCalls
  BY <1>1 DEF Moves, LedgerCalls
<1> HIDE DEF m, call
<1> QED BY <1>1, <1>2, <1>3, PatchFinishes

LEMMA SyncFinishes ==
    ASSUME IInv, IInv', FinishInv, NEW m \in Milestones,
           NEW status \in LedgerCalls, Sync(m, status)
    PROVE  FinishInv'
BY PatchFinishes DEF Sync

LEMMA RecordSettlementFinishes ==
    ASSUME IInv, IInv', FinishInv, NEW m \in Milestones, RecordSettlement(m)
    PROVE  FinishInv'
<1> DEFINE status == ledger[rows[m].escrow].status
<1>1. /\ status \in Terminal /\ Linked(m) /\ PatchForEscrow(m, status)
      /\ disputes[m] = "active" /\ disputes' = [disputes EXCEPT ![m] = "settled"]
      /\ UNCHANGED <<ledger, page>>
  BY DEF RecordSettlement
<1>2. /\ disputes'[m] = "settled"
      /\ \A n \in Milestones : n # m => disputes'[n] = disputes[n]
  BY <1>1, TypeFields DEF IInv
<1>3. Lasts
  BY <1>1, <1>2, LastsIfKept
<1>4. PastOK' /\ MarksOK'
  BY <1>1, <1>3, PagesMayStop
<1>5. /\ status \in LedgerCalls /\ status # "disputed"
      /\ status = "cancelled" => ledger[rows[m].escrow].status = "cancelled"
  BY <1>1 DEF Terminal, LedgerCalls
<1>6. \A n \in Milestones : disputes'[n] = "settled" =>
        \/ disputes[n] = "settled"
        \/ n = m /\ ledger[rows[m].escrow].status \in Terminal
  BY <1>1, <1>2
<1> HIDE DEF status
<1>7. StatusOK' /\ CancelledOK' /\ FinishedOK'
  BY <1>1, <1>3, <1>5, <1>6, StatusPatched
<1> QED BY <1>4, <1>7 DEF FinishInv

LEMMA RecordEscrowFinishes ==
    ASSUME IInv, IInv', FinishInv, NEW p \in Pages, RecordEscrow(p)
    PROVE  FinishInv'
<1> DEFINE m == page[p].milestone
           e == page[p].escrow
<1>1. /\ milestones \in [Milestones -> MilestoneType]
      /\ rows \in [Milestones -> RowType]
  BY TypeFields DEF IInv
<1>2. /\ page[p].step = "recording" /\ MayRecord(p)
      /\ rows' = [rows EXCEPT ![m] = [escrow |-> e, status |-> "created"]]
      /\ milestones' = [milestones EXCEPT ![m] =
           [milestones[m] EXCEPT !.status = "escrow_created"]]
      /\ job' = DeriveStatus(milestones')
      /\ Stop(p) /\ UNCHANGED <<disputes, ledger>>
  BY DEF RecordEscrow, PutAndDerive
<1>3. m \in Milestones /\ ~Linked(m)
  BY <1>2 DEF IInv, PageOK, MayRecord
<1> HIDE DEF m, e
<1>4. /\ rows'[m].status = "created" /\ milestones'[m].status = "escrow_created"
      /\ \A n \in Milestones : n # m =>
           rows'[n] = rows[n] /\ milestones'[n] = milestones[n]
  BY <1>1, <1>2, <1>3 DEF MilestoneType
<1>5. Lasts
  BY <1>2, LastsIfKept
<1>6. PastOK' /\ MarksOK'
  BY <1>2, <1>5, PagesMayStop
<1>7. StatusOK'
  BY <1>2, <1>3, <1>4 DEF FinishInv, StatusOK, Linked
<1>8. CancelledOK' /\ FinishedOK'
  <2>1. \A n \in Milestones : Linked(n) => rows'[n].escrow = rows[n].escrow
    BY <1>3, <1>4
  <2>2. \A n \in Milestones : milestones'[n].status = "cancelled" =>
          (milestones[n].status = "cancelled" /\ Linked(n)) \/ ~Linked(n)'
    BY <1>4 DEF Linked
  <2> QED BY <1>2, <1>5, <2>1, <2>2, FinishKept
<1> QED BY <1>6, <1>7, <1>8 DEF FinishInv

\* The steps that write milestones only, and the pages that stop.
LEMMA MilestonesFinish ==
    ASSUME IInv, IInv', FinishInv, UNCHANGED <<rows, disputes, ledger>>,
           UNCHANGED page \/ \E p \in Pages : Stop(p),
           job' = job \/ job' = DeriveStatus(milestones'),
           \A m \in Milestones : milestones'[m].status = "cancelled" =>
             milestones[m].status = "cancelled" \/ ~Linked(m) \/ Closed(m)
    PROVE  FinishInv'
<1>1. Lasts
  BY LastsIfKept
<1>2. PastOK' /\ MarksOK'
  BY <1>1, PagesMayStop
<1>3. StatusOK' /\ CancelledOK' /\ FinishedOK'
  BY <1>1, RowsKept
<1> QED BY <1>2, <1>3 DEF FinishInv

LEMMA AgreeFinishes ==
    ASSUME IInv, IInv', FinishInv, AgreeStep
    PROVE  FinishInv'
<1>1. milestones \in [Milestones -> MilestoneType]
  BY TypeFields DEF IInv
<1>2. ASSUME NEW f \in Freelancers, NEW group \in SUBSET Milestones, Assign(group, f)
      PROVE  FinishInv'
  <2>1. \A m \in Milestones : milestones'[m].status =
          IF m \in group THEN "assigned" ELSE milestones[m].status
    BY <1>1, <1>2 DEF Assign, MilestoneType
  <2>2. job' = DeriveStatus(milestones') /\ UNCHANGED <<rows, disputes, ledger, page>>
    BY <1>2 DEF Assign
  <2> QED BY <2>1, <2>2, MilestonesFinish
<1>3. ASSUME NEW f \in Freelancers, NEW m \in Milestones, AcceptContinuation(m, f)
      PROVE  FinishInv'
  <2>1. \A n \in Milestones : milestones'[n].status =
          IF n = m THEN "assigned" ELSE milestones[n].status
    BY <1>1, <1>3 DEF AcceptContinuation, PutAndDerive, MilestoneType
  <2>2. job' = DeriveStatus(milestones') /\ UNCHANGED <<rows, disputes, ledger, page>>
    BY <1>3 DEF AcceptContinuation, PutAndDerive
  <2> QED BY <2>1, <2>2, MilestonesFinish
<1>4. ASSUME NEW m \in Milestones,
             \/ OfferContinuation(m) \/ OpenForReplacement(m)
             \/ \E f \in Freelancers : RejectContinuation(m, f)
      PROVE  FinishInv'
  <2>1. \A n \in Milestones : milestones'[n].status = milestones[n].status
    BY <1>1, <1>4
       DEF OfferContinuation, OpenForReplacement, RejectContinuation, MilestoneType
  <2>2. job' = job /\ UNCHANGED <<rows, disputes, ledger, page>>
    BY <1>4 DEF OfferContinuation, OpenForReplacement, RejectContinuation
  <2> QED BY <2>1, <2>2, MilestonesFinish
<1>5. ASSUME NEW m \in Milestones, AddMilestone(m)
      PROVE  FinishInv'
  <2>1. \A n \in Milestones : milestones'[n].status =
          IF n = m THEN "open" ELSE milestones[n].status
    BY <1>1, <1>5 DEF AddMilestone, MilestoneType
  <2>2. job' = job /\ UNCHANGED <<rows, disputes, ledger, page>>
    BY <1>5 DEF AddMilestone
  <2> QED BY <2>1, <2>2, MilestonesFinish
<1> QED BY <1>2, <1>3, <1>4, <1>5 DEF AgreeStep

\* The request that needs no ledger is refused where the row of an escrow is
\* anything but disputed, and its dispute may then only be settled or withdrawn.
LEMMA CancelFinishes ==
    ASSUME IInv, IInv', FinishInv, NEW m \in Milestones, CancelOffLedger(m)
    PROVE  FinishInv'
<1>1. milestones \in [Milestones -> MilestoneType] /\ disputes \in [Milestones -> DisputeType]
  BY TypeFields DEF IInv
<1>2. /\ rows[m].status \in {"none", "disputed"} /\ disputes[m] # "active"
      /\ job' = job /\ UNCHANGED <<rows, disputes, ledger, page>>
  BY DEF CancelOffLedger
<1>3. \A n \in Milestones : n # m => milestones'[n] = milestones[n]
  BY <1>1 DEF CancelOffLedger
<1>4. Linked(m) => Closed(m)
  <2> SUFFICES ASSUME Linked(m)
               PROVE  Closed(m)
    OBVIOUS
  <2>1. "disputed" \in ledger[rows[m].escrow].past
    BY <1>2 DEF FinishInv, StatusOK
  <2>2. rows[m].escrow \in Escrows /\ ledger[rows[m].escrow].milestone = m
    BY LinkedToEscrow DEF IInv, OrderInv, RowsOK
  <2>3. disputes[m] # "none"
    BY <2>1, <2>2 DEF FinishInv, PastOK
  <2>4. disputes[m] \in {"withdrawn", "settled"}
    BY <1>1, <1>2, <2>3 DEF DisputeType
  <2> QED BY <2>4 DEF FinishInv, StatusOK, Closed
<1> QED BY <1>2, <1>3, <1>4, MilestonesFinish

LEMMA RecordProofFinishes ==
    ASSUME IInv, IInv', FinishInv, NEW p \in Pages, RecordProof(p)
    PROVE  FinishInv'
<1> DEFINE m == page[p].milestone
<1>1. milestones \in [Milestones -> MilestoneType]
  BY TypeFields DEF IInv
<1>2. m \in Milestones
  BY DEF RecordProof, IInv, PageOK
<1>3. \A n \in Milestones : milestones'[n].status =
        IF n = m /\ milestones[m].revisionPolicy = "fixed" THEN "submitted"
        ELSE milestones[n].status
  BY <1>1, <1>2 DEF RecordProof, MilestoneType
<1>4. job' = job /\ UNCHANGED <<rows, disputes, ledger>> /\ Stop(p)
  BY DEF RecordProof
<1> QED BY <1>3, <1>4, MilestonesFinish

\* A dispute is opened once, and may be withdrawn.
LEMMA DisputeFinishes ==
    ASSUME IInv, IInv', FinishInv, NEW m \in Milestones,
           OpenDispute(m) \/ WithdrawDispute(m)
    PROVE  FinishInv'
<1>1. /\ UNCHANGED <<job, milestones, rows, ledger, page>>
      /\ disputes \in [Milestones -> DisputeType]
  BY TypeFields DEF IInv, OpenDispute, WithdrawDispute
<1>2. /\ disputes'[m] \in {"active", "withdrawn"} /\ disputes[m] # "withdrawn"
      /\ \A n \in Milestones : n # m => disputes'[n] = disputes[n]
  BY <1>1 DEF OpenDispute, WithdrawDispute
<1>3. Lasts
  BY <1>1, <1>2, LastsIfKept
<1>4. PastOK' /\ MarksOK'
  BY <1>1, <1>3, PagesMayStop
<1>5. StatusOK' /\ CancelledOK' /\ FinishedOK'
  BY <1>1, <1>2, <1>3, RowsKept
<1> QED BY <1>4, <1>5 DEF FinishInv

LEMMA PressFinishes ==
    ASSUME IInv, IInv', FinishInv, NEW p \in Pages, NEW m \in Milestones,
           NEW call \in Calls, Press(p, m, call)
    PROVE  FinishInv'
<1>1. page \in [Pages -> PageType] /\ UNCHANGED <<backendVars, ledger>>
  BY TypeFields DEF IInv, Press
<1>2. Lasts
  BY <1>1, LastsIfKept DEF backendVars
<1>3. PastOK'
  BY <1>1, <1>2, PastKept
<1>4. StatusOK' /\ CancelledOK' /\ FinishedOK'
  BY <1>1, <1>2, RowsKept DEF backendVars
<1>5. MarksOK'
  <2>1. /\ page'[p].call = call /\ page'[p].milestone = m
        /\ \A q \in Pages : q # p => page'[q] = page[q]
    BY <1>1 DEF Press
  <2>2. call = "disputed" => disputes[m] # "none"
    BY DEF Press, Offers
  <2> QED BY <1>1, <2>1, <2>2 DEF FinishInv, MarksOK, backendVars
<1> QED BY <1>3, <1>4, <1>5 DEF FinishInv

LEMMA FinishStepKeeps ==
    ASSUME IInv, IInv', FinishInv, [Next]_vars
    PROVE  FinishInv'
<1>1. CASE \E p \in Pages : PageStep(p)
  <2>1. ASSUME NEW p \in Pages, Close(p)
        PROVE  FinishInv'
    BY <2>1, MilestonesFinish DEF Close, backendVars
  <2> QED BY <1>1, <2>1, PressFinishes, CreateFinishes, CallLedgerFinishes,
             RecordEscrowFinishes, RecordStatusFinishes, RecordProofFinishes DEF PageStep
<1>2. CASE OtherStep
  BY <1>2, CancelFinishes, DisputeFinishes, RecordSettlementFinishes, SyncFinishes,
     SettleFinishes DEF OtherStep
<1>3. CASE UNCHANGED vars
  BY <1>3, MilestonesFinish DEF vars, backendVars
<1> QED BY <1>1, <1>2, <1>3, AgreeFinishes DEF Next

LEMMA InitUnfinished ==
    ASSUME Init
    PROVE  FinishInv
<1>1. \A m \in Milestones : ~Linked(m) /\ rows[m].status = "none" /\ disputes[m] = "none"
  BY DEF Init, NoRow, Linked
<1>2. \A e \in Escrows : ledger[e].status = "none" /\ ledger[e].past = {}
  BY DEF Init, NoEscrow
<1>3. \A p \in Pages : page[p].step = "idle"
  BY DEF Init, Idle
<1> QED BY <1>1, <1>2, <1>3 DEF FinishInv, PastOK, MarksOK, StatusOK, CancelledOK,
                               FinishedOK, Holds

\* A project shown as completed or cancelled holds no money in any escrow made
\* for it, those never recorded included, but for a milestone whose dispute
\* was withdrawn: whichever handler wrote the rows, and in whatever order.
THEOREM FinishedHoldsNothing == Spec => []CompletedHoldsNothing
<1>1. Init => FinishInv
  BY InitUnfinished
<1>2. IInv /\ IInv' /\ FinishInv /\ [Next]_vars => FinishInv'
  BY FinishStepKeeps
<1>3. IInv /\ FinishInv => CompletedHoldsNothing
  <2> SUFFICES ASSUME IInv, FinishInv, job \in {"completed", "cancelled"},
                      NEW e \in Escrows, Holds(e)
               PROVE  disputes[ledger[e].milestone] = "withdrawn"
    BY DEF CompletedHoldsNothing
  <2> DEFINE m == ledger[e].milestone
  <2>1. m \in Milestones
    BY DEF Holds, IInv, LedgerOK
  <2>2. rows[m].escrow = e
    BY DEF FinishInv, PastOK, IInv, OrderInv, MoneyIsRecorded
  <2>3. Linked(m)
    BY <2>2, Indices DEF Linked
  <2>4. Closed(m)
    BY <2>1, <2>3 DEF FinishInv, FinishedOK
  <2> QED BY <2>2, <2>4 DEF Closed, Holds, Terminal
<1> QED BY <1>1, <1>2, <1>3, Inductive, PTL DEF Spec

-----------------------------------------------------------------------------
(* The ledger seen from here implements Custody.  An escrow that can be     *)
(* disputed names a freelancer, because the page that creates one was       *)
(* pressed when its milestone had one, and no milestone loses hers.         *)

NamedOK ==
    /\ \A m \in Milestones :
         milestones[m].status = "assigned" => milestones[m].freelancer # None
    /\ \A p \in Pages :
         page[p].step # "idle" /\ page[p].call = "created" =>
             milestones[page[p].milestone].freelancer # None
    /\ \A e \in Escrows : ledger[e].status # "none" => ledger[e].freelancer # None

\* What a step may do to the freelancer of a milestone.
StaysNamed(m) ==
    \/ milestones'[m].freelancer # None
    \/ /\ milestones'[m].freelancer = milestones[m].freelancer
       /\ milestones'[m].status = "assigned" => milestones[m].status = "assigned"

LEMMA OneNamed ==
    ASSUME milestones \in [Milestones -> MilestoneType], NEW m \in Milestones,
           NEW new,
           milestones' = [milestones EXCEPT ![m] = new],
           \/ new.freelancer # None
           \/ /\ new.freelancer = milestones[m].freelancer
              /\ new.status = "assigned" => milestones[m].status = "assigned"
    PROVE  \A n \in Milestones : StaysNamed(n)
BY DEF StaysNamed

LEMMA PatchNames ==
    ASSUME milestones \in [Milestones -> MilestoneType], NEW m \in Milestones,
           NEW status, status # "assigned", PatchForEscrow(m, status)
    PROVE  \A n \in Milestones : StaysNamed(n)
<1> DEFINE new == [milestones[m] EXCEPT !.status =
                     IF status = "created" THEN "escrow_created" ELSE status]
<1>1. milestones' = [milestones EXCEPT ![m] = new]
  BY DEF PatchForEscrow, PutAndDerive
<1>2. new.freelancer = milestones[m].freelancer /\ new.status # "assigned"
  BY DEF MilestoneType
<1> HIDE DEF new
<1> QED BY <1>1, <1>2, OneNamed

LEMMA AgreeNames ==
    ASSUME IInv, AgreeStep
    PROVE  \A n \in Milestones : StaysNamed(n)
<1>0. milestones \in [Milestones -> MilestoneType]
  BY TypeFields DEF IInv
<1>1. ASSUME NEW f \in Freelancers, NEW group \in SUBSET Milestones, Assign(group, f)
      PROVE  \A n \in Milestones : StaysNamed(n)
  BY <1>0, <1>1, MilestoneConstants, ZenonT(30) DEF Assign, StaysNamed, MilestoneType
<1>2. ASSUME NEW f \in Freelancers, NEW m \in Milestones, AcceptContinuation(m, f)
      PROVE  \A n \in Milestones : StaysNamed(n)
  BY <1>0, <1>2, MilestoneConstants
     DEF AcceptContinuation, PutAndDerive, StaysNamed, MilestoneType
<1>3. ASSUME NEW f \in Freelancers, NEW m \in Milestones, RejectContinuation(m, f)
      PROVE  \A n \in Milestones : StaysNamed(n)
  BY <1>0, <1>3 DEF RejectContinuation, StaysNamed, MilestoneType
<1>4. ASSUME NEW m \in Milestones, OfferContinuation(m) \/ OpenForReplacement(m)
      PROVE  \A n \in Milestones : StaysNamed(n)
  BY <1>0, <1>4 DEF OfferContinuation, OpenForReplacement, StaysNamed, MilestoneType
<1>5. ASSUME NEW m \in Milestones, AddMilestone(m)
      PROVE  \A n \in Milestones : StaysNamed(n)
  BY <1>0, <1>5 DEF AddMilestone, StaysNamed, MilestoneType
<1> QED BY <1>1, <1>2, <1>3, <1>4, <1>5 DEF AgreeStep

LEMMA PageNames ==
    ASSUME IInv, NEW p \in Pages, PageStep(p)
    PROVE  \A n \in Milestones : StaysNamed(n)
<1>0. milestones \in [Milestones -> MilestoneType]
  BY TypeFields DEF IInv
<1>1. page[p].step = "recording" => page[p].milestone \in Milestones
  BY DEF IInv, PageOK
<1>2. CASE RecordEscrow(p)
  <2> DEFINE m == page[p].milestone
             new == [milestones[m] EXCEPT !.status = "escrow_created"]
  <2>1. m \in Milestones /\ milestones' = [milestones EXCEPT ![m] = new]
    BY <1>1, <1>2 DEF RecordEscrow, PutAndDerive
  <2>2. new.freelancer = milestones[m].freelancer /\ new.status # "assigned"
    BY <1>0, <2>1 DEF MilestoneType
  <2> HIDE DEF new
  <2> QED BY <1>0, <2>1, <2>2, OneNamed
<1>3. CASE RecordStatus(p)
  <2>1. page[p].call # "assigned" /\ PatchForEscrow(page[p].milestone, page[p].call)
    BY <1>3 DEF RecordStatus, Before
  <2> QED BY <1>0, <1>1, <1>3, <2>1, PatchNames DEF RecordStatus
<1>4. CASE RecordProof(p)
  BY <1>0, <1>4 DEF RecordProof, StaysNamed, MilestoneType
<1>5. CASE UNCHANGED milestones
  BY <1>5 DEF StaysNamed
<1>6. ASSUME \/ \E m \in Milestones, call \in Calls : Press(p, m, call)
             \/ \E e \in Escrows : CreateOnLedger(p, e)
             \/ CallLedger(p) \/ Close(p)
      PROVE  UNCHANGED milestones
  BY <1>6 DEF Press, CreateOnLedger, CallLedger, Close, backendVars
<1> QED BY <1>2, <1>3, <1>4, <1>5, <1>6 DEF PageStep

LEMMA OtherNames ==
    ASSUME IInv, OtherStep
    PROVE  \A n \in Milestones : StaysNamed(n)
<1>0. /\ milestones \in [Milestones -> MilestoneType]
      /\ ledger \in [Escrows -> EscrowType]
  BY TypeFields DEF IInv
<1>1. ASSUME NEW m \in Milestones, CancelOffLedger(m)
      PROVE  \A n \in Milestones : StaysNamed(n)
  BY <1>0, <1>1 DEF CancelOffLedger, StaysNamed, MilestoneType
<1>2. ASSUME NEW m \in Milestones, RecordSettlement(m)
      PROVE  \A n \in Milestones : StaysNamed(n)
  BY <1>0, <1>2, PatchNames DEF RecordSettlement, Terminal
<1>3. ASSUME NEW m \in Milestones, NEW status \in LedgerCalls, Sync(m, status)
      PROVE  \A n \in Milestones : StaysNamed(n)
  BY <1>0, <1>3, PatchNames DEF Sync, LedgerCalls
<1>4. CASE UNCHANGED milestones
  BY <1>4 DEF StaysNamed
<1>5. ASSUME \/ \E m \in Milestones : OpenDispute(m) \/ WithdrawDispute(m)
             \/ \E e \in Escrows, status \in Terminal : Settle(e, status)
      PROVE  UNCHANGED milestones
  BY <1>5 DEF OpenDispute, WithdrawDispute, Settle, backendVars
<1> QED BY <1>1, <1>2, <1>3, <1>4, <1>5 DEF OtherStep

LEMMA FreelancersStay ==
    ASSUME IInv, [Next]_vars
    PROVE  \A n \in Milestones : StaysNamed(n)
<1>1. CASE UNCHANGED vars
  BY <1>1 DEF vars, backendVars, StaysNamed
<1> QED BY <1>1, AgreeNames, PageNames, OtherNames DEF Next

\* The steps of the ledger.
LEMMA LedgerSteps ==
    ASSUME IInv, [Next]_vars
    PROVE  \/ UNCHANGED ledger
           \/ \E p \in Pages, e \in Escrows : CreateOnLedger(p, e)
           \/ \E e \in Escrows, status \in Moves :
                /\ \/ status \in DOMAIN Before /\ ledger[e].status \in Before[status]
                   \/ status \in Terminal /\ ledger[e].status = "disputed"
                /\ Enter(e, status)
                /\ \A p \in Pages : page'[p].step # "idle" =>
                     page[p].step # "idle" /\ page'[p].call = page[p].call
                       /\ page'[p].milestone = page[p].milestone
<1>1. page \in [Pages -> PageType] /\ rows \in [Milestones -> RowType]
  BY TypeFields DEF IInv
<1>2. CASE AgreeStep
  BY <1>2 DEF AgreeStep, Assign, AcceptContinuation, RejectContinuation,
     OfferContinuation, OpenForReplacement, AddMilestone
<1>3. ASSUME NEW p \in Pages, CallLedger(p)
      PROVE  \E e \in Escrows, status \in Moves :
                /\ status \in DOMAIN Before /\ ledger[e].status \in Before[status]
                /\ Enter(e, status)
                /\ \A q \in Pages : page'[q].step # "idle" =>
                     page[q].step # "idle" /\ page'[q].call = page[q].call
                       /\ page'[q].milestone = page[q].milestone
  <2> DEFINE e == page[p].escrow
             call == page[p].call
  <2>1. /\ call \in Moves /\ ledger[e].status \in Before[call] /\ Enter(e, call)
        /\ page[p].step = "calling"
        /\ page' = [page EXCEPT ![p].step = "recording"]
    BY <1>3, MovesAreDomain DEF CallLedger
  <2>2. e \in Escrows
    BY <1>1, <2>1 DEF IInv, PageOK, Linked, RowType
  <2>3. \A q \in Pages : page'[q].step # "idle" =>
          page[q].step # "idle" /\ page'[q].call = page[q].call
            /\ page'[q].milestone = page[q].milestone
    BY <1>1, <2>1 DEF PageType
  <2> QED BY <2>1, <2>2, <2>3, MovesAreDomain
<1>4. ASSUME NEW p \in Pages, PageStep(p), ~CallLedger(p),
             \A e \in Escrows : ~CreateOnLedger(p, e)
      PROVE  UNCHANGED ledger
  BY <1>4 DEF PageStep, Press, RecordEscrow, RecordStatus, RecordProof, Close
<1>5. ASSUME NEW m \in Milestones,
             \/ CancelOffLedger(m) \/ OpenDispute(m) \/ WithdrawDispute(m)
             \/ RecordSettlement(m)
             \/ \E status \in LedgerCalls : Sync(m, status)
      PROVE  UNCHANGED ledger
  BY <1>5 DEF CancelOffLedger, OpenDispute, WithdrawDispute, RecordSettlement, Sync
<1>6. ASSUME NEW e \in Escrows, NEW status \in Terminal, Settle(e, status)
      PROVE  /\ status \in Moves /\ ledger[e].status = "disputed" /\ Enter(e, status)
             /\ page' = page
  BY <1>6 DEF Settle, Terminal, Moves
<1>7. CASE UNCHANGED vars
  BY <1>7 DEF vars
<1> QED BY <1>2, <1>3, <1>4, <1>5, <1>6, <1>7 DEF Next, OtherStep

\* What entering a status does to the view.
StageOf(status) ==
    CASE status = "none"      -> "none"
      [] status = "created"   -> "open"
      [] status = "disputed"  -> "disputed"
      [] status \in {"funded", "submitted"} -> "held"
      [] OTHER -> "closed"

StageView == [e \in Escrows |-> StageOf(ledger[e].status)]
WorkerView == [e \in Escrows |-> ledger[e].freelancer]

LEMMA EnterView ==
    ASSUME ledger \in [Escrows -> EscrowType], NEW e \in Escrows, NEW status,
           Enter(e, status)
    PROVE  /\ ledger'[e].status = status
           /\ \A d \in Escrows : ledger'[d].freelancer = ledger[d].freelancer
           /\ \A d \in Escrows \ {e} : ledger'[d] = ledger[d]
           /\ StageView[e] = StageOf(ledger[e].status)
           /\ WorkerView[e] = ledger[e].freelancer
           /\ StageView' = [StageView EXCEPT ![e] = StageOf(status)]
           /\ UNCHANGED WorkerView
           /\ StageOf(ledger[e].status) = StageOf(status) => UNCHANGED StageView
<1>1. /\ ledger'[e].status = status
      /\ \A d \in Escrows : ledger'[d].freelancer = ledger[d].freelancer
      /\ \A d \in Escrows \ {e} : ledger'[d] = ledger[d]
  BY DEF Enter, EscrowType
<1>2. /\ StageView[e] = StageOf(ledger[e].status)
      /\ WorkerView[e] = ledger[e].freelancer
  BY DEF StageView, WorkerView
<1>3. /\ StageView' = [StageView EXCEPT ![e] = StageOf(status)]
      /\ UNCHANGED WorkerView
      /\ StageOf(ledger[e].status) = StageOf(status) => UNCHANGED StageView
  BY <1>1 DEF StageView, WorkerView
<1> QED BY <1>1, <1>2, <1>3

\* A page that makes a call was making it before, or is pressed now.
LEMMA PagesStart ==
    ASSUME IInv, [Next]_vars, NEW p \in Pages, page'[p].step # "idle"
    PROVE  \/ /\ page[p].step # "idle" /\ page'[p].call = page[p].call
              /\ page'[p].milestone = page[p].milestone
           \/ \E m \in Milestones, call \in Calls :
                /\ Offers(m, call) /\ UNCHANGED milestones
                /\ page'[p].call = call /\ page'[p].milestone = m
<1>1. page \in [Pages -> PageType]
  BY TypeFields DEF IInv
<1>2. CASE page' = page
  BY <1>2
<1>3. ASSUME NEW q \in Pages, NEW m \in Milestones, NEW call \in Calls,
             Press(q, m, call), p = q
      PROVE  /\ Offers(m, call) /\ UNCHANGED milestones
             /\ page'[p].call = call /\ page'[p].milestone = m
  BY <1>1, <1>3 DEF Press, backendVars
<1>4. ASSUME NEW q \in Pages, p # q,
             \/ \E m \in Milestones, call \in Calls : Press(q, m, call)
             \/ \E e \in Escrows : CreateOnLedger(q, e)
             \/ CallLedger(q)
      PROVE  page'[p] = page[p]
  BY <1>1, <1>4 DEF Press, CreateOnLedger, CallLedger
<1>5. ASSUME \/ \E e \in Escrows : CreateOnLedger(p, e)
             \/ CallLedger(p)
      PROVE  /\ page[p].step # "idle" /\ page'[p].call = page[p].call
             /\ page'[p].milestone = page[p].milestone
  BY <1>1, <1>5 DEF CreateOnLedger, CallLedger, PageType
<1>6. ASSUME NEW q \in Pages, Stop(q)
      PROVE  page'[p] = page[p]
  BY <1>1, <1>6 DEF Stop, Idle
<1>7. ASSUME NEW q \in Pages,
             RecordEscrow(q) \/ RecordStatus(q) \/ RecordProof(q) \/ Close(q)
      PROVE  Stop(q)
  BY <1>7 DEF RecordEscrow, RecordStatus, RecordProof, Close
<1>8. CASE AgreeStep
  BY <1>2, <1>8 DEF AgreeStep, Assign, AcceptContinuation, RejectContinuation,
     OfferContinuation, OpenForReplacement, AddMilestone
<1>9. CASE OtherStep
  BY <1>2, <1>9 DEF OtherStep, CancelOffLedger, OpenDispute, WithdrawDispute,
     RecordSettlement, Sync, Settle
<1>10. CASE UNCHANGED vars
  BY <1>2, <1>10 DEF vars
<1>11. ASSUME NEW q \in Pages, PageStep(q)
       PROVE  \/ /\ page[p].step # "idle" /\ page'[p].call = page[p].call
                 /\ page'[p].milestone = page[p].milestone
              \/ \E m \in Milestones, call \in Calls :
                   /\ Offers(m, call) /\ UNCHANGED milestones
                   /\ page'[p].call = call /\ page'[p].milestone = m
  <2>1. CASE p = q
    BY <1>3, <1>5, <1>6, <1>7, <1>11, <2>1 DEF PageStep
  <2>2. CASE p # q
    <3>1. page'[p] = page[p]
      BY <1>4, <1>6, <1>7, <1>11, <2>2 DEF PageStep
    <3> QED BY <3>1
  <2> QED BY <2>1, <2>2
<1> QED BY <1>8, <1>9, <1>10, <1>11 DEF Next

LEMMA NamedStep ==
    ASSUME IInv, NamedOK, [Next]_vars
    PROVE  NamedOK'
<1>1. \A m \in Milestones :
         milestones'[m].status = "assigned" => milestones'[m].freelancer # None
  BY FreelancersStay DEF NamedOK, StaysNamed
<1>2. \A m \in Milestones :
         milestones[m].freelancer # None => milestones'[m].freelancer # None
  BY FreelancersStay DEF StaysNamed
<1>3. ASSUME NEW p \in Pages, page'[p].step # "idle", page'[p].call = "created"
      PROVE  milestones'[page'[p].milestone].freelancer # None
  <2>1. CASE /\ page[p].step # "idle" /\ page'[p].call = page[p].call
             /\ page'[p].milestone = page[p].milestone
    <3>1. page[p].milestone \in Milestones
      BY <2>1 DEF IInv, PageOK
    <3> QED BY <1>2, <1>3, <2>1, <3>1 DEF NamedOK
  <2>2. ASSUME NEW m \in Milestones, NEW call \in Calls, Offers(m, call),
               UNCHANGED milestones, page'[p].call = call, page'[p].milestone = m
        PROVE  milestones'[page'[p].milestone].freelancer # None
    <3>1. milestones[m].status = "assigned"
      BY <1>3, <2>2 DEF Offers
    <3> QED BY <2>2, <3>1 DEF NamedOK
  <2> QED BY <1>3, <2>1, <2>2, PagesStart
<1>4. \A e \in Escrows : ledger'[e].status # "none" => ledger'[e].freelancer # None
  <2>0. ledger \in [Escrows -> EscrowType]
    BY TypeFields DEF IInv
  <2>1. CASE UNCHANGED ledger
    BY <2>1 DEF NamedOK
  <2>2. ASSUME NEW p \in Pages, NEW e \in Escrows, CreateOnLedger(p, e)
        PROVE  \A d \in Escrows :
                 ledger'[d].status # "none" => ledger'[d].freelancer # None
    <3>1. milestones[page[p].milestone].freelancer # None
      BY <2>2 DEF CreateOnLedger, NamedOK
    <3>2. /\ ledger'[e].freelancer = milestones[page[p].milestone].freelancer
          /\ \A d \in Escrows \ {e} : ledger'[d] = ledger[d]
      BY <2>0, <2>2 DEF CreateOnLedger
    <3> QED BY <3>1, <3>2 DEF NamedOK
  <2>3. ASSUME NEW e \in Escrows, NEW status \in Moves, Enter(e, status),
               ledger[e].status # "none"
        PROVE  \A d \in Escrows :
                 ledger'[d].status # "none" => ledger'[d].freelancer # None
    BY <2>0, <2>3, EnterView DEF NamedOK
  <2>4. \A status \in DOMAIN Before : "none" \notin Before[status]
    BY DEF Before
  <2> QED BY <2>1, <2>2, <2>3, <2>4, LedgerSteps
<1> QED BY <1>1, <1>3, <1>4 DEF NamedOK

LEMMA MilestoneCustodyStep ==
    ASSUME IInv, NamedOK, [Next]_vars
    PROVE  [Keeping!Next]_(<<StageView, WorkerView>>)
<1> USE DEF Keeping!Move
<1>0. ledger \in [Escrows -> EscrowType]
  BY TypeFields DEF IInv
<1>1. CASE UNCHANGED ledger
  BY <1>1 DEF StageView, WorkerView
<1>2. ASSUME NEW p \in Pages, NEW e \in Escrows, CreateOnLedger(p, e)
      PROVE  Keeping!Next
  <2>1. PICK f \in Freelancers \cup {None} :
          f = milestones[page[p].milestone].freelancer
    <3>1. page[p].milestone \in Milestones
      BY <1>2 DEF CreateOnLedger, IInv, PageOK
    <3> QED BY <3>1, TypeFields DEF IInv, MilestoneType
  <2>2. /\ ledger[e].status = "none"
        /\ ledger'[e].status = "created" /\ ledger'[e].freelancer = f
        /\ \A d \in Escrows \ {e} : ledger'[d] = ledger[d]
    BY <1>0, <1>2, <2>1 DEF CreateOnLedger
  <2>3. /\ StageView[e] = "none"
        /\ StageView' = [StageView EXCEPT ![e] = "open"]
        /\ WorkerView' = [WorkerView EXCEPT ![e] = f]
    BY <2>2 DEF StageView, WorkerView, StageOf
  <2>4. Keeping!Create(e, "open", f)
    BY <2>3 DEF Keeping!Create, StageView, WorkerView, StageOf
  <2> QED BY <2>4 DEF Keeping!Next
<1>3. ASSUME NEW e \in Escrows, NEW status \in Moves, Enter(e, status),
             \/ status \in DOMAIN Before /\ ledger[e].status \in Before[status]
             \/ status \in Terminal /\ ledger[e].status = "disputed"
      PROVE  [Keeping!Next]_(<<StageView, WorkerView>>)
  <2> DEFINE from == StageOf(ledger[e].status)
             to   == StageOf(status)
  <2>1. \/ from = "open" /\ to = "held"
        \/ from = "held" /\ to \in {"held", "disputed"}
        \/ from \in {"open", "held", "disputed"} /\ to = "closed"
    BY <1>3 DEF Before, Terminal, Moves, StageOf
  <2>2. WorkerView[e] # None
    <3>1. ledger[e].status # "none"
      BY <1>3 DEF Before
    <3> QED BY <1>0, <1>3, <3>1, EnterView DEF NamedOK
  <2> HIDE DEF from, to
  <2>3. /\ StageView' = [StageView EXCEPT ![e] = to] /\ UNCHANGED WorkerView
        /\ from = to => UNCHANGED StageView
        /\ StageView[e] = from
    BY <1>0, <1>3, EnterView DEF from, to
  <2>4. CASE from = "open" /\ to = "held"
    <3>1. Keeping!Fund(e)
      BY <2>3, <2>4 DEF Keeping!Fund, StageView, WorkerView, StageOf
    <3> QED BY <3>1 DEF Keeping!Next
  <2>5. CASE from = "held" /\ to = "disputed"
    <3>1. Keeping!Dispute(e)
      BY <2>2, <2>3, <2>5 DEF Keeping!Dispute, StageView, WorkerView, StageOf
    <3> QED BY <3>1 DEF Keeping!Next
  <2>6. CASE from \in {"open", "held", "disputed"} /\ to = "closed"
    <3>1. Keeping!Close(e)
      BY <2>3, <2>6 DEF Keeping!Close, StageView, WorkerView, StageOf
    <3> QED BY <3>1 DEF Keeping!Next
  <2>7. CASE from = to
    BY <2>3, <2>7
  <2> QED BY <2>1, <2>4, <2>5, <2>6, <2>7
<1> QED BY <1>1, <1>2, <1>3, LedgerSteps

\* The escrows of a project, however many pages create them: each moves as the
\* contract promises, keeps the freelancer its milestone had when it was
\* created, and is disputed only with one.
THEOREM MilestonesKeepCustody == Spec => KeepsCustody
<1>1. Init => Keeping!Init /\ NamedOK
  <2> SUFFICES ASSUME Init PROVE Keeping!Init /\ NamedOK
    OBVIOUS
  <2>1. \A e \in Escrows : ledger[e].status = "none" /\ ledger[e].freelancer = None
    BY DEF Init, NoEscrow
  <2>2. Keeping!Init
    BY <2>1 DEF Keeping!Init
  <2>3. \A p \in Pages : page[p].step = "idle"
    BY DEF Init, Idle
  <2>4. \A m \in Milestones : milestones[m].status \in {"none", "open"}
    <3>1. PICK size \in Milestones, policy \in [Milestones -> RevisionPolicy] :
            milestones = [m \in Milestones |->
              IF m > size THEN Blank
              ELSE [Blank EXCEPT !.status = "open",
                                 !.gate = IF m = 1 THEN "open" ELSE "locked",
                                 !.revisionPolicy = policy[m]]]
      BY DEF Init
    <3>2. TAKE m \in Milestones
    <3>3. CASE m > size
      BY <3>1, <3>3 DEF Blank
    <3>4. CASE ~(m > size)
      BY <3>1, <3>4 DEF Blank
    <3> QED BY <3>3, <3>4
  <2> QED BY <2>1, <2>2, <2>3, <2>4 DEF NamedOK
<1>2. IInv /\ NamedOK /\ [Next]_vars => NamedOK'
  BY NamedStep
<1>3. IInv /\ NamedOK /\ [Next]_vars => [Keeping!Next]_(Keeping!vars)
  BY MilestoneCustodyStep DEF Keeping!vars, StageView, WorkerView, StageOf
<1> QED BY <1>1, <1>2, <1>3, Inductive, PTL
        DEF Spec, KeepsCustody, Keeping!Spec, Keeping!Kept
=============================================================================
