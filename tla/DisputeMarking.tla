---------------------------- MODULE DisputeMarking ----------------------------
(***************************************************************************)
(* A party that opens a dispute has the contract mark the escrow as        *)
(* disputed.  The run of the page is markDisputeOnChainStarted, the        *)
(* contract call, and then markDisputeOnChainSucceeded and the status of   *)
(* the escrows row, or markDisputeOnChainFailed.  The dialog that opens a  *)
(* dispute runs it at once; the dispute's panel, and an admin's page after *)
(* a failure, run it again.                                                *)
(*                                                                         *)
(* Several pages may run it at the same time, each may be closed at any    *)
(* point, a transaction may land, expire or be refused whether or not its  *)
(* page still waits for it, and the parties may cancel or reopen the       *)
(* dispute meanwhile.  The escrow on the ledger and its row are reduced to *)
(* what the marking looks at: "held" (funded or submitted), "disputed" or  *)
(* "closed" (released, cancelled or resolved).                             *)
(***************************************************************************)
EXTENDS Integers

CONSTANTS
    Parties,     \* open pages of the client and the freelancer
    Admins,      \* open pages of dispute admins
    Disputes,    \* the disputes that may be opened of the escrow
    MaxTx,       \* bound: how many transactions are signed
    None

ASSUME MarkingConstants ==
    /\ Parties \cap Admins = {}
    /\ MaxTx \in Nat
    /\ None \notin Nat /\ None \notin Disputes

Pages == Parties \cup Admins
Txs == 1 .. MaxTx

VARIABLES
    ledger,      \* the escrow: its status, and the transaction that marked it
    row,         \* the status of the escrows row
    disputes,    \* the disputes rows: status, onChainStatus, transactionHash
    page,        \* what each page runs
    sentFor,     \* the dispute each transaction was signed for
    flight,      \* transactions submitted and not decided
    shared       \* disputes with a run that was not one party's alone: an
                 \* admin's, or one that started while another was marking

ledgerVars == <<ledger, flight>>
convexVars == <<row, disputes>>
vars == <<ledgerVars, convexVars, page, sentFor, shared>>

-----------------------------------------------------------------------------
Status == {"held", "disputed", "closed"}
Marks == {"not_marked", "marking", "marked", "mark_failed"}

Absent == [status |-> "none", mark |-> "not_marked", hash |-> None]
Idle == [step |-> "idle", via |-> "none", dispute |-> None, tx |-> None]

Existing == {d \in Disputes : disputes[d].status # "none"}
IsActive(d) == disputes[d].status = "active"
Unsigned == {t \in Txs : sentFor[t] = None}
IsNext(t) == t \in Unsigned /\ \A other \in Unsigned : t <= other

Goto(p, step) == page' = [page EXCEPT ![p].step = step]
Stop(p) == page' = [page EXCEPT ![p] = Idle]

Init ==
    /\ ledger = [status |-> "held", by |-> None]
    /\ row = "held"
    /\ disputes = [d \in Disputes |-> Absent]
    /\ page = [p \in Pages |-> Idle]
    /\ sentFor = [t \in Txs |-> None]
    /\ flight = {}
    /\ shared = {}

-----------------------------------------------------------------------------
(* Starting.                                                                *)

Begin(p, via, d) ==
    page' = [page EXCEPT ![p] = [step |-> "starting", via |-> via,
                                 dispute |-> d, tx |-> None]]

\* createDispute by the dialog, which goes on to the marking.
Open(p, d) ==
    /\ p \in Parties /\ page[p] = Idle
    /\ d \notin Existing /\ row = "held"
    /\ \A other \in Disputes : ~IsActive(other)
    /\ disputes' = [disputes EXCEPT ![d].status = "active"]
    /\ Begin(p, "dialog", d)
    /\ UNCHANGED <<ledgerVars, row, sentFor, shared>>

\* getDisputeMarkingPresentation: when the panel offers to mark (again).
Offered(d) ==
    /\ IsActive(d)
    /\ disputes[d].mark \in {"not_marked", "mark_failed"}
    /\ disputes[d].hash = None

\* handleRetryMarkDisputed of the panel
Retry(p, d) ==
    /\ p \in Parties /\ page[p] = Idle
    /\ Offered(d)
    /\ Begin(p, "panel", d)
    /\ UNCHANGED <<ledgerVars, convexVars, sentFor, shared>>

\* handleRetryMarkDisputed of the admin's page, which does not look at a hash
RetryByAdmin(p, d) ==
    /\ p \in Admins /\ page[p] = Idle
    /\ disputes[d].mark = "mark_failed"
    /\ Begin(p, "admin", d)
    /\ shared' = shared \cup {d}
    /\ UNCHANGED <<ledgerVars, convexVars, sentFor>>

\* The guards of markDisputeOnChainStarted.
MayStart(d) ==
    /\ IsActive(d)
    /\ \/ disputes[d].mark = "marking"
       \/ disputes[d].mark \in {"not_marked", "mark_failed"}
            /\ disputes[d].hash = None

\* markDisputeOnChainStarted: a second page that starts is let through.
StartMarking(p) ==
    LET d == page[p].dispute
    IN  /\ page[p].step = "starting" /\ MayStart(d)
        /\ disputes' = [disputes EXCEPT ![d].mark = "marking"]
        /\ shared' = IF disputes[d].mark = "marking"
                       THEN shared \cup {d} ELSE shared
        /\ Goto(p, "signing")
        /\ UNCHANGED <<ledgerVars, row, sentFor>>

\* The wallet is not ready or the start is refused: a party's page ends, an
\* admin's reports a failure all the same.
FailStart(p) ==
    /\ page[p].step = "starting"
    /\ IF p \in Admins THEN Goto(p, "failing") ELSE Stop(p)
    /\ UNCHANGED <<ledgerVars, convexVars, sentFor, shared>>

-----------------------------------------------------------------------------
(* The contract call, invokeContract.                                       *)

\* The wallet signs and onSigned keeps the hash.
Sign(p, t) ==
    /\ page[p].step = "signing" /\ IsNext(t)
    /\ sentFor' = [sentFor EXCEPT ![t] = page[p].dispute]
    /\ page' = [page EXCEPT ![p].step = "signed", ![p].tx = t]
    /\ UNCHANGED <<ledgerVars, convexVars, shared>>

\* The simulation fails or the wallet declines: nothing was signed.
Decline(p) ==
    /\ page[p].step = "signing"
    /\ Goto(p, "failing")
    /\ UNCHANGED <<ledgerVars, convexVars, sentFor, shared>>

Submit(p) ==
    /\ page[p].step = "signed"
    /\ flight' = flight \cup {page[p].tx}
    /\ Goto(p, "waiting")
    /\ UNCHANGED <<ledger, convexVars, sentFor, shared>>

\* mark_disputed takes an escrow that is funded or submitted.
Land(t) ==
    /\ ledger.status = "held"
    /\ ledger' = [status |-> "disputed", by |-> t]
    /\ flight' = flight \ {t}
    /\ UNCHANGED <<convexVars, page, sentFor, shared>>

\* The contract refuses the transaction, or it expires.
Drop(t) ==
    /\ flight' = flight \ {t}
    /\ UNCHANGED <<ledger, convexVars, page, sentFor, shared>>

\* pollTransaction finds it confirmed: a party's page records the mark and
\* then the row, an admin's the row and then the mark.
Confirm(p) ==
    /\ page[p].step = "waiting" /\ ledger.by = page[p].tx
    /\ Goto(p, IF p \in Admins THEN "updating" ELSE "recording")
    /\ UNCHANGED <<ledgerVars, convexVars, sentFor, shared>>

\* A mutant: an unknown outcome counts as a failure before submission.
LoseTrackAsFailure(p) ==
    /\ page[p].step \in {"signed", "waiting"}
    /\ Goto(p, "failing")
    /\ UNCHANGED <<ledgerVars, convexVars, sentFor, shared>>

\* An error after the signature, isParticipantOutcomeUncertain: the dispute
\* stays as it is, and the panel remembers.  An admin's page reports the
\* failure with its hash.
LoseTrack(p) ==
    /\ page[p].step \in {"signed", "waiting"}
    /\ CASE page[p].via = "admin"  -> Goto(p, "failing_known")
         [] page[p].via = "panel"  -> Goto(p, "pending")
         [] page[p].via = "dialog" -> Stop(p)
    /\ UNCHANGED <<ledgerVars, convexVars, sentFor, shared>>

-----------------------------------------------------------------------------
(* Recording.                                                               *)

\* assertDisputeTransactionHashDoesNotConflict
Agrees(d, hash) ==
    disputes[d].hash = None \/ hash = None \/ disputes[d].hash = hash

\* A mutant: a hash that is recorded already is not compared.
MayRecordAny(d, hash) ==
    \/ disputes[d].mark = "marked"
    \/ IsActive(d) /\ disputes[d].mark \in {"marking", "mark_failed"}

MayRecord(d, hash) ==
    /\ Agrees(d, hash)
    /\ \/ disputes[d].mark = "marked"
       \/ IsActive(d) /\ disputes[d].mark \in {"marking", "mark_failed"}

\* markDisputeOnChainSucceeded
RecordMark(p) ==
    LET d == page[p].dispute
        t == page[p].tx
    IN  /\ page[p].step = "recording" /\ MayRecord(d, t)
        /\ disputes' = [disputes EXCEPT ![d].mark = "marked",
                                        ![d].hash = IF @ = None THEN t ELSE @]
        /\ IF p \in Admins THEN Stop(p) ELSE Goto(p, "updating")
        /\ UNCHANGED <<ledgerVars, row, sentFor, shared>>

\* updateEscrowStatus, whatever the row was
RecordRow(p) ==
    /\ page[p].step = "updating"
    /\ row' = "disputed"
    /\ IF p \in Admins THEN Goto(p, "recording") ELSE Stop(p)
    /\ UNCHANGED <<ledgerVars, disputes, sentFor, shared>>

\* A recording is refused or fails: the panel offers to repeat it, the dialog
\* only shows it, and an admin's page reports a failure without a hash.
FailRecording(p) ==
    /\ page[p].step \in {"recording", "updating"}
    /\ CASE page[p].via = "admin"  -> Goto(p, "failing")
         [] page[p].via = "panel"  -> Goto(p, "confirmed")
         [] page[p].via = "dialog" -> Stop(p)
    /\ UNCHANGED <<ledgerVars, convexVars, sentFor, shared>>

\* handleRetryRecording
RetryRecording(p) ==
    /\ page[p].step = "confirmed"
    /\ Goto(p, "recording")
    /\ UNCHANGED <<ledgerVars, convexVars, sentFor, shared>>

\* A mutant: a failure is written over a confirmed mark.
AfterFailureOfAny(d, hash) ==
    IF IsActive(d) /\ Agrees(d, hash)
      THEN [disputes[d] EXCEPT !.mark = "mark_failed"] ELSE disputes[d]

\* What markDisputeOnChainFailed leaves: it changes an active dispute only,
\* and never a confirmed mark or a hash that is there.
AfterFailure(d, hash) ==
    IF /\ IsActive(d) /\ Agrees(d, hash)
       /\ disputes[d].mark \in {"marking", "mark_failed"}
      THEN [disputes[d] EXCEPT !.mark = "mark_failed",
                               !.hash = IF @ = None THEN hash ELSE @]
      ELSE disputes[d]

ReportFailure(p) ==
    LET d == page[p].dispute
    IN  /\ page[p].step \in {"failing", "failing_known"}
        /\ disputes' =
             [disputes EXCEPT ![d] =
                AfterFailure(d, IF page[p].step = "failing_known"
                                  THEN page[p].tx ELSE None)]
        /\ Stop(p)
        /\ UNCHANGED <<ledgerVars, row, sentFor, shared>>

\* The page is closed, or its wallet changes: nothing more of the run happens
\* but what the ledger has in hand.
Close(p) ==
    /\ page[p] # Idle
    /\ Stop(p)
    /\ UNCHANGED <<ledgerVars, convexVars, sentFor, shared>>

-----------------------------------------------------------------------------
(* The rest of the platform.                                                *)

\* changeDisputeStatus, by either party, from any status
ChangeDisputeStatus(d, status) ==
    /\ disputes[d].status \notin {"none", status}
    /\ disputes' = [disputes EXCEPT ![d].status = status]
    /\ UNCHANGED <<ledgerVars, row, page, sentFor, shared>>

\* The client releases or cancels, or an admin resolves, on the ledger.
CloseEscrow ==
    /\ ledger.status \in {"held", "disputed"}
    /\ ledger' = [ledger EXCEPT !.status = "closed"]
    /\ UNCHANGED <<flight, convexVars, page, sentFor, shared>>

\* applyEscrowStatusSync, for which a dispute is final
Sync ==
    /\ row = "held"
    /\ row' = ledger.status
    /\ UNCHANGED <<ledgerVars, disputes, page, sentFor, shared>>

\* recordDisputeResolutionSucceeded
RecordSettlement(d) ==
    /\ ledger.status = "closed" /\ ledger.by # None
    /\ row = "disputed" /\ IsActive(d)
    /\ row' = "closed"
    /\ disputes' = [disputes EXCEPT ![d].status = "resolved"]
    /\ UNCHANGED <<ledgerVars, page, sentFor, shared>>

-----------------------------------------------------------------------------
PageStep(p) ==
    \/ \E d \in Disputes : Open(p, d) \/ Retry(p, d) \/ RetryByAdmin(p, d)
    \/ StartMarking(p) \/ FailStart(p)
    \/ \E t \in Txs : Sign(p, t)
    \/ Decline(p) \/ Submit(p) \/ Confirm(p) \/ LoseTrack(p)
    \/ RecordMark(p) \/ RecordRow(p) \/ FailRecording(p)
    \/ RetryRecording(p) \/ ReportFailure(p) \/ Close(p)

DisputeStep(d) ==
    \/ RecordSettlement(d)
    \/ \E status \in {"active", "cancelled"} : ChangeDisputeStatus(d, status)

Next ==
    \/ \E p \in Pages : PageStep(p)
    \/ \E t \in flight : Land(t) \/ Drop(t)
    \/ \E d \in Disputes : DisputeStep(d)
    \/ CloseEscrow \/ Sync

Spec == Init /\ [][Next]_vars

-----------------------------------------------------------------------------
(* Properties.                                                              *)

Steps == {"idle", "starting", "signing", "signed", "waiting", "recording",
          "updating", "confirmed", "pending", "failing", "failing_known"}

\* Type invariant.
TypeOK ==
    /\ ledger \in [status : Status, by : Txs \cup {None}]
    /\ row \in Status
    /\ disputes \in [Disputes ->
         [status : {"none", "active", "cancelled", "resolved"}, mark : Marks,
          hash : Txs \cup {None}]]
    /\ page \in [Pages ->
         [step : Steps, via : {"none", "dialog", "panel", "admin"},
          dispute : Disputes \cup {None}, tx : Txs \cup {None}]]
    /\ sentFor \in [Txs -> Disputes \cup {None}]
    /\ flight \subseteq Txs
    /\ shared \subseteq Disputes

\* A dispute shows as marked only with the hash of the very transaction that
\* marked the escrow on the ledger, and that was signed for this dispute: not
\* for one cancelled before it, nor by a page whose own transaction the
\* contract refused since another came first.
MarkIsProven ==
    \A d \in Disputes : disputes[d].mark = "marked" =>
        /\ disputes[d].hash \in Txs
        /\ ledger.by = disputes[d].hash
        /\ sentFor[disputes[d].hash] = d

\* A confirmed mark and its hash are final: late starts, failures and
\* successes of any page, a cancel and a reopening all leave them.
MarkIsFinal ==
    [][\A d \in Disputes : disputes[d].mark = "marked" =>
         /\ disputes'[d].mark = "marked"
         /\ disputes'[d].hash = disputes[d].hash]_vars

NothingSent(d) ==
    \A t \in Txs : sentFor[t] = d => t \notin flight /\ ledger.by # t

\* While every run of a dispute is one party's alone, however many pages it
\* takes and however they end, the panel offers another only when no
\* transaction of an earlier run is on its way or has marked the escrow.
RetryIsSafeAlone ==
    \A d \in Disputes \ shared : Offered(d) => NothingSent(d)

\* The same of every dispute, as the panel says it ("failed before a
\* transaction hash was recorded. You can retry").
RetryIsSafe == \A d \in Disputes : Offered(d) => NothingSent(d)

\* The view of the ledger in this module, where the escrow is held already.
Keeping == INSTANCE Custody WITH
    Escrows <- {"escrow"}, Workers <- {"freelancer"}, Nobody <- "nobody",
    stage  <- [e \in {"escrow"} |-> ledger.status],
    worker <- [e \in {"escrow"} |-> "freelancer"]

\* The ledger of this module moves as the contract promises: of all the
\* transactions signed to mark the escrow one is taken in, and none once it is
\* closed.
KeepsCustody == Keeping!Kept

=============================================================================
