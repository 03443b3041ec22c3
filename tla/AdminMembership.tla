--------------------------- MODULE AdminMembership ---------------------------
(***************************************************************************)
(* Appointing and dismissing one wallet as a dispute admin.  The owner's   *)
(* page (admin-admins-page.tsx) starts an operation in the database, has   *)
(* the wallet sign, records the signed transaction and only then submits   *)
(* it; the recover route reads the ledger and completes the operation      *)
(* (app/api/admin/admins, convex/admin/mutations.ts).                      *)
(*                                                                         *)
(* The owner may have several pages open, each working on what its list    *)
(* showed it some time ago.  A request of the recover route is a process   *)
(* of its own, since it waits for the database, for the ledger twice and   *)
(* for the database again.                                                 *)
(***************************************************************************)
EXTENDS Integers, FiniteSets

CONSTANTS
    MaxOps,    \* bound: operations, one per press of Grant or Revoke
    Pages,     \* pages of the owner
    Requests,  \* bound: requests of the recover route in flight at once
    MaxTxs,    \* bound: transactions that the wallet ever signs
    None,
    MaxLate    \* bound: requests nobody waits for any more

\* Operation ids and transaction hashes are unique, so they are numbered in
\* the order in which they appear.
Ops == 1..MaxOps
Txs == 1..MaxTxs

ASSUME MembershipConstants ==
    /\ MaxOps \in Nat
    /\ MaxTxs \in Nat
    /\ None \notin Nat
    /\ MaxLate \in Nat

VARIABLES
    access,     \* accessState of the disputeAdmins row, "none" without a row
    operation,  \* the disputeAdminOperations rows of the wallet
    member,     \* is_dispute_admin in the contract
    outside,    \* has the owner ever changed the contract with another tool?
    tx,         \* the operation of a signed transaction and what became of it
    forgotten,  \* transactions past the RPC server's retention window
    page,       \* how far each page is, with which operation
    request,    \* how far each request of the recover route is
    late        \* requests of pages that stopped waiting for the answer

rows == <<access, operation>>
ledger == <<member, outside, tx, forgotten>>
vars == <<rows, ledger, page, request, late>>

-----------------------------------------------------------------------------
Actions == {"grant", "revoke"}

Terminal == {"succeeded", "failed"}

Operation == [action: Actions, tx: Txs \cup {None},
              status: {"none", "awaiting_signature", "submitted"} \cup Terminal]

NoOperation == [action |-> "grant", tx |-> None, status |-> "none"]

TxState == {"unused", "signed", "sent", "applied", "failed", "expired"}

Page == [step: {"idle", "signing", "recording", "submitting", "failing"},
         op: Ops \cup {None}, tx: Txs \cup {None}]

IdlePage == [step |-> "idle", op |-> None, tx |-> None]

Request == [step: {"idle", "verifying", "reading", "completing"},
            op: Ops \cup {None}, result: Terminal]

IdleRequest == [step |-> "idle", op |-> None, result |-> "failed"]

Late == [kind: {"signed", "fail"}, op: Ops, tx: Txs \cup {None}]

\* isActiveSettlementStatus, of a row that exists.
Active(o) == operation[o].status \in {"awaiting_signature", "submitted"}

Exists(o) == operation[o].status # "none"

Unused(t) == tx[t].state = "unused"

GoTo(p, step) == page' = [page EXCEPT ![p].step = step]

Leave(p) == page' = [page EXCEPT ![p] = IdlePage]

-----------------------------------------------------------------------------
(* The page.                                                               *)

\* startDisputeAdminOperation: one operation of a wallet at a time.
MayStart == ~\E o \in Ops : Active(o)

AccessAfterStart(action) == IF action = "revoke" THEN "revoking" ELSE access

\* Grant or Revoke is pressed and a new operation is inserted.
Start(p, o, action) ==
    /\ page[p].step = "idle"
    /\ ~Exists(o) /\ \A before \in 1..(o - 1) : Exists(before)
    /\ MayStart
    /\ operation' = [operation EXCEPT ![o] =
           [NoOperation EXCEPT !.action = action,
                               !.status = "awaiting_signature"]]
    /\ access' = AccessAfterStart(action)
    /\ page' = [page EXCEPT ![p] = [IdlePage EXCEPT !.step = "signing",
                                                    !.op = o]]
    /\ UNCHANGED <<ledger, request, late>>

\* Sign is pressed for an operation that the list shows awaiting a signature,
\* which it may not do any more; or a start returned the waiting operation.
Sign(p, o) ==
    /\ page[p].step = "idle"
    /\ Exists(o)
    /\ page' = [page EXCEPT ![p] = [IdlePage EXCEPT !.step = "signing",
                                                    !.op = o]]
    /\ UNCHANGED <<rows, ledger, request, late>>

\* The wallet signs; the page goes on to record the hash.
WalletSigns(p, t) ==
    /\ page[p].step = "signing"
    /\ Unused(t) /\ \A before \in 1..(t - 1) : ~Unused(before)
    /\ tx' = [tx EXCEPT ![t] = [op |-> page[p].op, state |-> "signed"]]
    /\ page' = [page EXCEPT ![p].step = "recording", ![p].tx = t]
    /\ UNCHANGED <<rows, member, outside, forgotten, request, late>>

\* The wallet declines, or anything before it fails.
WalletFails(p) ==
    /\ page[p].step = "signing"
    /\ GoTo(p, "failing")
    /\ UNCHANGED <<rows, ledger, request, late>>

\* recordDisputeAdminOperationTransaction refuses another hash, and any for
\* an operation that failed.
MayRecord(o, t) ==
    /\ operation[o].tx \in {None, t}
    /\ operation[o].status # "failed"

\* What it writes.
RecordTransaction(o, t) ==
    /\ operation' = [operation EXCEPT ![o] =
           IF @.status = "succeeded" THEN @
           ELSE [@ EXCEPT !.status = "submitted", !.tx = t]]
    /\ UNCHANGED access

\* onSigned: the page waits for the answer before it submits anything.
RecordSigned(p) ==
    LET o == page[p].op  t == page[p].tx IN
    /\ page[p].step = "recording"
    /\ \/ /\ MayRecord(o, t)
          /\ RecordTransaction(o, t)
          /\ GoTo(p, "submitting")
       \/ /\ ~MayRecord(o, t)
          /\ GoTo(p, "failing")
          /\ UNCHANGED rows
    /\ UNCHANGED <<ledger, request, late>>

\* The answer fails to come; the request may still arrive.
RecordingLost(p) ==
    /\ page[p].step = "recording"
    /\ Cardinality(late) < MaxLate
    /\ late' = late \cup {[kind |-> "signed", op |-> page[p].op,
                           tx |-> page[p].tx]}
    /\ GoTo(p, "failing")
    /\ UNCHANGED <<rows, ledger, request>>

\* failDisputeAdminOperationBeforeSubmission
MayFail(o) == operation[o].status \notin Terminal /\ operation[o].tx = None

FailBeforeSubmission(o) ==
    /\ operation' = IF MayFail(o)
                    THEN [operation EXCEPT ![o].status = "failed"]
                    ELSE operation
    /\ UNCHANGED access

\* The catch of executeOperation while no hash is known to be recorded.
ReportFailure(p) ==
    /\ page[p].step = "failing"
    /\ FailBeforeSubmission(page[p].op)
    /\ Leave(p)
    /\ UNCHANGED <<ledger, request, late>>

\* The page goes on without the answer, which it ignores anyway.
FailureLost(p) ==
    /\ page[p].step = "failing"
    /\ Cardinality(late) < MaxLate
    /\ late' = late \cup {[kind |-> "fail", op |-> page[p].op, tx |-> None]}
    /\ Leave(p)
    /\ UNCHANGED <<rows, ledger, request>>

\* The transaction is submitted.  Whatever comes of it, the page asks the
\* recover route next, as Recover may at any time.
Submit(p) ==
    LET t == page[p].tx IN
    /\ page[p].step = "submitting"
    /\ tx' = [tx EXCEPT ![t].state = IF @ = "signed" THEN "sent" ELSE @]
    /\ Leave(p)
    /\ UNCHANGED <<rows, member, outside, forgotten, request, late>>

Close(p) ==
    /\ page[p].step # "idle"
    /\ Leave(p)
    /\ UNCHANGED <<rows, ledger, request, late>>

\* A request that nobody waits for arrives.
Arrive(m) ==
    /\ m \in late
    /\ late' = late \ {m}
    /\ \/ m.kind = "signed" /\ MayRecord(m.op, m.tx)
          /\ RecordTransaction(m.op, m.tx)
       \/ m.kind = "signed" /\ ~MayRecord(m.op, m.tx) /\ UNCHANGED rows
       \/ m.kind = "fail" /\ FailBeforeSubmission(m.op)
    /\ UNCHANGED <<ledger, page, request>>

-----------------------------------------------------------------------------
(* The recover route.                                                      *)

\* It reads the operation, and answers at once when that is finished or has
\* no hash.
Recover(r, o) ==
    /\ request[r].step = "idle"
    /\ operation[o].status = "submitted"
    /\ request' = [request EXCEPT ![r] = [IdleRequest EXCEPT
                                             !.step = "verifying", !.op = o]]
    /\ UNCHANGED <<rows, ledger, page, late>>

\* A mutant: NOT_FOUND is always taken for a transaction under way.
VerdictPatient(t) ==
    CASE t \notin forgotten /\ tx[t].state = "applied" -> "succeeded"
      [] t \notin forgotten /\ tx[t].state = "failed" -> "failed"
      [] OTHER -> "pending"

\* verifyAdminChainOperation.  NOT_FOUND is "pending" until the expiry, and
\* means after it that the transaction expired or is forgotten, which the
\* route both turns into "failed".
Verdict(t) ==
    CASE t \in forgotten -> "failed"
      [] t \notin forgotten /\ tx[t].state = "applied" -> "succeeded"
      [] t \notin forgotten /\ tx[t].state \in {"failed", "expired"} -> "failed"
      [] OTHER -> "pending"

Answer(r) == request' = [request EXCEPT ![r] = IdleRequest]

Verify(r) ==
    LET verdict == Verdict(operation[request[r].op].tx) IN
    /\ request[r].step = "verifying"
    /\ \/ verdict = "pending" /\ Answer(r)
       \/ verdict = "succeeded"
          /\ request' = [request EXCEPT ![r].step = "reading",
                                        ![r].result = "succeeded"]
       \/ verdict = "failed"
          /\ request' = [request EXCEPT ![r].step = "completing",
                                        ![r].result = "failed"]
    /\ UNCHANGED <<rows, ledger, page, late>>

\* readDisputeAdminMembership must agree with the operation.
Read(r) ==
    /\ request[r].step = "reading"
    /\ IF member = (operation[request[r].op].action = "grant")
       THEN request' = [request EXCEPT ![r].step = "completing"]
       ELSE Answer(r)
    /\ UNCHANGED <<rows, ledger, page, late>>

\* A mutant: an operation that is finished is completed again.
MayCompleteAgain(o) == operation[o].tx # None

\* completeDisputeAdminOperation leaves a finished operation alone.
MayComplete(o) ==
    operation[o].status \notin Terminal /\ operation[o].tx # None

Complete(r) ==
    LET o == request[r].op  result == request[r].result IN
    /\ request[r].step = "completing"
    /\ IF MayComplete(o)
       THEN /\ operation' = [operation EXCEPT ![o].status = result]
            /\ access' =
                 IF result = "failed" THEN access
                 ELSE IF operation[o].action = "grant" THEN "active"
                 ELSE "revoked"
       ELSE UNCHANGED rows
    /\ Answer(r)
    /\ UNCHANGED <<ledger, page, late>>

-----------------------------------------------------------------------------
(* The ledger.                                                             *)

SetState(t, state) == tx' = [tx EXCEPT ![t].state = state]

\* add_dispute_admin and remove_dispute_admin, with the owner's signature.
Apply(t) ==
    /\ tx[t].state = "sent"
    /\ SetState(t, "applied")
    /\ member' = (operation[tx[t].op].action = "grant")
    /\ UNCHANGED <<rows, outside, forgotten, page, request, late>>

\* The ledger takes it in without success: no resources, a wrong sequence.
Reject(t) ==
    /\ tx[t].state = "sent"
    /\ SetState(t, "failed")
    /\ UNCHANGED <<rows, member, outside, forgotten, page, request, late>>

\* The time bounds are over, by more than the slack of the verification.
Expire(t) ==
    /\ tx[t].state \in {"signed", "sent"}
    /\ SetState(t, "expired")
    /\ UNCHANGED <<rows, member, outside, forgotten, page, request, late>>

\* The RPC server forgets a transaction; its time bounds are long over.
Forget(t) ==
    /\ tx[t].state \in {"applied", "failed"}
    /\ t \notin forgotten
    /\ forgotten' = forgotten \cup {t}
    /\ UNCHANGED <<rows, member, outside, tx, page, request, late>>

\* The owner calls the contract with another tool; once is enough for what
\* follows from it.
ChangeOutside ==
    /\ ~outside
    /\ member' = ~member
    /\ outside' = TRUE
    /\ UNCHANGED <<rows, tx, forgotten, page, request, late>>

-----------------------------------------------------------------------------
Init ==
    /\ access = "none"
    /\ operation = [o \in Ops |-> NoOperation]
    /\ member = FALSE
    /\ outside = FALSE
    /\ tx = [t \in Txs |-> [op |-> None, state |-> "unused"]]
    /\ forgotten = {}
    /\ page = [p \in Pages |-> IdlePage]
    /\ request = [r \in Requests |-> IdleRequest]
    /\ late = {}

PageStep(p) ==
    \/ \E o \in Ops, action \in Actions : Start(p, o, action)
    \/ \E o \in Ops : Sign(p, o)
    \/ \E t \in Txs : WalletSigns(p, t)
    \/ WalletFails(p)
    \/ RecordSigned(p)
    \/ RecordingLost(p)
    \/ ReportFailure(p)
    \/ FailureLost(p)
    \/ Submit(p)
    \/ Close(p)

RequestStep(r) == Verify(r) \/ Read(r) \/ Complete(r)

LedgerStep(t) == Apply(t) \/ Reject(t) \/ Expire(t) \/ Forget(t)

Next ==
    \/ \E p \in Pages : PageStep(p)
    \/ \E m \in late : Arrive(m)
    \/ \E r \in Requests, o \in Ops : Recover(r, o)
    \/ \E r \in Requests : RequestStep(r)
    \/ \E t \in Txs : LedgerStep(t)
    \/ ChangeOutside

Spec == Init /\ [][Next]_vars

\* The server answers what it accepted, time passes, and the owner presses
\* Reconcile again as long as the list offers it.
FairSpec ==
    /\ Spec
    /\ \A r \in Requests : WF_vars(RequestStep(r))
    /\ \A t \in Txs : WF_vars(Expire(t))
    /\ \A o \in Ops : SF_vars(\E r \in Requests : Recover(r, o))

-----------------------------------------------------------------------------
TypeOK ==
    /\ access \in {"none", "active", "revoking", "revoked"}
    /\ operation \in [Ops -> Operation]
    /\ member \in BOOLEAN
    /\ outside \in BOOLEAN
    /\ tx \in [Txs -> [op: Ops \cup {None}, state: TxState]]
    /\ forgotten \subseteq Txs
    /\ page \in [Pages -> Page]
    /\ request \in [Requests -> Request]
    /\ late \subseteq Late

\* A grant that the ledger has applied and the database does not show: it is
\* not completed yet, or was given up since the RPC server had forgotten it.
Unreported(t) ==
    /\ tx[t].state = "applied"
    /\ operation[tx[t].op].action = "grant"
    /\ operation[tx[t].op].tx = t
    /\ operation[tx[t].op].status = "submitted" \/ t \in forgotten

\* Access of the application follows the contract.  It is gone from the moment
\* a revocation is started (admin-admins-page.tsx:247), and no late answer
\* about an earlier grant brings it back.  Unless the owner uses another tool,
\* whoever has it is an admin of the contract, and the contract knows nobody
\* else but by a grant whose report is outstanding.
AccessIsBacked ==
    /\ \A o \in Ops :
           Active(o) /\ operation[o].action = "revoke" => access = "revoking"
    /\ ~outside =>
           /\ access = "active" => member
           /\ member /\ access \in {"none", "revoked"} =>
                  \E t \in Txs : Unreported(t)

\* A membership operation whose transaction is recorded is settled in the end,
\* by whichever page, however often the answer is pending; only a change with
\* another tool can leave it open for ever, and with it the wallet.
SubmittedIsSettled ==
    \A o \in Ops : operation[o].status = "submitted"
                      ~> (operation[o].status \in Terminal \/ outside)
=============================================================================
