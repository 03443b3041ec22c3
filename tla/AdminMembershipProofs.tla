------------------------ MODULE AdminMembershipProofs ------------------------
(***************************************************************************)
(* The safety of AdminMembership for any number of operations, pages and   *)
(* requests.                                                               *)
(*                                                                         *)
(* The inductive invariant ties the transaction of an operation to its     *)
(* status: only the recorded one is ever sent, and while it may still be   *)
(* applied the operation is open, so the wallet has no other.  A request   *)
(* that is about to complete knows the last word about the transaction.    *)
(***************************************************************************)
EXTENDS AdminMembership, TLAPS

TxType == [op : Ops \cup {None}, state : TxState]

Final == {"applied", "failed", "expired"}

\* t was signed for the operation o.
SignedFor(t, o) == t \in Txs /\ ~Unused(t) /\ tx[t].op = o

OneActive == \A o, q \in Ops : Active(o) /\ Active(q) => o = q

RowsOK ==
    \A o \in Ops :
        /\ operation[o].status \in {"none", "awaiting_signature"} =>
               operation[o].tx = None
        /\ operation[o].status \in {"submitted", "succeeded"} =>
               operation[o].tx # None
        /\ operation[o].tx # None => SignedFor(operation[o].tx, o)

TxsOK ==
    \A t \in Txs :
        /\ ~Unused(t) => tx[t].op \in Ops /\ Exists(tx[t].op)
        /\ tx[t].state \in {"sent", "applied", "failed"} =>
               operation[tx[t].op].tx = t
        /\ t \in forgotten => tx[t].state \in {"applied", "failed"}
        /\ tx[t].state \in {"signed", "sent"} /\ operation[tx[t].op].tx = t =>
               operation[tx[t].op].status = "submitted"

PageOK(p) ==
    page[p].step # "idle" =>
        /\ page[p].op \in Ops
        /\ Exists(page[p].op)
        /\ page[p].step \in {"recording", "submitting"} =>
               SignedFor(page[p].tx, page[p].op)
        /\ page[p].step = "submitting" =>
               operation[page[p].op].tx = page[p].tx

PagesOK == \A p \in Pages : PageOK(p)

Meant(m) == Exists(m.op) /\ (m.kind = "signed" => SignedFor(m.tx, m.op))

LateOK == \A m \in late : Meant(m)

\* The last word of the ledger about t.
Known(t, result) ==
    IF result = "succeeded" THEN tx[t].state = "applied"
    ELSE t \in forgotten \/ tx[t].state \in {"failed", "expired"}

RequestOK(r) ==
    request[r].step # "idle" =>
        /\ request[r].op \in Ops
        /\ Exists(request[r].op)
        /\ operation[request[r].op].tx # None
        /\ request[r].step = "reading" => request[r].result = "succeeded"
        /\ request[r].step \in {"reading", "completing"} =>
               Known(operation[request[r].op].tx, request[r].result)

RequestsOK == \A r \in Requests : RequestOK(r)

\* While an operation is open and the ledger has applied it, the contract
\* shows it.
Shown ==
    ~outside =>
        \A o \in Ops :
            /\ operation[o].status = "submitted"
            /\ tx[operation[o].tx].state = "applied"
            => member = (operation[o].action = "grant")

Links == OneActive /\ RowsOK /\ TxsOK

IInv == /\ TypeOK /\ Links /\ PagesOK /\ LateOK /\ RequestsOK
        /\ Shown /\ AccessIsBacked

-----------------------------------------------------------------------------
(* Types.                                                                  *)

LEMMA NoneIsOther == None \notin Ops /\ None \notin Txs
  BY MembershipConstants DEF Ops, Txs

LEMMA PageTyped ==
    ASSUME TypeOK, NEW p \in Pages, NEW new \in Page,
           page' = [page EXCEPT ![p] = new]
    PROVE  page' \in [Pages -> Page]
  BY DEF TypeOK

LEMMA StepTyped ==
    ASSUME TypeOK, NEW p \in Pages,
           NEW step \in {"idle", "signing", "recording", "submitting",
                         "failing"},
           GoTo(p, step)
    PROVE  page' \in [Pages -> Page]
<1>1. [page[p] EXCEPT !.step = step] \in Page
  BY DEF TypeOK, Page
<1>2. QED
  BY <1>1 DEF TypeOK, GoTo

LEMMA LeaveTyped ==
    ASSUME TypeOK, NEW p \in Pages, Leave(p)
    PROVE  page' \in [Pages -> Page]
<1>1. IdlePage \in Page
  BY DEF IdlePage, Page
<1>2. QED
  BY <1>1, PageTyped DEF Leave

LEMMA OperationTyped ==
    ASSUME TypeOK, NEW o \in Ops, NEW new \in Operation,
           operation' = [operation EXCEPT ![o] = new]
    PROVE  operation' \in [Ops -> Operation]
  BY DEF TypeOK

LEMMA TxTyped ==
    ASSUME TypeOK, NEW t \in Txs, NEW state \in TxState,
           SetState(t, state)
    PROVE  tx' \in [Txs -> TxType]
<1>1. [tx[t] EXCEPT !.state = state] \in TxType
  BY DEF TypeOK, TxType
<1>2. QED
  BY <1>1 DEF TypeOK, SetState, TxType

LEMMA RequestTyped ==
    ASSUME TypeOK, NEW r \in Requests, NEW new \in Request,
           request' = [request EXCEPT ![r] = new]
    PROVE  request' \in [Requests -> Request]
  BY DEF TypeOK

LEMMA RecordTyped ==
    ASSUME TypeOK, NEW o \in Ops, NEW t \in Txs, RecordTransaction(o, t)
    PROVE  operation' \in [Ops -> Operation] /\ access' = access
<1> DEFINE new == IF operation[o].status = "succeeded" THEN operation[o]
                  ELSE [operation[o] EXCEPT !.status = "submitted", !.tx = t]
<1>1. new \in Operation
  BY ZenonT(30) DEF TypeOK, Operation, Terminal
<1>2. operation' = [operation EXCEPT ![o] = new]
  BY DEF RecordTransaction
<1> HIDE DEF new
<1>3. QED
  BY <1>1, <1>2, OperationTyped DEF RecordTransaction

LEMMA FailTyped ==
    ASSUME TypeOK, NEW o \in Ops, FailBeforeSubmission(o)
    PROVE  operation' \in [Ops -> Operation] /\ access' = access
<1>1. [operation[o] EXCEPT !.status = "failed"] \in Operation
  BY DEF TypeOK, Operation, Terminal
<1>2. QED
  BY <1>1 DEF TypeOK, FailBeforeSubmission

LEMMA TypeInit == Init => TypeOK
<1> SUFFICES ASSUME Init PROVE TypeOK
  OBVIOUS
<1>1. NoOperation \in Operation
  BY DEF NoOperation, Operation, Actions
<1>2. IdlePage \in Page
  BY DEF IdlePage, Page
<1>3. IdleRequest \in Request
  BY DEF IdleRequest, Request, Terminal
<1>4. QED
  BY <1>1, <1>2, <1>3 DEF Init, TypeOK, TxState

LEMMA PageStepTyped ==
    ASSUME TypeOK, NEW p \in Pages, PageStep(p),
           page[p].step # "idle" => page[p].op \in Ops,
           page[p].step = "recording" => page[p].tx \in Txs,
           page[p].step = "submitting" => page[p].tx \in Txs
    PROVE  TypeOK'
<1>1. ASSUME NEW o \in Ops, NEW action \in Actions, Start(p, o, action)
      PROVE  TypeOK'
  <2>1. [NoOperation EXCEPT !.action = action,
                            !.status = "awaiting_signature"] \in Operation
    BY DEF NoOperation, Operation
  <2>2. operation' \in [Ops -> Operation]
    BY <1>1, <2>1, OperationTyped DEF Start
  <2>3. [IdlePage EXCEPT !.step = "signing", !.op = o] \in Page
    BY DEF IdlePage, Page
  <2>4. page' \in [Pages -> Page]
    BY <1>1, <2>3, PageTyped DEF Start
  <2>5. access' \in {"none", "active", "revoking", "revoked"}
    BY <1>1 DEF Start, AccessAfterStart, TypeOK
  <2>6. QED
    BY <1>1, <2>2, <2>4, <2>5 DEF Start, TypeOK, ledger
<1>2. ASSUME NEW o \in Ops, Sign(p, o)
      PROVE  TypeOK'
  <2>1. [IdlePage EXCEPT !.step = "signing", !.op = o] \in Page
    BY DEF IdlePage, Page
  <2>2. page' \in [Pages -> Page]
    BY <1>2, <2>1, PageTyped DEF Sign
  <2>3. QED
    BY <1>2, <2>2 DEF Sign, TypeOK, rows, ledger
<1>3. ASSUME NEW t \in Txs, WalletSigns(p, t)
      PROVE  TypeOK'
  <2>1. [page[p] EXCEPT !.step = "recording", !.tx = t] \in Page
    BY DEF TypeOK, Page
  <2>2. page' \in [Pages -> Page]
    BY <1>3, <2>1 DEF WalletSigns, TypeOK
  <2>3. tx' \in [Txs -> TxType]
    BY <1>3 DEF WalletSigns, TypeOK, TxType, TxState
  <2>4. QED
    BY <1>3, <2>2, <2>3 DEF WalletSigns, TypeOK, rows, TxType
<1>4. CASE WalletFails(p)
  BY <1>4, StepTyped DEF WalletFails, TypeOK, rows, ledger
<1>5. CASE RecordSigned(p)
  <2>1. operation' \in [Ops -> Operation] /\ access' = access
    BY <1>5, RecordTyped DEF RecordSigned, rows, TypeOK
  <2>2. page' \in [Pages -> Page]
    BY <1>5, StepTyped DEF RecordSigned
  <2>3. QED
    BY <1>5, <2>1, <2>2 DEF RecordSigned, TypeOK, ledger
<1>6. CASE RecordingLost(p)
  <2>1. page' \in [Pages -> Page]
    BY <1>6, StepTyped DEF RecordingLost
  <2>2. late' \subseteq Late
    BY <1>6 DEF RecordingLost, TypeOK, Late
  <2>3. QED
    BY <1>6, <2>1, <2>2 DEF RecordingLost, TypeOK, rows, ledger
<1>7. CASE ReportFailure(p)
  <2>1. operation' \in [Ops -> Operation] /\ access' = access
    BY <1>7, FailTyped DEF ReportFailure
  <2>2. page' \in [Pages -> Page]
    BY <1>7, LeaveTyped DEF ReportFailure
  <2>3. QED
    BY <1>7, <2>1, <2>2 DEF ReportFailure, TypeOK, ledger
<1>8. CASE FailureLost(p)
  <2>1. page' \in [Pages -> Page]
    BY <1>8, LeaveTyped DEF FailureLost
  <2>2. late' \subseteq Late
    BY <1>8 DEF FailureLost, TypeOK, Late
  <2>3. QED
    BY <1>8, <2>1, <2>2 DEF FailureLost, TypeOK, rows, ledger
<1>9. CASE Submit(p)
  <2>1. page' \in [Pages -> Page]
    BY <1>9, LeaveTyped DEF Submit
  <2>2. PICK state \in TxState : tx' = [tx EXCEPT ![page[p].tx].state = state]
    <3>1. tx[page[p].tx].state \in TxState
      BY <1>9 DEF Submit, TypeOK
    <3>2. QED
      BY <1>9, <3>1 DEF Submit, TxState
  <2>3. tx' \in [Txs -> TxType]
    BY <1>9, <2>2, TxTyped DEF Submit, SetState
  <2>4. QED
    BY <1>9, <2>1, <2>3 DEF Submit, TypeOK, rows, TxType
<1>10. CASE Close(p)
  BY <1>10, LeaveTyped DEF Close, TypeOK, rows, ledger
<1>11. QED
  BY <1>1, <1>2, <1>3, <1>4, <1>5, <1>6, <1>7, <1>8, <1>9, <1>10 DEF PageStep

LEMMA RequestStepTyped ==
    ASSUME TypeOK, NEW r \in Requests, RequestStep(r),
           request[r].step # "idle" => request[r].op \in Ops
    PROVE  TypeOK'
<1>1. IdleRequest \in Request
  BY DEF IdleRequest, Request, Terminal
<1>2. Answer(r) => request' \in [Requests -> Request]
  BY <1>1, RequestTyped DEF Answer
<1>3. CASE Verify(r)
  <2>1. ASSUME NEW step \in {"reading", "completing"}, NEW result \in Terminal
        PROVE  [request[r] EXCEPT !.step = step, !.result = result] \in Request
    BY DEF TypeOK, Request
  <2>2. request' \in [Requests -> Request]
    BY <1>2, <1>3, <2>1 DEF Verify, TypeOK, Terminal
  <2>3. QED
    BY <1>3, <2>2 DEF Verify, TypeOK, rows, ledger
<1>4. CASE Read(r)
  <2>1. [request[r] EXCEPT !.step = "completing"] \in Request
    BY DEF TypeOK, Request
  <2>2. request' \in [Requests -> Request]
    BY <1>2, <1>4, <2>1 DEF Read, TypeOK
  <2>3. QED
    BY <1>4, <2>2 DEF Read, TypeOK, rows, ledger
<1>5. CASE Complete(r)
  <2>1. request[r].op \in Ops /\ request[r].result \in Terminal
    BY <1>5 DEF Complete, TypeOK, Request
  <2>2. [operation[request[r].op] EXCEPT !.status = request[r].result]
           \in Operation
    BY <2>1 DEF TypeOK, Operation
  <2>3. operation' \in [Ops -> Operation]
    BY <1>5, <2>1, <2>2 DEF Complete, TypeOK, rows
  <2>4. access' \in {"none", "active", "revoking", "revoked"}
    BY <1>5 DEF Complete, TypeOK, rows
  <2>5. QED
    BY <1>2, <1>5, <2>3, <2>4 DEF Complete, TypeOK, ledger
<1>6. QED
  BY <1>3, <1>4, <1>5 DEF RequestStep

LEMMA TypeStep ==
    ASSUME TypeOK, PagesOK, RequestsOK, [Next]_vars
    PROVE  TypeOK'
<1>1. ASSUME NEW p \in Pages, PageStep(p)
      PROVE  TypeOK'
  BY <1>1, PageStepTyped DEF PagesOK, PageOK, SignedFor
<1>2. ASSUME NEW m \in late, Arrive(m)
      PROVE  TypeOK'
  <2>1. m.op \in Ops /\ m.tx \in Txs \cup {None}
    BY DEF TypeOK, Late
  <2>2. operation' \in [Ops -> Operation] /\ access' = access
    <3>1. CASE m.kind = "signed" /\ RecordTransaction(m.op, m.tx)
      <4>1. [operation[m.op] EXCEPT !.status = "submitted", !.tx = m.tx]
               \in Operation
        BY <2>1, ZenonT(30) DEF TypeOK, Operation, Terminal
      <4>2. QED
        BY <2>1, <3>1, <4>1 DEF RecordTransaction, TypeOK
    <3>2. CASE UNCHANGED rows
      BY <3>2 DEF rows, TypeOK
    <3>3. CASE FailBeforeSubmission(m.op)
      BY <2>1, <3>3, FailTyped
    <3>4. QED
      BY <1>2, <3>1, <3>2, <3>3 DEF Arrive
  <2>3. QED
    BY <1>2, <2>2 DEF Arrive, TypeOK, ledger
<1>3. ASSUME NEW r \in Requests, NEW o \in Ops, Recover(r, o)
      PROVE  TypeOK'
  <2>1. [IdleRequest EXCEPT !.step = "verifying", !.op = o] \in Request
    BY DEF IdleRequest, Request, Terminal
  <2>2. request' \in [Requests -> Request]
    BY <1>3, <2>1, RequestTyped DEF Recover
  <2>3. QED
    BY <1>3, <2>2 DEF Recover, TypeOK, rows, ledger
<1>4. ASSUME NEW r \in Requests, RequestStep(r)
      PROVE  TypeOK'
  BY <1>4, RequestStepTyped DEF RequestsOK, RequestOK
<1>5. ASSUME NEW t \in Txs, LedgerStep(t)
      PROVE  TypeOK'
  <2>1. CASE Apply(t)
    BY <2>1, TxTyped DEF Apply, TypeOK, rows, TxType, TxState
  <2>2. CASE Reject(t)
    BY <2>2, TxTyped DEF Reject, TypeOK, rows, TxType, TxState
  <2>3. CASE Expire(t)
    BY <2>3, TxTyped DEF Expire, TypeOK, rows, TxType, TxState
  <2>4. CASE Forget(t)
    BY <2>4 DEF Forget, TypeOK, rows
  <2>5. QED
    BY <1>5, <2>1, <2>2, <2>3, <2>4 DEF LedgerStep
<1>6. CASE ChangeOutside
  BY <1>6 DEF ChangeOutside, TypeOK, rows
<1>7. CASE UNCHANGED vars
  BY <1>7 DEF vars, rows, ledger, TypeOK
<1>8. QED
  BY <1>1, <1>2, <1>3, <1>4, <1>5, <1>6, <1>7 DEF Next

-----------------------------------------------------------------------------
(* What a step does to the rows and the ledger.                            *)

Started(o, action) ==
    /\ ~Exists(o)
    /\ MayStart
    /\ operation' = [operation EXCEPT ![o] =
           [NoOperation EXCEPT !.action = action,
                               !.status = "awaiting_signature"]]
    /\ access' = AccessAfterStart(action)
    /\ UNCHANGED ledger

SignedNow(t, o) ==
    /\ Exists(o)
    /\ Unused(t)
    /\ tx' = [tx EXCEPT ![t] = [op |-> o, state |-> "signed"]]
    /\ UNCHANGED <<rows, member, outside, forgotten>>

Recorded(o, t) ==
    /\ Exists(o)
    /\ SignedFor(t, o)
    /\ MayRecord(o, t)
    /\ RecordTransaction(o, t)
    /\ UNCHANGED ledger

Reported(o) ==
    /\ Exists(o)
    /\ FailBeforeSubmission(o)
    /\ UNCHANGED ledger

Submitted(t, o) ==
    /\ SignedFor(t, o)
    /\ operation[o].tx = t
    /\ tx' = [tx EXCEPT ![t].state = IF @ = "signed" THEN "sent" ELSE @]
    /\ UNCHANGED <<rows, member, outside, forgotten>>

Completed(o, result) ==
    /\ MayComplete(o)
    /\ Exists(o)
    /\ Known(operation[o].tx, result)
    /\ operation' = [operation EXCEPT ![o].status = result]
    /\ access' = IF result = "failed" THEN access
                 ELSE IF operation[o].action = "grant" THEN "active"
                 ELSE "revoked"
    /\ UNCHANGED ledger

Effect ==
    \/ UNCHANGED <<rows, ledger>>
    \/ \E o \in Ops, action \in Actions : Started(o, action)
    \/ \E o \in Ops, t \in Txs : SignedNow(t, o)
    \/ \E o \in Ops, t \in Txs : Recorded(o, t)
    \/ \E o \in Ops : Reported(o)
    \/ \E o \in Ops, t \in Txs : Submitted(t, o)
    \/ \E o \in Ops, result \in Terminal : Completed(o, result)
    \/ \E t \in Txs : LedgerStep(t)
    \/ ChangeOutside

LEMMA WhatAStepDoes ==
    ASSUME TypeOK, PagesOK, LateOK, RequestsOK, [Next]_vars
    PROVE  Effect
<1>1. ASSUME NEW p \in Pages, PageStep(p)
      PROVE  Effect
  <2>1. ASSUME NEW o \in Ops, NEW action \in Actions, Start(p, o, action)
        PROVE  Effect
    BY <2>1 DEF Start, Effect, Started
  <2>2. ASSUME NEW o \in Ops, Sign(p, o)
        PROVE  Effect
    BY <2>2 DEF Sign, Effect
  <2>3. ASSUME NEW t \in Txs, WalletSigns(p, t)
        PROVE  Effect
    <3>1. SignedNow(t, page[p].op) /\ page[p].op \in Ops
      BY <2>3 DEF WalletSigns, SignedNow, PagesOK, PageOK
    <3>2. QED
      BY <3>1 DEF Effect
  <2>4. CASE WalletFails(p) \/ RecordingLost(p) \/ FailureLost(p) \/ Close(p)
    BY <2>4 DEF WalletFails, RecordingLost, FailureLost, Close, Effect
  <2>5. CASE RecordSigned(p)
    <3>1. /\ page[p].op \in Ops /\ Exists(page[p].op)
          /\ page[p].tx \in Txs /\ SignedFor(page[p].tx, page[p].op)
      BY <2>5 DEF RecordSigned, PagesOK, PageOK, SignedFor
    <3>2. Recorded(page[p].op, page[p].tx) \/ UNCHANGED <<rows, ledger>>
      BY <2>5, <3>1 DEF RecordSigned, Recorded
    <3>3. QED
      BY <3>1, <3>2 DEF Effect
  <2>6. CASE ReportFailure(p)
    <3>1. page[p].op \in Ops /\ Exists(page[p].op)
      BY <2>6 DEF ReportFailure, PagesOK, PageOK
    <3>2. Reported(page[p].op)
      BY <2>6, <3>1 DEF ReportFailure, Reported
    <3>3. QED
      BY <3>1, <3>2 DEF Effect
  <2>7. CASE Submit(p)
    <3>1. /\ page[p].op \in Ops /\ page[p].tx \in Txs
          /\ SignedFor(page[p].tx, page[p].op)
          /\ operation[page[p].op].tx = page[p].tx
      BY <2>7 DEF Submit, PagesOK, PageOK, SignedFor
    <3>2. Submitted(page[p].tx, page[p].op)
      BY <2>7, <3>1 DEF Submit, Submitted
    <3>3. QED
      BY <3>1, <3>2 DEF Effect
  <2>8. QED
    BY <1>1, <2>1, <2>2, <2>3, <2>4, <2>5, <2>6, <2>7 DEF PageStep
<1>2. ASSUME NEW m \in late, Arrive(m)
      PROVE  Effect
  <2>1. m.op \in Ops /\ Exists(m.op)
    BY DEF TypeOK, Late, LateOK, Meant
  <2>2. CASE m.kind = "signed" /\ MayRecord(m.op, m.tx)
             /\ RecordTransaction(m.op, m.tx)
    <3>1. m.tx \in Txs /\ SignedFor(m.tx, m.op)
      BY <2>2 DEF LateOK, Meant, SignedFor
    <3>2. QED
      BY <1>2, <2>1, <2>2, <3>1 DEF Effect, Recorded, Arrive
  <2>3. CASE UNCHANGED rows
    BY <1>2, <2>3 DEF Arrive, Effect
  <2>4. CASE FailBeforeSubmission(m.op)
    BY <1>2, <2>1, <2>4 DEF Arrive, Effect, Reported
  <2>5. QED
    BY <1>2, <2>2, <2>3, <2>4 DEF Arrive
<1>3. ASSUME NEW r \in Requests, NEW o \in Ops, Recover(r, o)
      PROVE  Effect
  BY <1>3 DEF Recover, Effect
<1>4. ASSUME NEW r \in Requests, RequestStep(r)
      PROVE  Effect
  <2>1. CASE Verify(r) \/ Read(r)
    BY <2>1 DEF Verify, Read, Effect
  <2>2. CASE Complete(r)
    <3>1. /\ request[r].op \in Ops /\ Exists(request[r].op)
          /\ request[r].result \in Terminal
          /\ Known(operation[request[r].op].tx, request[r].result)
      BY <2>2 DEF Complete, RequestsOK, RequestOK, TypeOK, Request
    <3>2. \/ Completed(request[r].op, request[r].result)
          \/ UNCHANGED <<rows, ledger>>
      BY <2>2, <3>1 DEF Complete, Completed
    <3>3. QED
      BY <3>1, <3>2 DEF Effect
  <2>3. QED
    BY <1>4, <2>1, <2>2 DEF RequestStep
<1>5. CASE \/ \E t \in Txs : LedgerStep(t)
           \/ ChangeOutside
           \/ UNCHANGED vars
  BY <1>5 DEF Effect, vars
<1>6. QED
  BY <1>1, <1>2, <1>3, <1>4, <1>5 DEF Next

-----------------------------------------------------------------------------
(* Nothing a page or a request has learnt is undone.                       *)

Lasts ==
    /\ \A o \in Ops : Exists(o) => Exists(o)'
    /\ \A o \in Ops : operation[o].tx # None =>
                          operation'[o].tx = operation[o].tx
    /\ \A t \in Txs, o \in Ops : SignedFor(t, o) => SignedFor(t, o)'
    /\ \A t \in Txs : tx[t].state \in Final => tx'[t].state = tx[t].state
    /\ forgotten \subseteq forgotten'

LEMMA KnowledgeLasts ==
    ASSUME TypeOK, RowsOK, TxsOK, Effect
    PROVE  Lasts
<1> USE NoneIsOther
<1>1. CASE UNCHANGED <<rows, ledger>>
  BY <1>1 DEF rows, ledger, Lasts, Exists, SignedFor, Unused
<1>2. ASSUME NEW o \in Ops, NEW action \in Actions, Started(o, action)
      PROVE  Lasts
  <2>1. operation[o].tx = None /\ operation' \in [Ops -> Operation]
    BY <1>2 DEF Started, RowsOK, Exists, TypeOK, Operation, NoOperation, Terminal
  <2>2. operation'[o].status # "none"
    BY <1>2 DEF Started, TypeOK, NoOperation
  <2>3. \A q \in Ops \ {o} : operation'[q] = operation[q]
    BY <1>2 DEF Started, TypeOK
  <2>4. QED
    BY <1>2, <2>1, <2>2, <2>3 DEF Started, Lasts, Exists, SignedFor, Unused,
       ledger
<1>3. ASSUME NEW o \in Ops, NEW t \in Txs, SignedNow(t, o)
      PROVE  Lasts
  BY <1>3 DEF SignedNow, Lasts, Exists, SignedFor, Unused, TypeOK, rows, Final
<1>4. ASSUME NEW o \in Ops, NEW t \in Txs, Recorded(o, t)
      PROVE  Lasts
  BY <1>4 DEF Recorded, RecordTransaction, MayRecord, Lasts, Exists, SignedFor,
     Unused, TypeOK, Operation, ledger
<1>5. ASSUME NEW o \in Ops, Reported(o)
      PROVE  Lasts
  BY <1>5 DEF Reported, FailBeforeSubmission, Lasts, Exists, SignedFor, Unused,
     TypeOK, Operation, ledger
<1>6. ASSUME NEW o \in Ops, NEW t \in Txs, Submitted(t, o)
      PROVE  Lasts
  BY <1>6 DEF Submitted, Lasts, Exists, SignedFor, Unused, TypeOK, rows, Final
<1>7. ASSUME NEW o \in Ops, NEW result \in Terminal, Completed(o, result)
      PROVE  Lasts
  BY <1>7 DEF Completed, Lasts, Exists, SignedFor, Unused, TypeOK, Operation,
     Terminal, ledger
<1>8. ASSUME NEW t \in Txs, LedgerStep(t)
      PROVE  Lasts
  <2>1. CASE Forget(t)
    BY <2>1 DEF Forget, Lasts, Exists, SignedFor, Unused, rows
  <2>2. ASSUME tx[t].state \in {"signed", "sent"},
               NEW state \in Final, SetState(t, state),
               UNCHANGED <<rows, forgotten>>
        PROVE  Lasts
    BY <2>2 DEF SetState, Lasts, Exists, SignedFor, Unused, TypeOK, rows, Final
  <2>3. QED
    BY <1>8, <2>1, <2>2 DEF LedgerStep, Apply, Reject, Expire, Final
<1>9. CASE ChangeOutside
  BY <1>9 DEF ChangeOutside, Lasts, Exists, SignedFor, Unused, rows
<1>10. QED
  BY <1>1, <1>2, <1>3, <1>4, <1>5, <1>6, <1>7, <1>8, <1>9 DEF Effect

-----------------------------------------------------------------------------
(* The invariant.                                                          *)

LEMMA LinksStep ==
    ASSUME TypeOK, TypeOK', Links, Effect, Lasts
    PROVE  Links'
<1> USE NoneIsOther DEF Links
<1>1. CASE UNCHANGED <<rows, ledger>>
  BY <1>1 DEF rows, ledger, OneActive, RowsOK, TxsOK, Active, Exists, SignedFor,
     Unused
<1>2. ASSUME NEW o \in Ops, NEW action \in Actions, Started(o, action)
      PROVE  Links'
  <2>1. /\ operation'[o].tx = None
        /\ operation'[o].status = "awaiting_signature"
        /\ \A q \in Ops \ {o} : operation'[q] = operation[q]
        /\ operation[o].tx = None
    BY <1>2 DEF Started, TypeOK, NoOperation, RowsOK, Exists
  <2>2. OneActive'
    BY <1>2, <2>1 DEF Started, MayStart, OneActive, Active
  <2>3. RowsOK'
    BY <1>2, <2>1 DEF Started, RowsOK, SignedFor, Unused, ledger
  <2>4. TxsOK'
    BY <1>2, <2>1 DEF Started, TxsOK, Unused, Exists, ledger, TypeOK
  <2>5. QED
    BY <2>2, <2>3, <2>4
<1>3. ASSUME NEW o \in Ops, NEW t \in Txs, SignedNow(t, o)
      PROVE  Links'
  <2>1. /\ tx'[t].op = o /\ tx'[t].state = "signed"
        /\ \A u \in Txs \ {t} : tx'[u] = tx[u]
    BY <1>3 DEF SignedNow, TypeOK
  <2>2. OneActive' /\ RowsOK'
    BY <1>3, <2>1 DEF SignedNow, OneActive, RowsOK, Active, SignedFor, Unused,
       rows, TypeOK, Operation
  <2>3. operation[o].tx # t
    BY <1>3 DEF SignedNow, RowsOK, SignedFor
  <2>4. TxsOK'
    BY <1>3, <2>1, <2>3 DEF SignedNow, TxsOK, Unused, Exists, rows
  <2>5. QED
    BY <2>2, <2>4
<1>4. ASSUME NEW o \in Ops, NEW t \in Txs, Recorded(o, t)
      PROVE  Links'
  <2>1. CASE operation[o].status = "succeeded"
    <3>1. operation' = operation
      BY <1>4, <2>1 DEF Recorded, RecordTransaction, TypeOK
    <3>2. QED
      BY <1>4, <3>1 DEF Recorded, OneActive, RowsOK, TxsOK, Active, Exists,
         SignedFor, Unused, ledger
  <2>2. CASE operation[o].status # "succeeded"
    <3>1. /\ operation'[o].status = "submitted" /\ operation'[o].tx = t
          /\ \A q \in Ops \ {o} : operation'[q] = operation[q]
          /\ Active(o)
      BY <1>4, <2>2 DEF Recorded, RecordTransaction, MayRecord, Active, Exists,
         TypeOK, Operation, Terminal
    <3>2. OneActive'
      BY <3>1 DEF OneActive, Active
    <3>3. RowsOK'
      BY <1>4, <3>1 DEF Recorded, RowsOK, SignedFor, Unused, ledger
    <3>4. TxsOK'
      BY <1>4, <3>1 DEF Recorded, MayRecord, TxsOK, Unused, Exists, ledger,
         SignedFor
    <3>5. QED
      BY <3>2, <3>3, <3>4
  <2>3. QED
    BY <2>1, <2>2
<1>5. ASSUME NEW o \in Ops, Reported(o)
      PROVE  Links'
  <2>1. CASE ~MayFail(o)
    BY <1>5, <2>1 DEF Reported, FailBeforeSubmission, OneActive, RowsOK, TxsOK,
       Active, Exists, SignedFor, Unused, ledger
  <2>2. CASE MayFail(o)
    <3>1. /\ operation'[o].status = "failed" /\ operation'[o].tx = None
          /\ \A q \in Ops \ {o} : operation'[q] = operation[q]
          /\ operation[o].tx = None
      BY <1>5, <2>2 DEF Reported, FailBeforeSubmission, MayFail, TypeOK,
         Operation
    <3>2. OneActive' /\ RowsOK'
      BY <1>5, <3>1 DEF Reported, OneActive, Active, RowsOK, SignedFor, Unused,
         ledger
    <3>3. TxsOK'
      BY <1>5, <3>1 DEF Reported, TxsOK, Unused, Exists, ledger
    <3>4. QED
      BY <3>2, <3>3
  <2>3. QED
    BY <2>1, <2>2
<1>6. ASSUME NEW o \in Ops, NEW t \in Txs, Submitted(t, o)
      PROVE  Links'
  <2>1. /\ tx'[t].op = o
        /\ tx'[t].state = IF tx[t].state = "signed" THEN "sent" ELSE tx[t].state
        /\ \A u \in Txs \ {t} : tx'[u] = tx[u]
        /\ tx[t].op = o
    BY <1>6 DEF Submitted, SignedFor, TypeOK
  <2>2. OneActive'
    BY <1>6 DEF Submitted, OneActive, Active, rows
  <2>3. RowsOK'
    BY <1>6, <2>1 DEF Submitted, RowsOK, SignedFor, Unused, rows
  <2>4. TxsOK'
    BY <1>6, <2>1 DEF Submitted, TxsOK, SignedFor, Unused, Exists, rows
  <2>5. QED
    BY <2>2, <2>3, <2>4
<1>7. ASSUME NEW o \in Ops, NEW result \in Terminal, Completed(o, result)
      PROVE  Links'
  <2> DEFINE t == operation[o].tx
  <2>1. /\ operation'[o].status = result /\ operation'[o].tx = t
        /\ \A q \in Ops \ {o} : operation'[q] = operation[q]
        /\ t \in Txs /\ tx[t].op = o /\ t # None
    BY <1>7 DEF Completed, MayComplete, TypeOK, Operation, RowsOK, SignedFor
  <2>2. OneActive'
    BY <2>1 DEF OneActive, Active, Terminal
  <2>3. RowsOK'
    BY <1>7, <2>1 DEF Completed, RowsOK, SignedFor, Unused, ledger, Terminal
  <2>4. tx[t].state \notin {"signed", "sent"}
    BY <1>7, <2>1 DEF Completed, Known, TxsOK
  <2>5. \A u \in Txs : tx[u].op = o /\ u # t =>
            tx[u].state \notin {"sent", "applied", "failed"}
    BY <2>1 DEF TxsOK
  <2>6. TxsOK'
    BY <1>7, <2>1, <2>4, <2>5 DEF Completed, TxsOK, Unused, Exists, ledger,
       Terminal
  <2>7. QED
    BY <2>2, <2>3, <2>6
<1>8. ASSUME NEW t \in Txs, LedgerStep(t)
      PROVE  Links'
  <2>1. CASE Forget(t)
    BY <2>1 DEF Forget, OneActive, RowsOK, TxsOK, Active, Exists, SignedFor,
       Unused, rows
  <2>2. ASSUME NEW state \in Final, SetState(t, state),
               tx[t].state \in {"signed", "sent"},
               state # "expired" => tx[t].state = "sent",
               UNCHANGED <<rows, forgotten>>
        PROVE  Links'
    <3>1. /\ tx'[t].op = tx[t].op /\ tx'[t].state = state
          /\ \A u \in Txs \ {t} : tx'[u] = tx[u]
      BY <2>2 DEF SetState, TypeOK
    <3>2. OneActive'
      BY <2>2 DEF OneActive, Active, rows
    <3>3. RowsOK'
      BY <2>2, <3>1 DEF RowsOK, SignedFor, Unused, rows, Final
    <3>4. TxsOK'
      BY <2>2, <3>1 DEF TxsOK, Unused, Exists, rows, Final
    <3>5. QED
      BY <3>2, <3>3, <3>4
  <2>3. QED
    BY <1>8, <2>1, <2>2 DEF LedgerStep, Apply, Reject, Expire, Final
<1>9. CASE ChangeOutside
  BY <1>9 DEF ChangeOutside, OneActive, RowsOK, TxsOK, Active, Exists,
     SignedFor, Unused, rows
<1>10. QED
  BY <1>1, <1>2, <1>3, <1>4, <1>5, <1>6, <1>7, <1>8, <1>9 DEF Effect

LEMMA PagesStep ==
    ASSUME TypeOK, TypeOK', PagesOK, Links, [Next]_vars, Lasts
    PROVE  PagesOK'
<1> USE NoneIsOther DEF PagesOK, PageOK
<1>1. ASSUME NEW p \in Pages, page'[p] = page[p] \/ page'[p].step = "idle"
      PROVE  PageOK(p)'
  <2>1. CASE page'[p].step = "idle"
    BY <2>1
  <2>2. CASE page'[p] = page[p] /\ page[p].step # "idle"
    <3>1. page[p].step = "submitting" => page[p].tx # None
      BY <2>2, NoneIsOther DEF SignedFor
    <3>2. \A t, o : o \in Ops /\ SignedFor(t, o) => SignedFor(t, o)'
      BY DEF Lasts, SignedFor
    <3>3. QED
      BY <2>2, <3>1, <3>2 DEF Lasts, SignedFor, Exists, Unused
  <2>3. QED
    BY <1>1, <2>1, <2>2
<1>2. ASSUME NEW p \in Pages, PageStep(p), NEW q \in Pages
      PROVE  PageOK(q)'
  <2>1. CASE q # p
    <3>1. page'[q] = page[q]
      BY <1>2, <2>1 DEF PageStep, Start, Sign, WalletSigns, WalletFails,
         RecordSigned, RecordingLost, ReportFailure, FailureLost, Submit,
         Close, GoTo, Leave, TypeOK
    <3>2. QED
      BY <1>1, <3>1
  <2>2. CASE q = p
    <3>1. ASSUME NEW o \in Ops, NEW action \in Actions, Start(p, o, action)
          PROVE  PageOK(p)'
      <4>1. page'[p].step = "signing" /\ page'[p].op = o
        BY <3>1 DEF Start, TypeOK, IdlePage
      <4>2. operation'[o].status # "none"
        BY <3>1 DEF Start, TypeOK, NoOperation
      <4>3. QED
        BY <4>1, <4>2 DEF Exists
    <3>2. ASSUME NEW o \in Ops, Sign(p, o)
          PROVE  PageOK(p)'
      <4>1. page'[p].step = "signing" /\ page'[p].op = o
        BY <3>2 DEF Sign, TypeOK, IdlePage
      <4>2. QED
        BY <3>2, <4>1 DEF Sign, Lasts
    <3>3. ASSUME NEW t \in Txs, WalletSigns(p, t)
          PROVE  PageOK(p)'
      <4>1. /\ page'[p].step = "recording" /\ page'[p].tx = t
            /\ page'[p].op = page[p].op
        BY <3>3 DEF WalletSigns, TypeOK, Page
      <4>2. tx'[t].op = page[p].op /\ tx'[t].state = "signed"
        BY <3>3 DEF WalletSigns, TypeOK
      <4>3. QED
        BY <3>3, <4>1, <4>2 DEF WalletSigns, SignedFor, Unused, Lasts
    <3>4. CASE WalletFails(p) \/ RecordingLost(p)
      <4>1. page'[p].step = "failing" /\ page'[p].op = page[p].op
        BY <3>4 DEF WalletFails, RecordingLost, GoTo, TypeOK, Page
      <4>2. QED
        BY <2>2, <3>4, <4>1 DEF WalletFails, RecordingLost, Lasts, Exists
    <3>5. CASE RecordSigned(p)
      <4>1. /\ page'[p].step \in {"failing", "submitting"}
            /\ page'[p].op = page[p].op /\ page'[p].tx = page[p].tx
        BY <3>5 DEF RecordSigned, GoTo, TypeOK, Page
      <4>2. page'[p].step = "submitting" =>
                operation'[page[p].op].tx = page[p].tx
        <5>1. SUFFICES ASSUME page'[p].step = "submitting"
                       PROVE  operation'[page[p].op].tx = page[p].tx
          OBVIOUS
        <5>2. /\ MayRecord(page[p].op, page[p].tx)
              /\ RecordTransaction(page[p].op, page[p].tx)
          BY <3>5, <5>1 DEF RecordSigned, GoTo, TypeOK, Page
        <5>3. page[p].op \in Ops
          BY <3>5 DEF RecordSigned
        <5>4. CASE operation[page[p].op].status = "succeeded"
          BY <5>2, <5>3, <5>4
             DEF MayRecord, RecordTransaction, Links, RowsOK, TypeOK
        <5>5. CASE operation[page[p].op].status # "succeeded"
          BY <5>2, <5>3, <5>5 DEF RecordTransaction, TypeOK, Operation
        <5>6. QED
          BY <5>4, <5>5
      <4>3. PICK o \in Ops, t \in Txs :
                /\ o = page[p].op /\ t = page[p].tx
                /\ Exists(o) /\ SignedFor(t, o)
        BY <3>5 DEF RecordSigned, SignedFor
      <4>4. Exists(o)' /\ SignedFor(t, o)'
        BY <4>3 DEF Lasts
      <4>5. QED
        BY <2>2, <4>1, <4>2, <4>3, <4>4 DEF Exists, SignedFor, Unused
    <3>6. CASE ReportFailure(p) \/ FailureLost(p) \/ Submit(p) \/ Close(p)
      <4>1. page'[p].step = "idle"
        BY <3>6 DEF ReportFailure, FailureLost, Submit, Close, Leave, TypeOK,
           IdlePage
      <4>2. QED
        BY <2>2, <4>1
    <3>7. QED
      BY <1>2, <2>2, <3>1, <3>2, <3>3, <3>4, <3>5, <3>6 DEF PageStep
  <2>3. QED
    BY <2>1, <2>2
<1>3. CASE UNCHANGED page
  BY <1>1, <1>3
<1>4. UNCHANGED page \/ \E p \in Pages : PageStep(p)
  BY DEF Next, Arrive, Recover, RequestStep, Verify, Read, Complete,
     LedgerStep, Apply, Reject, Expire, Forget, ChangeOutside, vars
<1>5. QED
  BY <1>2, <1>3, <1>4

LEMMA LateStep ==
    ASSUME TypeOK, PagesOK, LateOK, [Next]_vars, Lasts
    PROVE  LateOK'
<1>1. ASSUME NEW m \in late
      PROVE  Meant(m)'
  BY DEF LateOK, Meant, TypeOK, Late, Lasts, SignedFor
<1>2. CASE late' \subseteq late
  BY <1>1, <1>2 DEF LateOK
<1>3. ASSUME NEW p \in Pages, RecordingLost(p) \/ FailureLost(p)
      PROVE  LateOK'
  <2>1. PICK m : late' = late \cup {m} /\ Meant(m) /\ m \in Late
    <3>1. CASE RecordingLost(p)
      <4> DEFINE m == [kind |-> "signed", op |-> page[p].op,
                       tx |-> page[p].tx]
      <4>1. late' = late \cup {m}
        BY <3>1 DEF RecordingLost
      <4>2. Meant(m) /\ m \in Late
        BY <3>1 DEF RecordingLost, PagesOK, PageOK, Meant, Late, SignedFor
      <4>3. QED
        BY <4>1, <4>2
    <3>2. CASE FailureLost(p)
      <4> DEFINE m == [kind |-> "fail", op |-> page[p].op, tx |-> None]
      <4>1. late' = late \cup {m}
        BY <3>2 DEF FailureLost
      <4>2. Meant(m) /\ m \in Late
        BY <3>2 DEF FailureLost, PagesOK, PageOK, Meant, Late
      <4>3. QED
        BY <4>1, <4>2
    <3>3. QED
      BY <1>3, <3>1, <3>2
  <2>2. Meant(m)'
    BY <2>1 DEF Meant, Late, Lasts, SignedFor
  <2>3. QED
    BY <1>1, <2>1, <2>2 DEF LateOK
<1>4. \/ late' \subseteq late
      \/ \E p \in Pages : RecordingLost(p) \/ FailureLost(p)
  BY DEF Next, PageStep, Start, Sign, WalletSigns, WalletFails, RecordSigned,
     ReportFailure, Submit, Close, Arrive, Recover, RequestStep, Verify, Read,
     Complete, LedgerStep, Apply, Reject, Expire, Forget, ChangeOutside, vars
<1>5. QED
  BY <1>2, <1>3, <1>4

LEMMA RequestsStep ==
    ASSUME TypeOK, Links, RequestsOK, [Next]_vars, Lasts
    PROVE  RequestsOK'
<1> USE NoneIsOther DEF RequestsOK, RequestOK
<1>1. ASSUME NEW r \in Requests, request'[r] = request[r]
      PROVE  RequestOK(r)'
  <2>1. SUFFICES ASSUME request[r].step # "idle"
                 PROVE  RequestOK(r)'
    BY <1>1
  <2> DEFINE t == operation[request[r].op].tx
  <2>2. /\ request[r].op \in Ops
        /\ operation'[request[r].op].status # "none"
        /\ t \in Txs /\ t # None /\ operation'[request[r].op].tx = t
    BY <2>1 DEF Lasts, TypeOK, Operation, Exists
  <2>3. \A result : Known(t, result) =>
            IF result = "succeeded" THEN tx'[t].state = "applied"
            ELSE t \in forgotten' \/ tx'[t].state \in {"failed", "expired"}
    BY <2>2 DEF Known, Lasts, Final
  <2>4. QED
    BY <1>1, <2>1, <2>2, <2>3 DEF Known, Exists
<1>2. ASSUME NEW r \in Requests, NEW q \in Requests,
             \/ \E o \in Ops : Recover(r, o)
             \/ RequestStep(r)
      PROVE  RequestOK(q)'
  <2>1. CASE q # r
    <3>1. request'[q] = request[q]
      BY <1>2, <2>1 DEF Recover, RequestStep, Verify, Read, Complete, Answer,
         TypeOK
    <3>2. QED
      BY <1>1, <3>1
  <2>2. CASE q = r
    <3>1. Answer(r) => request'[r].step = "idle"
      BY DEF Answer, TypeOK, IdleRequest
    <3>2. ASSUME NEW o \in Ops, Recover(r, o)
          PROVE  RequestOK(r)'
      <4>1. request'[r].step = "verifying" /\ request'[r].op = o
        BY <3>2 DEF Recover, TypeOK, IdleRequest
      <4>2. operation[o].tx # None /\ Exists(o)
        BY <3>2 DEF Recover, Links, RowsOK, Exists
      <4>3. UNCHANGED operation
        BY <3>2 DEF Recover, rows
      <4>4. QED
        BY <4>1, <4>2, <4>3 DEF Exists
    <3>3. CASE Verify(r) \/ Read(r)
      <4>1. UNCHANGED <<operation, tx, forgotten>>
        BY <3>3 DEF Verify, Read, rows, ledger
      <4>2. CASE Answer(r)
        BY <2>2, <3>1, <4>2
      <4>3. ASSUME NEW t, t = operation[request[r].op].tx,
                   request[r].step = "verifying",
                   \/ /\ Verdict(t) = "succeeded"
                      /\ request' = [request EXCEPT ![r].step = "reading",
                                                    ![r].result = "succeeded"]
                   \/ /\ Verdict(t) = "failed"
                      /\ request' = [request EXCEPT ![r].step = "completing",
                                                    ![r].result = "failed"]
            PROVE  RequestOK(r)'
        <5>1. \/ /\ Verdict(t) = "succeeded"
                 /\ request'[r].step = "reading"
                 /\ request'[r].result = "succeeded"
              \/ /\ Verdict(t) = "failed"
                 /\ request'[r].step = "completing"
                 /\ request'[r].result = "failed"
          BY <4>3 DEF TypeOK, Request
        <5>2. request'[r].op = request[r].op
          BY <4>3 DEF TypeOK, Request
        <5>3. Verdict(t) \in Terminal => Known(t, Verdict(t))
          BY DEF Verdict, Known, Terminal
        <5>4. Known(t, request'[r].result)
          BY <5>1, <5>3 DEF Terminal
        <5>5. QED
          BY <4>1, <4>3, <5>1, <5>2, <5>4 DEF Known, Exists
      <4>4. ASSUME request[r].step = "reading",
                   request' = [request EXCEPT ![r].step = "completing"]
            PROVE  RequestOK(r)'
        <5>1. /\ request'[r].step = "completing"
              /\ request'[r].op = request[r].op
              /\ request'[r].result = request[r].result
          BY <4>4 DEF TypeOK, Request
        <5>2. QED
          BY <4>1, <4>4, <5>1 DEF Known, Exists
      <4>5. QED
        BY <2>2, <3>3, <4>2, <4>3, <4>4 DEF Verify, Read
    <3>4. CASE Complete(r)
      BY <2>2, <3>1, <3>4 DEF Complete
    <3>5. QED
      BY <1>2, <2>2, <3>2, <3>3, <3>4 DEF RequestStep
  <2>3. QED
    BY <2>1, <2>2
<1>3. CASE UNCHANGED request
  BY <1>1, <1>3
<1>4. \/ UNCHANGED request
      \/ \E r \in Requests : (\E o \in Ops : Recover(r, o)) \/ RequestStep(r)
  BY DEF Next, PageStep, Start, Sign, WalletSigns, WalletFails, RecordSigned,
     RecordingLost, ReportFailure, FailureLost, Submit, Close, Arrive,
     LedgerStep, Apply, Reject, Expire, Forget, ChangeOutside, vars
<1>5. QED
  BY <1>2, <1>3, <1>4

\* What the ledger applies is the transaction of the one open operation.
LEMMA AppliedIsOpen ==
    ASSUME TypeOK, Links, NEW t \in Txs, Apply(t)
    PROVE  /\ tx[t].op \in Ops
           /\ operation[tx[t].op].status = "submitted"
           /\ operation[tx[t].op].tx = t
           /\ \A o \in Ops : Active(o) => o = tx[t].op
  BY DEF Apply, Links, TxsOK, Unused, OneActive, Active

LEMMA ShownStep ==
    ASSUME TypeOK, TypeOK', Links, Links', Shown, Effect, Lasts
    PROVE  Shown'
<1> USE NoneIsOther DEF Shown
<1>1. SUFFICES ASSUME NEW o \in Ops, ~outside',
                      operation'[o].status = "submitted",
                      tx'[operation'[o].tx].state = "applied"
               PROVE  member' = (operation'[o].action = "grant")
  OBVIOUS
<1> DEFINE t == operation'[o].tx
<1>2. t \in Txs /\ t # None /\ tx'[t].op = o
  BY <1>1 DEF Links, RowsOK, SignedFor, TypeOK, Operation
<1>3. ASSUME operation[o].status = "submitted", operation[o].tx = t,
             operation'[o].action = operation[o].action,
             tx[t].state = "applied", UNCHANGED <<member, outside>>
      PROVE  member' = (operation'[o].action = "grant")
  BY <1>1, <1>3
<1>4. CASE UNCHANGED <<rows, ledger>>
  BY <1>1, <1>2, <1>3, <1>4 DEF rows, ledger
<1>5. ASSUME NEW q \in Ops, NEW action \in Actions, Started(q, action)
      PROVE  member' = (operation'[o].action = "grant")
  <2>1. /\ operation'[q].status = "awaiting_signature"
        /\ \A x \in Ops \ {q} : operation'[x] = operation[x]
    BY <1>5 DEF Started, TypeOK, NoOperation
  <2>2. QED
    BY <1>1, <1>2, <1>3, <1>5, <2>1 DEF Started, ledger
<1>6. ASSUME NEW q \in Ops, NEW u \in Txs, SignedNow(u, q)
      PROVE  member' = (operation'[o].action = "grant")
  <2>1. tx'[u].state = "signed" /\ \A x \in Txs \ {u} : tx'[x] = tx[x]
    BY <1>6 DEF SignedNow, TypeOK
  <2>2. QED
    BY <1>1, <1>2, <1>3, <1>6, <2>1 DEF SignedNow, rows
<1>7. ASSUME NEW q \in Ops, NEW u \in Txs, Recorded(q, u)
      PROVE  member' = (operation'[o].action = "grant")
  <2>1. /\ \A x \in Ops \ {q} : operation'[x] = operation[x]
        /\ operation'[q].action = operation[q].action
        /\ operation[q].status = "succeeded" =>
               operation'[q].status = "succeeded"
        /\ operation[q].status # "succeeded" => operation'[q].tx = u
    BY <1>7 DEF Recorded, RecordTransaction, TypeOK, Operation
  <2>2. UNCHANGED <<tx, member, outside>>
    BY <1>7 DEF Recorded, ledger
  <2>3. o = q => operation[q].tx = u /\ operation[q].status = "submitted"
    <3>1. SUFFICES ASSUME o = q
                   PROVE  operation[q].tx = u /\ operation[q].status = "submitted"
      OBVIOUS
    <3>2. t = u /\ tx[u].state = "applied" /\ tx[u].op = q
      BY <1>1, <1>2, <2>1, <2>2, <3>1
    <3>3. operation[q].tx = u
      BY <3>2 DEF Links, TxsOK
    <3>4. operation[q].status \notin {"none", "awaiting_signature", "succeeded"}
      BY <1>1, <2>1, <3>1, <3>3 DEF Links, RowsOK
    <3>5. QED
      BY <1>7, <3>3, <3>4 DEF Recorded, MayRecord, TypeOK, Operation, Terminal
  <2>4. QED
    BY <1>1, <1>2, <1>3, <2>1, <2>2, <2>3
<1>8. ASSUME NEW q \in Ops, Reported(q)
      PROVE  member' = (operation'[o].action = "grant")
  <2>1. /\ \A x \in Ops \ {q} : operation'[x] = operation[x]
        /\ operation'[q] = operation[q] \/ operation'[q].status = "failed"
    BY <1>8 DEF Reported, FailBeforeSubmission, TypeOK, Operation
  <2>2. QED
    BY <1>1, <1>2, <1>3, <1>8, <2>1 DEF Reported, ledger
<1>9. ASSUME NEW q \in Ops, NEW u \in Txs, Submitted(u, q)
      PROVE  member' = (operation'[o].action = "grant")
  <2>1. \A x \in Txs : tx'[x].state = "applied" => tx[x].state = "applied"
    BY <1>9 DEF Submitted, TypeOK
  <2>2. QED
    BY <1>1, <1>2, <1>3, <1>9, <2>1 DEF Submitted, rows
<1>10. ASSUME NEW q \in Ops, NEW result \in Terminal, Completed(q, result)
       PROVE  member' = (operation'[o].action = "grant")
  <2>1. /\ \A x \in Ops \ {q} : operation'[x] = operation[x]
        /\ operation'[q].status = result
    BY <1>10 DEF Completed, TypeOK, Operation
  <2>2. QED
    BY <1>1, <1>2, <1>3, <1>10, <2>1 DEF Completed, ledger, Terminal
<1>11. ASSUME NEW u \in Txs, LedgerStep(u)
       PROVE  member' = (operation'[o].action = "grant")
  <2>1. CASE Apply(u)
    <3>1. o = tx[u].op
      BY <1>1, <2>1, AppliedIsOpen DEF Apply, rows, Active
    <3>2. QED
      BY <2>1, <3>1 DEF Apply, rows
  <2>2. CASE Reject(u) \/ Expire(u)
    <3>1. \A x \in Txs : tx'[x].state = "applied" => tx[x].state = "applied"
      BY <2>2 DEF Reject, Expire, SetState, TypeOK
    <3>2. QED
      BY <1>1, <1>2, <1>3, <2>2, <3>1 DEF Reject, Expire, rows
  <2>3. CASE Forget(u)
    BY <1>1, <1>2, <1>3, <2>3 DEF Forget, rows
  <2>4. QED
    BY <1>11, <2>1, <2>2, <2>3 DEF LedgerStep
<1>12. CASE ChangeOutside
  BY <1>1, <1>12 DEF ChangeOutside
<1>13. QED
  BY <1>4, <1>5, <1>6, <1>7, <1>8, <1>9, <1>10, <1>11, <1>12 DEF Effect

\* A revocation that is open, and what it has done to the access.
Revoking ==
    \A o \in Ops :
        Active(o) /\ operation[o].action = "revoke" => access = "revoking"

\* What the contract knows about the wallet, as long as nothing else wrote it.
Backed ==
    ~outside =>
        /\ access = "active" => member
        /\ member /\ access \in {"none", "revoked"} =>
               \E t \in Txs : Unreported(t)

LEMMA RevokingStep ==
    ASSUME TypeOK, Links, Revoking, Effect
    PROVE  Revoking'
<1> USE NoneIsOther DEF Revoking
<1>1. ASSUME UNCHANGED rows
      PROVE  Revoking'
  BY <1>1 DEF rows, Active
<1>2. ASSUME NEW q \in Ops, NEW action \in Actions, Started(q, action)
      PROVE  Revoking'
  <2>1. /\ operation'[q].action = action
        /\ \A x \in Ops \ {q} : operation'[x] = operation[x]
    BY <1>2 DEF Started, TypeOK, NoOperation
  <2>2. QED
    BY <1>2, <2>1 DEF Started, MayStart, Active, AccessAfterStart
<1>3. ASSUME NEW q \in Ops, NEW t \in Txs, Recorded(q, t)
      PROVE  Revoking'
  <2>1. /\ \A x \in Ops \ {q} : operation'[x] = operation[x]
        /\ operation'[q].action = operation[q].action
        /\ Active(q)' => Active(q)
    BY <1>3 DEF Recorded, RecordTransaction, MayRecord, Exists, Active, TypeOK,
       Operation, Terminal
  <2>2. QED
    BY <1>3, <2>1 DEF Recorded, RecordTransaction, Active
<1>4. ASSUME NEW q \in Ops, Reported(q)
      PROVE  Revoking'
  <2>1. /\ \A x \in Ops \ {q} : operation'[x] = operation[x]
        /\ operation'[q] = operation[q] \/ ~Active(q)'
    BY <1>4 DEF Reported, FailBeforeSubmission, TypeOK, Operation, Active
  <2>2. QED
    BY <1>4, <2>1 DEF Reported, FailBeforeSubmission, Active
<1>5. ASSUME NEW q \in Ops, NEW result \in Terminal, Completed(q, result)
      PROVE  Revoking'
  <2>1. /\ \A x \in Ops \ {q} : operation'[x] = operation[x]
        /\ ~Active(q)'
    BY <1>5 DEF Completed, TypeOK, Operation, Active, Terminal
  <2>2. Active(q)
    BY <1>5 DEF Completed, MayComplete, Exists, Active, TypeOK, Operation
  <2>3. \A x \in Ops : ~Active(x)'
    BY <2>1, <2>2 DEF Links, OneActive, Active
  <2>4. QED
    BY <2>3
<1>6. QED
  BY <1>1, <1>2, <1>3, <1>4, <1>5 DEF Effect, SignedNow, Submitted, LedgerStep,
     Apply, Reject, Expire, Forget, ChangeOutside

\* A grant stays unreported until its operation is finished with success.
LEMMA UnreportedLasts ==
    ASSUME TypeOK, TypeOK', Links, Lasts, NEW t \in Txs, Unreported(t),
           operation'[tx[t].op].action = operation[tx[t].op].action,
           \/ operation'[tx[t].op].status = operation[tx[t].op].status
           \/ t \in forgotten
    PROVE  Unreported(t)'
<1>1. PICK o \in Ops : o = tx[t].op /\ operation[o].tx = t /\ SignedFor(t, o)
  BY NoneIsOther DEF Unreported, Links, TxsOK, Unused, SignedFor
<1>2. tx'[t].op = o /\ operation'[o].tx = t
  BY <1>1, NoneIsOther DEF Lasts, SignedFor
<1>3. tx'[t].state = "applied" /\ (t \in forgotten => t \in forgotten')
  BY DEF Unreported, Lasts, Final
<1>4. QED
  BY <1>1, <1>2, <1>3 DEF Unreported

LEMMA BackedStep ==
    ASSUME TypeOK, TypeOK', Links, Shown, Revoking, Backed, Effect, Lasts
    PROVE  Backed'
<1> USE NoneIsOther
<1>1. ASSUME UNCHANGED <<access, member, outside>>,
             \A t \in Txs : Unreported(t) =>
                 /\ operation'[tx[t].op].action = operation[tx[t].op].action
                 /\ \/ operation'[tx[t].op].status = operation[tx[t].op].status
                    \/ t \in forgotten
      PROVE  Backed'
  BY <1>1, UnreportedLasts DEF Backed
<1>2. CASE UNCHANGED <<rows, ledger>>
  BY <1>1, <1>2 DEF rows, ledger
<1>3. ASSUME NEW q \in Ops, NEW action \in Actions, Started(q, action)
      PROVE  Backed'
  <2>1. /\ \A x \in Ops \ {q} : operation'[x] = operation[x]
        /\ operation[q].tx = None
    BY <1>3 DEF Started, Exists, TypeOK, Links, RowsOK
  <2>2. \A t \in Txs : Unreported(t) => tx[t].op \in Ops \ {q}
    BY <2>1 DEF Unreported, Links, TxsOK, Unused
  <2>3. CASE action = "grant"
    BY <1>1, <1>3, <2>1, <2>2, <2>3 DEF Started, AccessAfterStart, ledger
  <2>4. CASE action = "revoke"
    BY <1>3, <2>4 DEF Started, AccessAfterStart, Backed, ledger
  <2>5. QED
    BY <2>3, <2>4 DEF Actions
<1>4. ASSUME NEW q \in Ops, NEW u \in Txs, SignedNow(u, q)
      PROVE  Backed'
  BY <1>1, <1>4 DEF SignedNow, rows
<1>5. ASSUME NEW q \in Ops, NEW u \in Txs, Recorded(q, u)
      PROVE  Backed'
  <2>1. /\ \A x \in Ops \ {q} : operation'[x] = operation[x]
        /\ operation'[q].action = operation[q].action
        /\ operation[q].status \in {"submitted", "succeeded"} =>
               operation'[q].status = operation[q].status
    BY <1>5 DEF Recorded, RecordTransaction, TypeOK, Operation
  <2>2. operation[q].status # "failed"
    BY <1>5 DEF Recorded, MayRecord
  <2>3. \A t \in Txs : Unreported(t) /\ tx[t].op = q =>
            operation[q].status \in {"submitted", "succeeded"}
    BY <2>2 DEF Unreported, Links, RowsOK, TypeOK, Operation, Terminal
  <2>4. \A t \in Txs : Unreported(t) => tx[t].op \in Ops
    BY DEF Unreported, Links, TxsOK, Unused
  <2>5. QED
    BY <1>1, <1>5, <2>1, <2>3, <2>4 DEF Recorded, RecordTransaction, ledger
<1>6. ASSUME NEW q \in Ops, Reported(q)
      PROVE  Backed'
  <2>1. /\ \A x \in Ops \ {q} : operation'[x] = operation[x]
        /\ operation'[q] = operation[q] \/ operation[q].tx = None
    BY <1>6 DEF Reported, FailBeforeSubmission, MayFail, TypeOK
  <2>2. \A t \in Txs : Unreported(t) => tx[t].op \in Ops
    BY DEF Unreported, Links, TxsOK, Unused
  <2>3. \A t \in Txs : Unreported(t) /\ tx[t].op = q =>
            operation'[q] = operation[q]
    BY <2>1 DEF Unreported
  <2>4. QED
    BY <1>1, <1>6, <2>1, <2>2, <2>3 DEF Reported, FailBeforeSubmission, ledger
<1>7. ASSUME NEW q \in Ops, NEW u \in Txs, Submitted(u, q)
      PROVE  Backed'
  BY <1>1, <1>7 DEF Submitted, rows
<1>8. ASSUME NEW q \in Ops, NEW result \in Terminal, Completed(q, result)
      PROVE  Backed'
  <2> DEFINE t == operation[q].tx
  <2>1. /\ \A x \in Ops \ {q} : operation'[x] = operation[x]
        /\ operation'[q].action = operation[q].action
        /\ UNCHANGED ledger
    BY <1>8 DEF Completed, TypeOK, Operation
  <2>2. operation[q].status = "submitted" /\ t \in Txs /\ t # None
    BY <1>8 DEF Completed, MayComplete, Exists, Links, RowsOK, TypeOK,
       Operation
  <2>3. CASE result = "failed"
    <3>1. \A u \in Txs : Unreported(u) /\ tx[u].op = q => u \in forgotten
      BY <1>8, <2>3 DEF Completed, Known, Unreported
    <3>2. \A u \in Txs : Unreported(u) => tx[u].op \in Ops
      BY DEF Unreported, Links, TxsOK, Unused
    <3>3. QED
      BY <1>1, <1>8, <2>1, <2>3, <3>1, <3>2 DEF Completed, ledger
  <2>4. CASE result = "succeeded"
    <3>1. tx[t].state = "applied"
      BY <1>8, <2>4 DEF Completed, Known
    <3>2. ~outside => member = (operation[q].action = "grant")
      BY <2>2, <3>1 DEF Shown
    <3>3. access' = IF operation[q].action = "grant" THEN "active"
                    ELSE "revoked"
      BY <1>8, <2>4 DEF Completed
    <3>4. CASE operation[q].action = "grant"
      BY <2>1, <3>2, <3>3, <3>4 DEF Backed, ledger
    <3>5. CASE operation[q].action # "grant"
      BY <2>1, <3>2, <3>3, <3>5 DEF Backed, ledger
    <3>6. QED
      BY <3>4, <3>5
  <2>5. QED
    BY <2>3, <2>4 DEF Terminal
<1>9. ASSUME NEW u \in Txs, LedgerStep(u)
      PROVE  Backed'
  <2>1. CASE Apply(u)
    <3>1. /\ operation[tx[u].op].status = "submitted"
          /\ operation[tx[u].op].tx = u
          /\ tx[u].op \in Ops
      BY <2>1, AppliedIsOpen
    <3>2. tx'[u].state = "applied" /\ tx'[u].op = tx[u].op
      BY <2>1 DEF Apply, SetState, TypeOK
    <3>3. CASE operation[tx[u].op].action = "grant"
      <4>1. Unreported(u)'
        BY <2>1, <3>1, <3>2, <3>3 DEF Unreported, Apply, rows
      <4>2. member' = TRUE
        BY <2>1, <3>3 DEF Apply
      <4>3. QED
        BY <4>1, <4>2 DEF Backed
    <3>4. CASE operation[tx[u].op].action # "grant"
      <4>1. operation[tx[u].op].action = "revoke"
        BY <3>1, <3>4 DEF TypeOK, Operation, Actions
      <4>2. access = "revoking"
        BY <3>1, <4>1 DEF Revoking, Active
      <4>3. access' = "revoking"
        BY <2>1, <4>2 DEF Apply, rows
      <4>4. QED
        BY <4>3 DEF Backed
    <3>5. QED
      BY <3>3, <3>4
  <2>2. CASE Reject(u) \/ Expire(u) \/ Forget(u)
    BY <1>1, <2>2 DEF Reject, Expire, Forget, rows
  <2>3. QED
    BY <1>9, <2>1, <2>2 DEF LedgerStep
<1>10. CASE ChangeOutside
  BY <1>10 DEF ChangeOutside, Backed
<1>11. QED
  BY <1>2, <1>3, <1>4, <1>5, <1>6, <1>7, <1>8, <1>9, <1>10 DEF Effect

LEMMA InvInit == Init => IInv
<1> SUFFICES ASSUME Init PROVE IInv
  OBVIOUS
<1>1. TypeOK
  BY TypeInit
<1>2. Links
  BY NoneIsOther DEF Init, Links, OneActive, RowsOK, TxsOK, Active, Unused,
     NoOperation
<1>3. PagesOK /\ LateOK /\ RequestsOK
  BY DEF Init, PagesOK, PageOK, LateOK, RequestsOK, RequestOK, IdlePage,
     IdleRequest
<1>4. Shown /\ AccessIsBacked
  BY DEF Init, Shown, AccessIsBacked, NoOperation, Active
<1>5. QED
  BY <1>1, <1>2, <1>3, <1>4 DEF IInv

LEMMA InvStep == IInv /\ [Next]_vars => IInv'
<1> SUFFICES ASSUME IInv, [Next]_vars PROVE IInv'
  OBVIOUS
<1> USE DEF IInv
<1>1. TypeOK'
  BY TypeStep
<1>2. Effect
  BY WhatAStepDoes
<1>3. Lasts
  BY <1>2, KnowledgeLasts DEF Links
<1>4. Links'
  BY <1>1, <1>2, <1>3, LinksStep
<1>5. PagesOK' /\ LateOK' /\ RequestsOK'
  BY <1>1, <1>3, PagesStep, LateStep, RequestsStep
<1>6. Shown'
  BY <1>1, <1>2, <1>3, <1>4, ShownStep
<1>7. AccessIsBacked'
  <2>1. AccessIsBacked <=> Revoking /\ Backed
    BY DEF AccessIsBacked, Revoking, Backed
  <2>2. Revoking' /\ Backed'
    BY <1>1, <1>2, <1>3, <2>1, RevokingStep, BackedStep
  <2>3. QED
    BY <2>2 DEF AccessIsBacked, Revoking, Backed
<1>8. QED
  BY <1>1, <1>4, <1>5, <1>6, <1>7

LEMMA InvHolds == Spec => []IInv
  BY InvInit, InvStep, PTL DEF Spec

\* Every row, transaction, page and request has a value of its table
\* (admin/schema.ts and the steps of the page and the route).
THEOREM MembershipTypeCorrect == Spec => []TypeOK
<1>1. IInv => TypeOK
  BY DEF IInv
<1>2. QED
  BY <1>1, InvHolds, PTL

\* The access an operation gives or takes is backed by the contract, and gone
\* as soon as a revocation starts, for any number of operations, pages and
\* requests in flight (startDisputeAdminOperation, the recover route and
\* completeDisputeAdminOperation).
THEOREM AccessBacked == Spec => []AccessIsBacked
<1>1. IInv => AccessIsBacked
  BY DEF IInv
<1>2. QED
  BY <1>1, InvHolds, PTL
=============================================================================
