--------------------------- MODULE SettlementProofs ---------------------------
(***************************************************************************)
(* The settlement of a dispute for any number of admins, operations,       *)
(* shares and requests in flight: the rows say what the ledger did, and no *)
(* request, however late, undoes that.                                     *)
(***************************************************************************)
EXTENDS Settlement, FiniteSetTheorems, TLAPS

-----------------------------------------------------------------------------
(* The inductive invariant. *)

Phase == {"started", "signed", "failed", "reconcile", "reconcile_external"}

RouteSteps == {"preflight", "escrow", "record", "read", "verify", "unknown",
               "check_disputed", "fail", "check_settled", "succeed", "search",
               "adopt"}

RequestType == [phase: Phase, step: RouteSteps, actor: Admin,
                op: OperationId \cup {None}, hash: Hash \cup {None}]

MirrorRow == [status: {"funded", "submitted", "disputed", "released", "cancelled"},
              hash: Hash \cup {None}]

RowTypes ==
    /\ dispute \in [status: DisputeStatus, assigned: Admin \cup {None},
                    share: Shares \cup {None}, hash: Hash \cup {None}]
    /\ mirror \in MirrorRow
    /\ unrecorded \subseteq Unrecorded
    /\ DOMAIN attempts \subseteq OperationId
    /\ attempts \in [DOMAIN attempts -> Attempt]
    /\ members \subseteq OtherAdmin

LedgerTypes ==
    /\ chain \in [status: {"disputed", "released", "cancelled"},
                  share: Shares \cup {None}, hash: Hash \cup {None}]
    /\ chainAdmins \subseteq Admin
    /\ tx \in [Hash -> {"unsigned", "signed", "pending", "succeeded",
                        "failed", "expired"}]
    /\ forgotten \subseteq Hash
    /\ terms \in [Hash -> [actor: Admin, share: Shares] \cup {None}]
    /\ tab \in [Ops -> {"idle", "starting", "signing", "recording",
                        "submitting", "over"}]

RequestTypes ==
    /\ jobs \subseteq RequestType
    /\ IsFiniteSet(jobs)
    /\ \A w \in Admin : Cardinality({j \in jobs : j.actor = w}) <= MaxRequests

Types == RowTypes /\ LedgerTypes /\ RequestTypes

\* A transaction that will not settle the escrow any more.
Dead == {"failed", "expired"}

\* The ledger: whatever was signed has its terms; the escrow is settled by the
\* one transaction that succeeded.
LedgerOK ==
    /\ tx[External] \in {"unsigned", "succeeded"}
    /\ \A h \in Hash : tx[h] # "unsigned" => terms[h] \in [actor: Admin, share: Shares]
    /\ \A h \in Hash : tx[h] = "succeeded" => chain.hash = h
    /\ \A h \in forgotten : tx[h] \in {"succeeded", "failed"}
    /\ chain.status = "disputed" => chain.hash = None
    /\ chain.status # "disputed" =>
           /\ chain.hash \in Hash
           /\ tx[chain.hash] = "succeeded"
           /\ chain.share = terms[chain.hash].share
           /\ chain.status = SettledStatus(chain.share)

\* The tab: nothing is signed before its turn, and only a recorded
\* transaction is submitted.
TabOK ==
    \A op \in Ops :
        /\ tab[op] # "idle" => terms[op] \in [actor: Admin, share: Shares]
        /\ tab[op] \in {"idle", "starting", "signing"} => tx[op] = "unsigned"
        /\ tab[op] = "recording" => tx[op] # "unsigned"
        /\ tab[op] = "submitting" => op \in DOMAIN attempts /\ attempts[op].hash = op

AttemptsOK ==
    \A op \in DOMAIN attempts :
        /\ attempts[op].status = "succeeded" => attempts[op].hash # None
        /\ attempts[op].hash # None => tx[attempts[op].hash] # "unsigned"
        /\ attempts[op].status = "failed" /\ attempts[op].hash # None =>
               tx[attempts[op].hash] \in Dead

\* One attempt at a time, of the admin who has the case.
OneActive ==
    /\ \A p, q \in ActiveAttempts : p = q
    /\ \A op \in ActiveAttempts : attempts[op].actor = dispute.assigned

\* What a request has seen by the time it is at a step.
StartedOK(j) ==
    /\ j.step \in {"preflight", "escrow", "record"}
    /\ j.op \in Ops
    /\ tab[j.op] # "idle"

SignedOK(j) ==
    /\ j.step = "record"
    /\ j.op \in Ops
    /\ j.hash = j.op
    /\ tx[j.op] # "unsigned"

FailedOK(j) ==
    /\ j.step = "record"
    /\ j.op \in Ops
    /\ j.hash = None

ReconcileOK(j) ==
    /\ j.step \in {"read", "verify", "unknown", "check_disputed", "fail",
                   "check_settled", "succeed"}
    /\ j.op \in DOMAIN attempts
    /\ j.step = "read" => j.hash = None
    /\ j.step \notin {"read", "fail"} => j.hash \in Hash /\ attempts[j.op].hash = j.hash
    /\ j.step = "check_disputed" => tx[j.hash] \in Dead \/ j.hash \in forgotten
    /\ j.step = "fail" /\ j.hash # None => tx[j.hash] \in Dead
    /\ j.step \in {"check_settled", "succeed"} =>
           tx[j.hash] = "succeeded" /\ HasTermsOf(j.hash, attempts[j.op])

ExternalOK(j) ==
    /\ j.step \in {"preflight", "search", "check_settled", "adopt", "succeed"}
    /\ j.step \in {"check_settled", "adopt", "succeed"} =>
           /\ j.hash \in Hash
           /\ tx[j.hash] = "succeeded"
           /\ terms[j.hash].actor = j.actor
    /\ j.step = "succeed" =>
           /\ j.op \in DOMAIN attempts
           /\ attempts[j.op].hash = j.hash
           /\ HasTermsOf(j.hash, attempts[j.op])

RequestOK(j) ==
    /\ j.phase = "started" => StartedOK(j)
    /\ j.phase = "signed" => SignedOK(j)
    /\ j.phase = "failed" => FailedOK(j)
    /\ j.phase = "reconcile" => ReconcileOK(j)
    /\ j.phase = "reconcile_external" => ExternalOK(j)

RequestsOK == \A j \in jobs : RequestOK(j)

SettlementInv ==
    /\ Types
    /\ LedgerOK
    /\ TabOK
    /\ AttemptsOK
    /\ OneActive
    /\ NothingUnrecordedIsSubmitted
    /\ RecordsFollowTheChain
    /\ RequestsOK

-----------------------------------------------------------------------------
(* What the steps have in common. *)

\* The six mutations, each with the step of the route that calls it.
Started(job) ==
    /\ At(job, "started", "record")
    /\ StartAccepted(job) /\ RecordStarted(job)
    /\ UNCHANGED <<dispute, mirror>>

Signed(job) ==
    /\ At(job, "signed", "record")
    /\ SignedAccepted(job) /\ RecordSigned(job)
    /\ UNCHANGED <<dispute, mirror>>

Failed(job) ==
    /\ At(job, "failed", "record") \/ At(job, "reconcile", "fail")
    /\ FailedAccepted(job) /\ RecordFailed(job)
    /\ UNCHANGED <<dispute, mirror>>

Doubted(job) ==
    /\ At(job, "reconcile", "unknown")
    /\ UnknownAccepted(job) /\ RecordUnknown(job)
    /\ UNCHANGED <<dispute, mirror>>

Adopted(job) ==
    /\ At(job, "reconcile_external", "adopt")
    /\ AdoptAccepted(job) /\ RecordAdopted(job)
    /\ UNCHANGED <<dispute, mirror>>

Succeeded(job) ==
    /\ job.step = "succeed"
    /\ SucceededAccepted(job) /\ RecordSucceeded(job)

\* What a step of a request does to the rows.
Mutation(job) ==
    \/ UNCHANGED <<dispute, mirror, attempts>>
    \/ Started(job) \/ Signed(job) \/ Failed(job) \/ Doubted(job)
    \/ Adopted(job) \/ Succeeded(job)

\* A request touches neither the ledger nor the memberships.
LEMMA RouteIsMutation ==
    ASSUME NEW job, RouteStep(job)
    PROVE  /\ Mutation(job)
           /\ UNCHANGED <<members, chainVars, terms, unrecorded>>
<1> USE DEF convexVars, chainVars, tabVars, Mutation
<1>r. ASSUME Refuse(job)
      PROVE  UNCHANGED <<dispute, mirror, attempts, members, chainVars, terms,
                         unrecorded>>
  BY <1>r DEF Refuse
<1>p. ASSUME NEW step, Proceed(job, step)
      PROVE  UNCHANGED <<dispute, mirror, attempts, members, chainVars, terms,
                         unrecorded>>
  BY <1>p DEF Proceed
<1>1. CASE Preflight(job)
  BY <1>1, <1>r, <1>p DEF Preflight
<1>2. CASE CheckDisputed(job)
  BY <1>2, <1>r, <1>p DEF CheckDisputed
<1>3. CASE RouteStarted(job)
  BY <1>3, <1>r DEF RouteStarted, Started
<1>4. CASE RouteSigned(job)
  BY <1>4, <1>r DEF RouteSigned, Signed
<1>5. CASE RouteFailed(job)
  BY <1>5, <1>r DEF RouteFailed, Failed
<1>6. CASE ReadAttempt(job)
  BY <1>6, <1>r, <1>p DEF ReadAttempt
<1>7. CASE Verify(job)
  <2>1. \E step : Proceed(job, step) \/ Refuse(job)
    BY <1>7 DEF Verify
  <2>2. QED
    BY <2>1, <1>r, <1>p
<1>8. CASE RouteUnknown(job)
  BY <1>8, <1>r DEF RouteUnknown, Doubted
<1>9. CASE CheckEscrow(job)
  <2>1. \E step : Proceed(job, step) \/ Refuse(job)
    BY <1>9 DEF CheckEscrow
  <2>2. QED
    BY <2>1, <1>r, <1>p
<1>10. CASE Search(job)
  BY <1>10, <1>r DEF Search
<1>11. CASE RouteAdopt(job)
  BY <1>11, <1>r DEF RouteAdopt, Adopted
<1>12. CASE RouteSucceeded(job)
  BY <1>12, <1>r DEF RouteSucceeded, Succeeded
<1>13. QED
  BY <1>1, <1>2, <1>3, <1>4, <1>5, <1>6, <1>7, <1>8, <1>9, <1>10, <1>11,
     <1>12 DEF RouteStep

-----------------------------------------------------------------------------
(* What a mutation makes of the attempts. *)

\* What an attempt keeps.
AttemptsLast ==
    \A op \in DOMAIN attempts :
        /\ op \in DOMAIN attempts'
        /\ attempts'[op].actor = attempts[op].actor
        /\ attempts'[op].share = attempts[op].share
        /\ attempts[op].hash # None => attempts'[op].hash = attempts[op].hash
        /\ attempts[op].status \in Terminal => attempts'[op] = attempts[op]

LEMMA AdminIsNotNone == None \notin Admin /\ None \notin Hash
BY SettlementConstants

LEMMA OwnerOfIsKnown ==
    ASSUME NEW h \in Hash, DOMAIN attempts \subseteq OperationId
    PROVE  /\ OwnerOf(h) \in OperationId
           /\ OwnerOf(h) \notin DOMAIN attempts => ActiveAttempts = {}
           /\ OwnerOf(h) \in DOMAIN attempts =>
                  OwnerOf(h) \in ActiveAttempts \/ OwnerOf(h) = ReconcileOp(h)
<1>1. ReconcileOp(h) \in OperationId
  BY DEF OperationId
<1>2. ActiveAttempts \subseteq DOMAIN attempts
  BY DEF ActiveAttempts
<1>3. CASE ReconcileOp(h) \notin DOMAIN attempts /\ ActiveAttempts # {}
  <2>1. OwnerOf(h) \in ActiveAttempts
    BY <1>3 DEF OwnerOf
  <2>2. QED
    BY <2>1, <1>2
<1>4. CASE ~(ReconcileOp(h) \notin DOMAIN attempts /\ ActiveAttempts # {})
  <2>1. OwnerOf(h) = ReconcileOp(h)
    BY <1>4 DEF OwnerOf
  <2>2. QED
    BY <2>1, <1>1, <1>4
<1>5. QED
  BY <1>3, <1>4

\* A new attempt.
LEMMA PutKeeps ==
    ASSUME RowTypes, NEW op \in OperationId \ DOMAIN attempts, NEW a \in Attempt,
           Put(op, a)
    PROVE  /\ attempts' \in [DOMAIN attempts' -> Attempt]
           /\ DOMAIN attempts' = DOMAIN attempts \cup {op}
           /\ attempts'[op] = a
           /\ \A o \in DOMAIN attempts : attempts'[o] = attempts[o]
BY DEF Put, RowTypes

\* An attempt gets another status, and perhaps its hash.
LEMMA PatchKeeps ==
    ASSUME RowTypes, NEW op \in DOMAIN attempts,
           NEW h \in Hash \cup {None},
           NEW status \in {"started", "signed", "submission_unknown",
                           "succeeded", "failed"},
           attempts' = [attempts EXCEPT ![op].hash = h, ![op].status = status]
    PROVE  /\ attempts' \in [DOMAIN attempts' -> Attempt]
           /\ DOMAIN attempts' = DOMAIN attempts
           /\ attempts'[op] = [actor |-> attempts[op].actor, share |-> attempts[op].share,
                               hash |-> h, status |-> status]
           /\ \A o \in DOMAIN attempts \ {op} : attempts'[o] = attempts[o]
<1>1. attempts[op] \in Attempt
  BY DEF RowTypes
<1>2. attempts' = [attempts EXCEPT ![op] = [[@ EXCEPT !.hash = h] EXCEPT !.status = status]]
  BY DEF RowTypes
<1> DEFINE a == [[attempts[op] EXCEPT !.hash = h] EXCEPT !.status = status]
<1>3. attempts' = [attempts EXCEPT ![op] = a]
  BY <1>2
<1>4. a = [actor |-> attempts[op].actor, share |-> attempts[op].share,
           hash |-> h, status |-> status]
  <2> DEFINE b == [attempts[op] EXCEPT !.hash = h]
  <2>1. b = [actor |-> attempts[op].actor, share |-> attempts[op].share,
             hash |-> h, status |-> attempts[op].status]
    BY <1>1 DEF Attempt
  <2>2. a = [b EXCEPT !.status = status]
    OBVIOUS
  <2> HIDE DEF a, b
  <2>3. QED
    BY <2>1, <2>2
<1>5. a \in Attempt
  BY <1>1, <1>4 DEF Attempt
<1> HIDE DEF a
<1>6. /\ DOMAIN attempts' = DOMAIN attempts
      /\ attempts'[op] = a
      /\ \A o \in DOMAIN attempts \ {op} : attempts'[o] = attempts[o]
  BY <1>3
<1>7. attempts' \in [DOMAIN attempts' -> Attempt]
  BY <1>3, <1>5, <1>6 DEF RowTypes
<1>8. QED
  BY <1>4, <1>6, <1>7

LEMMA StatusKeeps ==
    ASSUME RowTypes, NEW op \in DOMAIN attempts,
           NEW status \in {"started", "signed", "submission_unknown",
                           "succeeded", "failed"},
           SetAttemptStatus(op, status)
    PROVE  /\ attempts' \in [DOMAIN attempts' -> Attempt]
           /\ DOMAIN attempts' = DOMAIN attempts
           /\ attempts'[op] = [actor |-> attempts[op].actor, share |-> attempts[op].share,
                               hash |-> attempts[op].hash, status |-> status]
           /\ \A o \in DOMAIN attempts \ {op} : attempts'[o] = attempts[o]
<1>1. attempts[op] \in Attempt
  BY DEF RowTypes
<1> DEFINE a == [attempts[op] EXCEPT !.status = status]
<1>2. attempts' = [attempts EXCEPT ![op] = a]
  BY DEF RowTypes, SetAttemptStatus
<1>3. /\ a = [actor |-> attempts[op].actor, share |-> attempts[op].share,
              hash |-> attempts[op].hash, status |-> status]
      /\ a \in Attempt
  BY <1>1 DEF Attempt
<1> HIDE DEF a
<1>4. QED
  BY <1>2, <1>3 DEF RowTypes

\* A first row for an operation, made for the admin who has the case.
Opens(op) ==
    /\ op \in OperationId \ DOMAIN attempts
    /\ ActiveAttempts = {}
    /\ DOMAIN attempts' = DOMAIN attempts \cup {op}
    /\ \A o \in DOMAIN attempts : attempts'[o] = attempts[o]
    /\ attempts'[op].actor = dispute.assigned
    /\ attempts'[op].status \in {"started", "signed"}
    /\ attempts'[op].hash # None => tx[attempts'[op].hash] = "succeeded"
    /\ UNCHANGED <<dispute, mirror>>

\* An open attempt goes on: it learns its hash or keeps it, and ends only with
\* what the ledger says.
Advances(op) ==
    /\ op \in ActiveAttempts
    /\ DOMAIN attempts' = DOMAIN attempts
    /\ \A o \in DOMAIN attempts \ {op} : attempts'[o] = attempts[o]
    /\ attempts'[op].actor = attempts[op].actor
    /\ attempts'[op].share = attempts[op].share
    /\ attempts[op].hash # None => attempts'[op].hash = attempts[op].hash
    /\ attempts'[op].hash # None => tx[attempts'[op].hash] # "unsigned"
    /\ attempts'[op].status = "failed" =>
           attempts'[op].hash = None \/ tx[attempts'[op].hash] \in Dead
    /\ \/ attempts'[op].status # "succeeded" /\ UNCHANGED <<dispute, mirror>>
       \/ /\ attempts'[op].status = "succeeded"
          /\ attempts'[op].hash \in Hash
          /\ tx[attempts'[op].hash] = "succeeded"
          /\ HasTermsOf(attempts'[op].hash, attempts'[op])
          /\ dispute' = [dispute EXCEPT !.status = ResolutionOf(attempts'[op].share),
                                        !.share = attempts'[op].share,
                                        !.hash = attempts'[op].hash]
          /\ mirror' = [status |-> SettledStatus(attempts'[op].share),
                        hash |-> attempts'[op].hash]

RowsStep ==
    /\ attempts' \in [DOMAIN attempts' -> Attempt]
    /\ \/ UNCHANGED <<dispute, mirror, attempts>>
       \/ \E op \in OperationId : Opens(op)
       \/ \E op \in DOMAIN attempts : Advances(op)

LEMMA StartedStep ==
    ASSUME SettlementInv, NEW job \in jobs, Started(job)
    PROVE  RowsStep
<1> DEFINE op == job.op
           a == [actor |-> job.actor, share |-> terms[op].share,
                 hash |-> None, status |-> "started"]
<1>1. /\ RowTypes /\ LedgerTypes /\ job \in RequestType
      /\ op \in Ops /\ tab[op] # "idle"
  BY DEF SettlementInv, Types, RequestTypes, RequestsOK, RequestOK, StartedOK,
         Started, At
<1>2. a \in Attempt /\ op \in OperationId
  BY <1>1 DEF SettlementInv, TabOK, Attempt, RequestType, OperationId
<1>3. CASE op \in DOMAIN attempts
  BY <1>1, <1>3 DEF Started, RecordStarted, RowsStep, RowTypes
<1>4. CASE op \notin DOMAIN attempts
  <2>1. Put(op, a) /\ ActiveAttempts = {} /\ job.actor = dispute.assigned
    BY <1>4 DEF Started, RecordStarted, StartAccepted, IsAssigned
  <2> HIDE DEF op
  <2>2. /\ attempts' \in [DOMAIN attempts' -> Attempt]
        /\ DOMAIN attempts' = DOMAIN attempts \cup {op}
        /\ attempts'[op] = a
        /\ \A o \in DOMAIN attempts : attempts'[o] = attempts[o]
    BY <2>1, <1>1, <1>2, <1>4, PutKeeps
  <2>3. Opens(op)
    BY <2>1, <2>2, <1>2, <1>4 DEF Opens, Started
  <2>4. QED
    BY <2>2, <2>3, <1>2 DEF RowsStep
<1>5. QED
  BY <1>3, <1>4

LEMMA SignedStep ==
    ASSUME SettlementInv, NEW job \in jobs, Signed(job)
    PROVE  RowsStep
<1> DEFINE op == job.op
<1>1. /\ RowTypes /\ LedgerTypes /\ AttemptsOK
      /\ op \in Ops /\ job.hash = op /\ tx[op] # "unsigned"
  BY DEF SettlementInv, Types, RequestTypes, RequestsOK, RequestOK, SignedOK,
         Signed, At
<1>2. op \in DOMAIN attempts /\ attempts[op] \in Attempt /\ op \in Hash
  BY <1>1 DEF Signed, SignedAccepted, RowTypes, Hash
<1>3. CASE attempts[op].hash # None
  BY <1>1, <1>3 DEF Signed, RecordSigned, RowsStep, RowTypes
<1>4. CASE attempts[op].hash = None
  <2>1. /\ attempts' = [attempts EXCEPT ![op].hash = op, ![op].status = "signed"]
        /\ UNCHANGED <<dispute, mirror>>
    BY <1>1, <1>4 DEF Signed, RecordSigned
  <2>2. op \in ActiveAttempts
    BY <1>1, <1>2, <1>4 DEF Signed, SignedAccepted, AttemptsOK, ActiveAttempts,
                            Terminal
  <2> HIDE DEF op
  <2>3. /\ attempts' \in [DOMAIN attempts' -> Attempt]
        /\ DOMAIN attempts' = DOMAIN attempts
        /\ attempts'[op] = [actor |-> attempts[op].actor, share |-> attempts[op].share,
                            hash |-> op, status |-> "signed"]
        /\ \A o \in DOMAIN attempts \ {op} : attempts'[o] = attempts[o]
    BY <2>1, <1>1, <1>2, PatchKeeps, ZenonT(30)
  <2>4. /\ attempts'[op].actor = attempts[op].actor
        /\ attempts'[op].share = attempts[op].share
        /\ attempts'[op].hash = op
        /\ attempts'[op].status = "signed"
    BY <2>3
  <2>5. Advances(op)
    BY <2>1, <2>2, <2>3, <2>4, <1>1, <1>4 DEF Advances
  <2>6. QED
    BY <2>3, <2>5, <1>2 DEF RowsStep
<1>5. QED
  BY <1>3, <1>4

LEMMA FailedStep ==
    ASSUME SettlementInv, NEW job \in jobs, Failed(job)
    PROVE  RowsStep
<1> DEFINE op == job.op
<1>1. /\ RowTypes /\ op \in DOMAIN attempts /\ UNCHANGED <<dispute, mirror>>
      /\ attempts[op] \in Attempt
  BY DEF SettlementInv, Types, Failed, FailedAccepted, HasAccess, RowTypes
<1>2. job.hash # None => tx[job.hash] \in Dead
  BY DEF SettlementInv, RequestsOK, RequestOK, FailedOK, ReconcileOK, Failed, At
<1>3. CASE attempts[op].status \in Terminal
  BY <1>1, <1>3 DEF Failed, RecordFailed, RowsStep, RowTypes
<1>4. CASE attempts[op].status \notin Terminal
  <2>1. SetAttemptStatus(op, "failed") /\ attempts[op].hash = job.hash
    BY <1>4 DEF Failed, RecordFailed, FailedAccepted
  <2> HIDE DEF op
  <2>2. /\ attempts' \in [DOMAIN attempts' -> Attempt]
        /\ DOMAIN attempts' = DOMAIN attempts
        /\ attempts'[op] = [actor |-> attempts[op].actor, share |-> attempts[op].share,
                            hash |-> attempts[op].hash, status |-> "failed"]
        /\ \A o \in DOMAIN attempts \ {op} : attempts'[o] = attempts[o]
    BY <2>1, <1>1, StatusKeeps
  <2>3. Advances(op)
    BY <2>1, <2>2, <1>1, <1>2, <1>4 DEF Advances, ActiveAttempts, Dead
  <2>4. QED
    BY <2>2, <2>3, <1>1 DEF RowsStep
<1>5. QED
  BY <1>3, <1>4

LEMMA DoubtedStep ==
    ASSUME SettlementInv, NEW job \in jobs, Doubted(job)
    PROVE  RowsStep
<1> DEFINE op == job.op
<1>1. /\ RowTypes /\ op \in DOMAIN attempts /\ UNCHANGED <<dispute, mirror>>
      /\ attempts[op] \in Attempt /\ AttemptsOK
  BY DEF SettlementInv, Types, Doubted, UnknownAccepted, HasAccess, RowTypes
<1>2. CASE attempts[op].status \in Terminal
  BY <1>1, <1>2 DEF Doubted, RecordUnknown, RowsStep, RowTypes
<1>3. CASE attempts[op].status \notin Terminal
  <2>1. SetAttemptStatus(op, "submission_unknown")
    BY <1>3 DEF Doubted, RecordUnknown
  <2> HIDE DEF op
  <2>2. /\ attempts' \in [DOMAIN attempts' -> Attempt]
        /\ DOMAIN attempts' = DOMAIN attempts
        /\ attempts'[op] = [actor |-> attempts[op].actor, share |-> attempts[op].share,
                            hash |-> attempts[op].hash, status |-> "submission_unknown"]
        /\ \A o \in DOMAIN attempts \ {op} : attempts'[o] = attempts[o]
    BY <2>1, <1>1, StatusKeeps
  <2>3. Advances(op)
    BY <2>2, <1>1, <1>3 DEF Advances, ActiveAttempts, AttemptsOK
  <2>4. QED
    BY <2>2, <2>3, <1>1 DEF RowsStep
<1>4. QED
  BY <1>2, <1>3

LEMMA AdoptedStep ==
    ASSUME SettlementInv, NEW job \in jobs, Adopted(job)
    PROVE  RowsStep
<1> DEFINE op == OwnerOf(job.hash)
           a == [actor |-> job.actor, share |-> terms[job.hash].share,
                 hash |-> job.hash, status |-> "signed"]
<1>1. /\ RowTypes /\ LedgerTypes /\ LedgerOK /\ AttemptsOK
      /\ job.actor \in Admin
      /\ job.hash \in Hash /\ tx[job.hash] = "succeeded"
      /\ UNCHANGED <<dispute, mirror>>
  BY DEF SettlementInv, Types, RequestTypes, RequestType, RequestsOK, RequestOK,
         ExternalOK, Adopted, At
<1>2. /\ op \in OperationId
      /\ op \notin DOMAIN attempts => ActiveAttempts = {}
  BY <1>1, OwnerOfIsKnown DEF RowTypes
<1>3. CASE op \notin DOMAIN attempts
  <2>1. Put(op, a) /\ job.actor = dispute.assigned
    BY <1>3 DEF Adopted, RecordAdopted, AdoptAccepted, IsAssigned
  <2>2. a \in Attempt
    BY <1>1 DEF LedgerOK, Attempt
  <2> HIDE DEF op
  <2>3. /\ attempts' \in [DOMAIN attempts' -> Attempt]
        /\ DOMAIN attempts' = DOMAIN attempts \cup {op}
        /\ attempts'[op] = a
        /\ \A o \in DOMAIN attempts : attempts'[o] = attempts[o]
    BY <2>1, <2>2, <1>1, <1>2, <1>3, PutKeeps
  <2>4. Opens(op)
    BY <2>1, <2>3, <1>1, <1>2, <1>3 DEF Opens
  <2>5. QED
    BY <2>3, <2>4, <1>2 DEF RowsStep
<1>4. CASE op \in DOMAIN attempts /\ attempts[op].hash = None
  <2>1. /\ attempts' = [attempts EXCEPT ![op].hash = job.hash,
                                        ![op].status = "signed"]
        /\ attempts[op].status # "failed"
    BY <1>4 DEF Adopted, RecordAdopted, AdoptAccepted
  <2> HIDE DEF op
  <2>2. /\ attempts' \in [DOMAIN attempts' -> Attempt]
        /\ DOMAIN attempts' = DOMAIN attempts
        /\ attempts'[op] = [actor |-> attempts[op].actor, share |-> attempts[op].share,
                            hash |-> job.hash, status |-> "signed"]
        /\ \A o \in DOMAIN attempts \ {op} : attempts'[o] = attempts[o]
    BY <2>1, <1>1, <1>4, PatchKeeps
  <2>3. op \in ActiveAttempts
    BY <2>1, <1>1, <1>4 DEF AttemptsOK, ActiveAttempts, Terminal
  <2>4. /\ attempts'[op].actor = attempts[op].actor
        /\ attempts'[op].share = attempts[op].share
        /\ attempts'[op].hash = job.hash
        /\ attempts'[op].status = "signed"
    BY <2>2
  <2>5. Advances(op)
    BY <2>2, <2>3, <2>4, <1>1, <1>4 DEF Advances
  <2>6. QED
    BY <2>2, <2>5, <1>4 DEF RowsStep
<1>5. CASE op \in DOMAIN attempts /\ attempts[op].hash # None
  <2>1. UNCHANGED attempts
    BY <1>5 DEF Adopted, RecordAdopted
  <2>2. QED
    BY <2>1, <1>1 DEF RowsStep, RowTypes
<1>6. QED
  BY <1>3, <1>4, <1>5

LEMMA SucceededStep ==
    ASSUME SettlementInv, NEW job \in jobs, Succeeded(job)
    PROVE  RowsStep
<1> DEFINE op == job.op
<1>1. /\ RowTypes /\ op \in DOMAIN attempts
      /\ attempts[op] \in Attempt
      /\ attempts[op].status # "failed"
      /\ attempts[op].hash = job.hash
  BY DEF SettlementInv, Types, Succeeded, SucceededAccepted, HasAccess, RowTypes
<1>2. /\ job.hash \in Hash
      /\ tx[job.hash] = "succeeded"
      /\ HasTermsOf(job.hash, attempts[op])
  <2>1. job.phase \in Phase /\ job.step = "succeed" /\ RequestOK(job)
    BY DEF SettlementInv, Types, RequestTypes, RequestType, RequestsOK, Succeeded
  <2>2. QED
    BY <2>1 DEF Phase, RequestOK, StartedOK, SignedOK, FailedOK, ReconcileOK,
                ExternalOK
<1>3. CASE attempts[op].status = "succeeded"
  BY <1>1, <1>3 DEF Succeeded, RecordSucceeded, RowsStep, RowTypes
<1>4. CASE attempts[op].status # "succeeded"
  <2>1. /\ SetAttemptStatus(op, "succeeded")
        /\ dispute' = [dispute EXCEPT !.status = ResolutionOf(attempts[op].share),
                                      !.share = attempts[op].share,
                                      !.hash = job.hash]
        /\ mirror' = [status |-> SettledStatus(attempts[op].share),
                      hash |-> job.hash]
    BY <1>4 DEF Succeeded, RecordSucceeded
  <2> HIDE DEF op
  <2>2. /\ attempts' \in [DOMAIN attempts' -> Attempt]
        /\ DOMAIN attempts' = DOMAIN attempts
        /\ attempts'[op] = [actor |-> attempts[op].actor, share |-> attempts[op].share,
                            hash |-> attempts[op].hash, status |-> "succeeded"]
        /\ \A o \in DOMAIN attempts \ {op} : attempts'[o] = attempts[o]
    BY <2>1, <1>1, StatusKeeps
  <2>3. /\ attempts'[op].actor = attempts[op].actor
        /\ attempts'[op].share = attempts[op].share
        /\ attempts'[op].hash = job.hash
        /\ attempts'[op].status = "succeeded"
    BY <2>2, <1>1
  <2>4. HasTermsOf(attempts'[op].hash, attempts'[op])
    BY <2>3, <1>2 DEF HasTermsOf
  <2>5. op \in ActiveAttempts
    BY <1>1, <1>4 DEF ActiveAttempts, Terminal
  <2>6. Advances(op)
    BY <2>1, <2>2, <2>3, <2>4, <2>5, <1>1, <1>2 DEF Advances
  <2>7. QED
    BY <2>2, <2>6, <1>1 DEF RowsStep
<1>5. QED
  BY <1>3, <1>4

\* Whatever a request does to the rows.
LEMMA RouteStepsRows ==
    ASSUME SettlementInv, NEW job \in jobs, RouteStep(job)
    PROVE  RowsStep
<1>1. Mutation(job)
  BY RouteIsMutation
<1>2. CASE UNCHANGED <<dispute, mirror, attempts>>
  BY <1>2 DEF RowsStep, SettlementInv, Types, RowTypes
<1>3. QED
  BY <1>1, <1>2, StartedStep, SignedStep, FailedStep, DoubtedStep, AdoptedStep,
     SucceededStep DEF Mutation

LEMMA RowsLast ==
    ASSUME RowsStep
    PROVE  AttemptsLast
BY DEF RowsStep, Opens, Advances, AttemptsLast, ActiveAttempts

-----------------------------------------------------------------------------
(* What a step does to the ledger and the tabs. *)

LedgerLasts ==
    /\ \A h \in Hash : tx[h] # "unsigned" => tx'[h] # "unsigned" /\ terms'[h] = terms[h]
    /\ \A h \in Hash : tx[h] \in Dead \cup {"succeeded"} => tx'[h] = tx[h]
    /\ forgotten \subseteq forgotten'
    /\ \A op \in Ops : tab[op] # "idle" => tab'[op] # "idle"

\* Only a tab that submits makes a signed transaction reach the ledger.
OnlySubmitted ==
    \A op \in Ops : tx'[op] \in {"pending", "succeeded", "failed"} =>
        tx[op] \in {"pending", "succeeded", "failed"} \/ tab[op] = "submitting"

LedgerStep ==
    /\ LedgerTypes'
    /\ LedgerOK'
    /\ TabOK'
    /\ LedgerLasts
    /\ OnlySubmitted

LEMMA Named == Ops \subseteq Hash /\ External \in Hash /\ External \notin Ops
BY SettlementConstants DEF Hash

LEMMA ResolveStep ==
    ASSUME SettlementInv, NEW op \in Ops, NEW w \in Admin, NEW share \in Shares,
           Resolve(op, w, share)
    PROVE  LedgerStep
<1>1. /\ LedgerTypes /\ LedgerOK /\ TabOK
      /\ tab[op] = "idle" /\ tx[op] = "unsigned"
      /\ terms' = [terms EXCEPT ![op] = [actor |-> w, share |-> share]]
      /\ tab' = [tab EXCEPT ![op] = "starting"]
      /\ UNCHANGED <<attempts, chain, chainAdmins, tx, forgotten>>
  BY DEF SettlementInv, Types, TabOK, Resolve, convexVars, chainVars
<1>2. [actor |-> w, share |-> share] \in [actor: Admin, share: Shares]
  OBVIOUS
<1>3. LedgerTypes'
  BY <1>1, <1>2, Named DEF LedgerTypes
<1>4. LedgerLasts /\ OnlySubmitted
  BY <1>1, Named DEF LedgerLasts, OnlySubmitted, LedgerTypes
<1>5. LedgerOK'
  BY <1>1, Named DEF LedgerOK, LedgerTypes
<1>6. TabOK'
  BY <1>1, <1>2, Named DEF TabOK, LedgerTypes
<1>7. QED
  BY <1>3, <1>4, <1>5, <1>6 DEF LedgerStep

LEMMA SignStep ==
    ASSUME SettlementInv, NEW op \in Ops, Sign(op)
    PROVE  LedgerStep
<1>1. /\ LedgerTypes /\ LedgerOK /\ TabOK
      /\ tab[op] = "signing" /\ tx[op] = "unsigned"
      /\ terms[op] \in [actor: Admin, share: Shares]
      /\ tx' = [tx EXCEPT ![op] = "signed"]
      /\ tab' = [tab EXCEPT ![op] = "recording"]
      /\ UNCHANGED <<attempts, chain, chainAdmins, forgotten, terms>>
  BY DEF SettlementInv, Types, TabOK, Sign, convexVars
<1>2. LedgerTypes'
  BY <1>1, Named DEF LedgerTypes
<1>3. LedgerLasts /\ OnlySubmitted
  BY <1>1, Named DEF LedgerLasts, OnlySubmitted, LedgerTypes, Dead
<1>4. LedgerOK'
  BY <1>1, Named DEF LedgerOK, LedgerTypes
<1>5. TabOK'
  BY <1>1, Named DEF TabOK, LedgerTypes
<1>6. QED
  BY <1>2, <1>3, <1>4, <1>5 DEF LedgerStep

\* The tab gives up.
LEMMA OverStep ==
    ASSUME SettlementInv, NEW op \in Ops,
           tab[op] # "idle", tab' = [tab EXCEPT ![op] = "over"],
           UNCHANGED <<attempts, chain, chainAdmins, tx, forgotten, terms>>
    PROVE  LedgerStep
<1>1. LedgerTypes /\ LedgerOK /\ TabOK
  BY DEF SettlementInv, Types
<1>2. LedgerTypes'
  BY <1>1 DEF LedgerTypes
<1>3. LedgerLasts /\ OnlySubmitted
  BY <1>1 DEF LedgerLasts, OnlySubmitted, LedgerTypes
<1>4. LedgerOK'
  BY <1>1 DEF LedgerOK
<1>5. TabOK'
  BY <1>1 DEF TabOK, LedgerTypes
<1>6. QED
  BY <1>2, <1>3, <1>4, <1>5 DEF LedgerStep

LEMMA SubmitStep ==
    ASSUME SettlementInv, NEW op \in Ops, Submit(op)
    PROVE  LedgerStep
<1>1. /\ LedgerTypes /\ LedgerOK /\ TabOK
      /\ tab[op] = "submitting"
      /\ tx' = [tx EXCEPT ![op] = IF tx[op] = "signed" THEN "pending" ELSE tx[op]]
      /\ tab' = [tab EXCEPT ![op] = "over"]
      /\ UNCHANGED <<attempts, chain, chainAdmins, forgotten, terms>>
  BY DEF SettlementInv, Types, Submit, convexVars
<1>2. LedgerTypes'
  BY <1>1, Named DEF LedgerTypes
<1>3. LedgerLasts /\ OnlySubmitted
  BY <1>1, Named DEF LedgerLasts, OnlySubmitted, LedgerTypes, Dead
<1>4. LedgerOK'
  BY <1>1, Named DEF LedgerOK, LedgerTypes
<1>5. TabOK'
  BY <1>1, Named DEF TabOK, LedgerTypes
<1>6. QED
  BY <1>2, <1>3, <1>4, <1>5 DEF LedgerStep

LEMMA ExpireStep ==
    ASSUME SettlementInv, NEW op \in Ops, Expire(op)
    PROVE  LedgerStep
<1>1. /\ LedgerTypes /\ LedgerOK /\ TabOK
      /\ tx[op] \in {"signed", "pending"}
      /\ tx' = [tx EXCEPT ![op] = "expired"]
      /\ UNCHANGED <<attempts, chain, chainAdmins, forgotten, terms, tab>>
  BY DEF SettlementInv, Types, Expire, convexVars, tabVars
<1>2. LedgerTypes'
  BY <1>1, Named DEF LedgerTypes
<1>3. LedgerLasts /\ OnlySubmitted
  BY <1>1, Named DEF LedgerLasts, OnlySubmitted, LedgerTypes, Dead
<1>4. LedgerOK'
  BY <1>1, Named DEF LedgerOK, LedgerTypes
<1>5. TabOK'
  BY <1>1, Named DEF TabOK, LedgerTypes
<1>6. QED
  BY <1>2, <1>3, <1>4, <1>5 DEF LedgerStep

LEMMA ForgetStep ==
    ASSUME SettlementInv, NEW h \in Hash, Forget(h)
    PROVE  LedgerStep
<1>1. /\ LedgerTypes /\ LedgerOK /\ TabOK
      /\ tx[h] \in {"succeeded", "failed"}
      /\ forgotten' = forgotten \cup {h}
      /\ UNCHANGED <<attempts, chain, chainAdmins, tx, terms, tab>>
  BY DEF SettlementInv, Types, Forget, convexVars, tabVars
<1>2. LedgerTypes' /\ LedgerLasts /\ OnlySubmitted
  BY <1>1 DEF LedgerTypes, LedgerLasts, OnlySubmitted
<1>3. LedgerOK' /\ TabOK'
  BY <1>1 DEF LedgerOK, TabOK
<1>4. QED
  BY <1>2, <1>3 DEF LedgerStep

\* The escrow is settled by the transaction h, which names a share.
LEMMA SettledNow ==
    ASSUME LedgerTypes, LedgerOK, NEW h \in Hash, chain.status = "disputed",
           h = External \/ tx[h] # "unsigned",
           tx' = [tx EXCEPT ![h] = "succeeded"],
           terms'[h] \in [actor: Admin, share: Shares],
           \A g \in Hash \ {h} : terms'[g] = terms[g],
           SettleOnChain(h), UNCHANGED forgotten
    PROVE  /\ chain' \in [status: {"disputed", "released", "cancelled"},
                          share: Shares \cup {None}, hash: Hash \cup {None}]
           /\ LedgerOK'
<1>1. /\ chain'.status = SettledStatus(terms'[h].share)
      /\ chain'.share = terms'[h].share
      /\ chain'.hash = h
      /\ chain' \in [status: {"disputed", "released", "cancelled"},
                     share: Shares \cup {None}, hash: Hash \cup {None}]
      /\ chain'.status # "disputed"
  BY DEF SettleOnChain, SettledStatus
<1>2. \A g \in Hash : tx[g] # "succeeded"
  BY AdminIsNotNone DEF LedgerOK
<1>3. /\ tx'[h] = "succeeded"
      /\ \A g \in Hash \ {h} : tx'[g] = tx[g]
  BY DEF LedgerTypes
<1>4. /\ tx'[External] \in {"unsigned", "succeeded"}
      /\ \A g \in Hash : tx'[g] # "unsigned" => terms'[g] \in [actor: Admin, share: Shares]
      /\ \A g \in Hash : tx'[g] = "succeeded" => chain'.hash = g
      /\ \A g \in forgotten' : tx'[g] \in {"succeeded", "failed"}
  BY <1>1, <1>2, <1>3, Named DEF LedgerOK, LedgerTypes
<1>5. QED
  BY <1>1, <1>3, <1>4 DEF LedgerOK

LEMMA ApplyStep ==
    ASSUME SettlementInv, NEW op \in Ops, Apply(op)
    PROVE  LedgerStep
<1>1. /\ LedgerTypes /\ LedgerOK /\ TabOK
      /\ tx[op] = "pending"
      /\ terms[op] \in [actor: Admin, share: Shares]
      /\ UNCHANGED <<attempts, chainAdmins, forgotten, terms, tab>>
      /\ op \in Hash /\ op # External
  BY Named DEF SettlementInv, Types, LedgerOK, Apply, convexVars
<1>2. /\ \/ tx' = [tx EXCEPT ![op] = "succeeded"]
         \/ tx' = [tx EXCEPT ![op] = "failed"]
  BY DEF Apply
<1>3. LedgerLasts /\ OnlySubmitted /\ TabOK'
  <2>1. /\ tx'[op] \in {"succeeded", "failed"}
        /\ \A h \in Hash \ {op} : tx'[h] = tx[h]
    BY <1>1, <1>2 DEF LedgerTypes
  <2>2. LedgerLasts /\ OnlySubmitted
    BY <2>1, <1>1, Named DEF LedgerLasts, OnlySubmitted, Dead
  <2>3. TabOK'
    BY <2>1, <1>1, Named DEF TabOK
  <2>4. QED
    BY <2>2, <2>3
<1>4. CASE SettleOnChain(op) /\ chain.status = "disputed" /\ tx' = [tx EXCEPT ![op] = "succeeded"]
  <2>1. /\ chain' \in [status: {"disputed", "released", "cancelled"},
                       share: Shares \cup {None}, hash: Hash \cup {None}]
        /\ LedgerOK'
    BY <1>1, <1>4, SettledNow
  <2>2. LedgerTypes'
    BY <1>1, <1>4, <2>1 DEF LedgerTypes
  <2>3. QED
    BY <2>1, <2>2, <1>3 DEF LedgerStep
<1>5. CASE UNCHANGED chain /\ tx' = [tx EXCEPT ![op] = "failed"]
  <2>1. LedgerTypes'
    BY <1>1, <1>5 DEF LedgerTypes
  <2>2. LedgerOK'
    BY <1>1, <1>5 DEF LedgerOK, LedgerTypes
  <2>3. QED
    BY <2>1, <2>2, <1>3 DEF LedgerStep
<1>6. QED
  BY <1>4, <1>5 DEF Apply

LEMMA ElsewhereStep ==
    ASSUME SettlementInv, NEW w \in Admin, NEW share \in Shares,
           ResolveElsewhere(w, share)
    PROVE  LedgerStep
<1>1. /\ LedgerTypes /\ LedgerOK /\ TabOK
      /\ chain.status = "disputed"
      /\ terms' = [terms EXCEPT ![External] = [actor |-> w, share |-> share]]
      /\ tx' = [tx EXCEPT ![External] = "succeeded"]
      /\ SettleOnChain(External)
      /\ UNCHANGED <<attempts, chainAdmins, forgotten, tab>>
  BY DEF SettlementInv, Types, ResolveElsewhere, convexVars
<1>2. [actor |-> w, share |-> share] \in [actor: Admin, share: Shares]
  OBVIOUS
<1>3. tx[External] = "unsigned"
  BY <1>1, Named, AdminIsNotNone DEF LedgerOK
<1>4. /\ terms'[External] \in [actor: Admin, share: Shares]
      /\ \A g \in Hash \ {External} : terms'[g] = terms[g]
  BY <1>1, <1>2, Named DEF LedgerTypes
<1>5. /\ chain' \in [status: {"disputed", "released", "cancelled"},
                     share: Shares \cup {None}, hash: Hash \cup {None}]
      /\ LedgerOK'
  BY <1>1, <1>4, Named, SettledNow
<1>6. LedgerTypes'
  BY <1>1, <1>2, <1>5, Named DEF LedgerTypes
<1>7. LedgerLasts /\ OnlySubmitted /\ TabOK'
  BY <1>1, <1>3, <1>4, Named DEF LedgerLasts, OnlySubmitted, LedgerTypes, Dead, TabOK
<1>8. QED
  BY <1>5, <1>6, <1>7 DEF LedgerStep

\* What the answer to a request does to the tab that waits for it.
Answers ==
    \/ UNCHANGED tab
    \/ \E op \in Ops : tab[op] # "idle" /\ tab' = [tab EXCEPT ![op] = "over"]
    \/ \E op \in Ops : tab[op] = "starting" /\ tab' = [tab EXCEPT ![op] = "signing"]
    \/ \E op \in Ops :
           /\ tab[op] = "recording"
           /\ tab' = [tab EXCEPT ![op] = "submitting"]
           /\ op \in DOMAIN attempts' /\ attempts'[op].hash = op

LEMMA RouteAnswers ==
    ASSUME SettlementInv, NEW job \in jobs, RouteStep(job)
    PROVE  Answers
<1> USE DEF tabVars, Answers
<1>1. /\ job.phase = "started" => job.op \in Ops
      /\ job.phase = "signed" => job.op \in Ops /\ job.hash = job.op
      /\ RowTypes /\ LedgerTypes /\ RequestOK(job)
  BY DEF SettlementInv, Types, RequestsOK, RequestOK, StartedOK, SignedOK
<1>r. ASSUME Refuse(job) PROVE Answers
  <2>1. CASE job.phase \in {"started", "signed"}
    <3>1. Waits(job) # "idle" /\ Reply(job, Waits(job), "over")
      BY <2>1, <1>r DEF Waits, Refuse
    <3>2. QED
      BY <3>1, <2>1, <1>1 DEF Reply
  <2>2. CASE job.phase \notin {"started", "signed"}
    BY <2>2, <1>r DEF Refuse
  <2>3. QED
    BY <2>1, <2>2
<1>p. ASSUME NEW step, Proceed(job, step) PROVE Answers
  BY <1>p DEF Proceed
<1>2. CASE Preflight(job)
  BY <1>2, <1>r, <1>p DEF Preflight
<1>3. CASE CheckDisputed(job)
  BY <1>3, <1>r, <1>p DEF CheckDisputed
<1>4. CASE RouteStarted(job)
  BY <1>4, <1>r, <1>1 DEF RouteStarted, Reply, At
<1>5. CASE RouteSigned(job)
  <2>1. SUFFICES ASSUME SignedAccepted(job), RecordSigned(job),
                        Reply(job, "recording", "submitting"),
                        job.phase = "signed"
                 PROVE  Answers
    BY <1>5, <1>r DEF RouteSigned, At
  <2>2. job.op \in DOMAIN attempts' /\ attempts'[job.op].hash = job.op
    BY <2>1, <1>1 DEF SignedAccepted, RecordSigned, RowTypes, Attempt
  <2>3. QED
    BY <2>1, <2>2, <1>1 DEF Reply
<1>6. CASE RouteFailed(job)
  BY <1>6, <1>r DEF RouteFailed
<1>7. CASE ReadAttempt(job)
  BY <1>7, <1>r, <1>p DEF ReadAttempt
<1>8. CASE Verify(job)
  <2>1. \E step : Proceed(job, step) \/ Refuse(job)
    BY <1>8 DEF Verify
  <2>2. QED
    BY <2>1, <1>r, <1>p
<1>9. CASE RouteUnknown(job)
  BY <1>9, <1>r DEF RouteUnknown
<1>10. CASE CheckEscrow(job)
  <2>1. \E step : Proceed(job, step) \/ Refuse(job)
    BY <1>10 DEF CheckEscrow
  <2>2. QED
    BY <2>1, <1>r, <1>p
<1>11. CASE Search(job)
  BY <1>11, <1>r DEF Search
<1>12. CASE RouteAdopt(job)
  BY <1>12, <1>r DEF RouteAdopt
<1>13. CASE RouteSucceeded(job)
  BY <1>13, <1>r DEF RouteSucceeded
<1>14. QED
  BY <1>2, <1>3, <1>4, <1>5, <1>6, <1>7, <1>8, <1>9, <1>10, <1>11, <1>12,
     <1>13 DEF RouteStep

LEMMA RouteLedgerStep ==
    ASSUME SettlementInv, NEW job \in jobs, RouteStep(job)
    PROVE  LedgerStep
<1>1. /\ LedgerTypes /\ LedgerOK /\ TabOK
      /\ UNCHANGED <<chain, chainAdmins, tx, forgotten, terms>>
      /\ AttemptsLast /\ Answers
  BY RouteIsMutation, RouteStepsRows, RowsLast, RouteAnswers
     DEF SettlementInv, Types, chainVars
<1>2. LedgerTypes'
  BY <1>1 DEF LedgerTypes, Answers
<1>3. LedgerLasts /\ OnlySubmitted
  BY <1>1 DEF LedgerLasts, OnlySubmitted, LedgerTypes, Answers
<1>4. LedgerOK'
  BY <1>1 DEF LedgerOK
<1>5. TabOK'
  <2>1. SUFFICES ASSUME NEW op \in Ops
                 PROVE  /\ tab'[op] # "idle" => terms[op] \in [actor: Admin, share: Shares]
                        /\ tab'[op] \in {"idle", "starting", "signing"} => tx[op] = "unsigned"
                        /\ tab'[op] = "recording" => tx[op] # "unsigned"
                        /\ tab'[op] = "submitting" => op \in DOMAIN attempts' /\ attempts'[op].hash = op
    BY <1>1 DEF TabOK
  <2>2. /\ tab[op] # "idle" => terms[op] \in [actor: Admin, share: Shares]
        /\ tab[op] \in {"idle", "starting", "signing"} => tx[op] = "unsigned"
        /\ tab[op] = "recording" => tx[op] # "unsigned"
        /\ tab[op] = "submitting" => op \in DOMAIN attempts' /\ attempts'[op].hash = op
    BY <1>1, Named, AdminIsNotNone DEF TabOK, AttemptsLast
  <2>3. QED
    BY <2>2, <1>1 DEF Answers, LedgerTypes
<1>6. QED
  BY <1>2, <1>3, <1>4, <1>5 DEF LedgerStep

\* Every step keeps the ledger and the tabs right.
LEMMA LedgerSteps ==
    ASSUME SettlementInv, [Next]_vars
    PROVE  LedgerStep
<1> USE DEF convexVars, chainVars, tabVars
<1>1. LedgerTypes /\ LedgerOK /\ TabOK
  BY DEF SettlementInv, Types
<1>k. ASSUME UNCHANGED <<attempts, chain, tx, forgotten, terms, tab>>,
             chainAdmins' \subseteq Admin
      PROVE  LedgerStep
  <2>1. LedgerTypes' /\ LedgerLasts /\ OnlySubmitted
    BY <1>k, <1>1 DEF LedgerTypes, LedgerLasts, OnlySubmitted
  <2>2. LedgerOK' /\ TabOK'
    BY <1>k, <1>1 DEF LedgerOK, TabOK
  <2>3. QED
    BY <2>1, <2>2 DEF LedgerStep
<1>2. chainAdmins \subseteq Admin
  BY <1>1 DEF LedgerTypes
<1>3. ASSUME NEW w \in Admin,
             \/ ClaimDispute(w) \/ AssignDispute(w) \/ RevokeMembership(w)
             \/ RevokeOnChain(w) \/ RequestReconcileExternal(w)
             \/ \E op \in OperationId : RequestReconcile(w, op)
      PROVE  LedgerStep
  BY <1>3, <1>2, <1>k DEF ClaimDispute, AssignDispute, RevokeMembership,
              RevokeOnChain, RequestReconcileExternal, RequestReconcile
<1>4. CASE AssignDispute(None) \/ \E status \in DisputeStatus : ChangeDisputeStatus(status)
  BY <1>4, <1>2, <1>k DEF AssignDispute, ChangeDisputeStatus
<1>5. ASSUME NEW op \in Ops, ReportFailure(op) \/ Abandon(op)
      PROVE  LedgerStep
  BY <1>5, OverStep DEF ReportFailure, Abandon
<1>6. CASE UNCHANGED vars
  BY <1>6, <1>2, <1>k DEF vars
<1>8. CASE \/ \E status \in Unrecorded : RecordLate(status)
           \/ \E reading \in Readings : Sync(reading)
  BY <1>8, <1>2, <1>k DEF RecordLate, Sync
<1>7. QED
  BY <1>3, <1>4, <1>5, <1>6, <1>8, ResolveStep, SignStep, SubmitStep, ExpireStep,
     ForgetStep, ApplyStep, ElsewhereStep, RouteLedgerStep DEF Next

-----------------------------------------------------------------------------
(* What a step does to the rows. *)

\* The escrow row, where no request writes it: it is left alone, a recording
\* from before the dispute comes in, or a sync advances what is not final.
MirrorStep ==
    /\ mirror' \in MirrorRow /\ mirror'.hash = mirror.hash
    /\ unrecorded' \subseteq unrecorded
    /\ mirror'.status \in Settled => mirror'.status \in {mirror.status, chain.status}
    /\ \/ mirror'.status \in {mirror.status, "disputed"}
       \/ mirror.status \in {"funded", "submitted"}
       \/ IsOverwritten'

\* The case changes hands, a party moves it, or the row is written.
CaseStep ==
    /\ MirrorStep
    /\ UNCHANGED attempts
    /\ dispute' \in [status: DisputeStatus, assigned: Admin \cup {None},
                     share: Shares \cup {None}, hash: Hash \cup {None}]
    /\ dispute'.share = dispute.share /\ dispute'.hash = dispute.hash
    /\ dispute'.status = dispute.status \/ dispute'.status \notin Resolutions
    /\ dispute'.assigned = dispute.assigned \/ ActiveAttempts = {}

LEMMA UnassignedIsIdle ==
    ASSUME RowTypes, OneActive, dispute.assigned = None
    PROVE  ActiveAttempts = {}
BY AdminIsNotNone DEF RowTypes, OneActive, ActiveAttempts, Attempt

LEMMA RowSteps ==
    ASSUME SettlementInv, [Next]_vars
    PROVE  /\ \/ RowsStep /\ UNCHANGED unrecorded
              \/ CaseStep
           /\ members' \subseteq OtherAdmin
<1> USE DEF convexVars, chainVars, tabVars
<1>1. RowTypes /\ OneActive
  BY DEF SettlementInv, Types
<1>m. UNCHANGED <<mirror, unrecorded>> => MirrorStep
  BY <1>1 DEF MirrorStep, RowTypes
<1>k. ASSUME UNCHANGED <<dispute, mirror, unrecorded, attempts, members>>
      PROVE  CaseStep /\ members' \subseteq OtherAdmin
  BY <1>k, <1>m, <1>1 DEF CaseStep, RowTypes
<1>2. ASSUME NEW w \in Admin, ClaimDispute(w)
      PROVE  CaseStep /\ members' \subseteq OtherAdmin
  <2>1. ActiveAttempts = {}
    BY <1>1, <1>2, UnassignedIsIdle DEF ClaimDispute
  <2>2. QED
    BY <2>1, <1>m, <1>1, <1>2 DEF ClaimDispute, CaseStep, RowTypes
<1>3. ASSUME NEW w \in Admin \cup {None}, AssignDispute(w)
      PROVE  CaseStep /\ members' \subseteq OtherAdmin
  BY <1>m, <1>1, <1>3 DEF AssignDispute, CaseStep, RowTypes
<1>4. ASSUME NEW status \in DisputeStatus, ChangeDisputeStatus(status)
      PROVE  CaseStep /\ members' \subseteq OtherAdmin
  BY <1>m, <1>1, <1>4 DEF ChangeDisputeStatus, CaseStep, RowTypes, Resolutions
<1>5. ASSUME NEW w \in Admin, RevokeMembership(w)
      PROVE  CaseStep /\ members' \subseteq OtherAdmin
  BY <1>m, <1>1, <1>5 DEF RevokeMembership, CaseStep, RowTypes
<1>6. ASSUME NEW w \in Admin,
             \/ RevokeOnChain(w) \/ RequestReconcileExternal(w)
             \/ \E op \in OperationId : RequestReconcile(w, op)
      PROVE  CaseStep /\ members' \subseteq OtherAdmin
  BY <1>6, <1>k DEF RevokeOnChain, RequestReconcileExternal, RequestReconcile
<1>7. ASSUME NEW w \in Admin, NEW share \in Shares,
             ResolveElsewhere(w, share) \/ \E op \in Ops : Resolve(op, w, share)
      PROVE  CaseStep /\ members' \subseteq OtherAdmin
  BY <1>7, <1>k DEF ResolveElsewhere, Resolve
<1>8. ASSUME NEW op \in Ops,
             \/ Sign(op) \/ ReportFailure(op) \/ Submit(op) \/ Abandon(op)
             \/ Apply(op) \/ Expire(op)
      PROVE  CaseStep /\ members' \subseteq OtherAdmin
  BY <1>8, <1>k DEF Sign, ReportFailure, Submit, Abandon, Apply, Expire
<1>9. ASSUME NEW h \in Hash, Forget(h)
      PROVE  CaseStep /\ members' \subseteq OtherAdmin
  BY <1>9, <1>k DEF Forget
<1>10. ASSUME NEW job \in jobs, RouteStep(job)
       PROVE  RowsStep /\ UNCHANGED unrecorded /\ members' \subseteq OtherAdmin
  BY <1>10, <1>1, RouteStepsRows, RouteIsMutation DEF RowTypes
<1>11. CASE UNCHANGED vars
  BY <1>11, <1>k DEF vars
<1>12. ASSUME NEW status \in Unrecorded, RecordLate(status)
       PROVE  CaseStep /\ members' \subseteq OtherAdmin
  <2>1. status \in {"funded", "submitted", "disputed"}
    BY SettlementConstants
  <2>2. /\ mirror'.status = status /\ mirror'.hash = mirror.hash
        /\ mirror' \in MirrorRow /\ unrecorded' \subseteq unrecorded
    BY <2>1, <1>1, <1>12 DEF RecordLate, RowTypes, MirrorRow
  <2>3. status # "disputed" => IsOverwritten'
    BY <1>12 DEF RecordLate, IsOverwritten
  <2>4. MirrorStep
    BY <2>1, <2>2, <2>3 DEF MirrorStep, Settled
  <2> QED BY <2>4, <1>1, <1>12 DEF RecordLate, CaseStep, RowTypes
<1>13. ASSUME NEW reading \in Readings, Sync(reading)
       PROVE  CaseStep /\ members' \subseteq OtherAdmin
  <2>1. reading \in {"submitted", "disputed", "released", "cancelled"}
    BY DEF Readings, SettlementInv, Types, LedgerTypes
  <2>2. /\ mirror'.status = reading /\ mirror'.hash = mirror.hash
        /\ mirror' \in MirrorRow /\ UNCHANGED unrecorded
        /\ mirror.status \in {"funded", "submitted"}
    BY <2>1, <1>1, <1>13 DEF Sync, RowTypes, MirrorRow
  <2>3. reading \in Settled => reading = chain.status
    BY <1>13 DEF Settled, Readings
  <2>4. MirrorStep
    BY <2>2, <2>3 DEF MirrorStep
  <2> QED BY <2>4, <1>1, <1>13 DEF Sync, CaseStep, RowTypes
<1>14. QED
  BY <1>2, <1>3, <1>4, <1>5, <1>6, <1>7, <1>8, <1>9, <1>10, <1>11,
     <1>12, <1>13 DEF Next

LEMMA AttemptsStay ==
    ASSUME RowsStep \/ CaseStep
    PROVE  AttemptsLast
BY RowsLast DEF CaseStep, AttemptsLast

LEMMA RowTypesStep ==
    ASSUME SettlementInv, [Next]_vars
    PROVE  RowTypes'
<1>1. RowTypes /\ ((RowsStep /\ UNCHANGED unrecorded) \/ CaseStep)
  BY RowSteps DEF SettlementInv, Types
<1>2. members' \subseteq OtherAdmin
  BY RowSteps
<1>3. CASE CaseStep
  BY <1>1, <1>2, <1>3 DEF CaseStep, MirrorStep, RowTypes
<1>4. CASE RowsStep /\ UNCHANGED <<dispute, mirror, unrecorded>>
  BY <1>1, <1>2, <1>4 DEF RowsStep, RowTypes, Opens, Advances
<1>5. ASSUME NEW op \in DOMAIN attempts, RowsStep, Advances(op),
             ~UNCHANGED <<dispute, mirror>>, UNCHANGED unrecorded
      PROVE  RowTypes'
  <2>1. attempts'[op] \in Attempt /\ DOMAIN attempts' = DOMAIN attempts
    BY <1>5 DEF RowsStep, Advances
  <2> DEFINE s == attempts'[op].share
             h == attempts'[op].hash
  <2>2. s \in Shares /\ h \in Hash
    BY <2>1, <1>5 DEF Attempt, Advances
  <2>3. /\ dispute' = [dispute EXCEPT !.status = ResolutionOf(s), !.share = s, !.hash = h]
        /\ mirror' = [status |-> SettledStatus(s), hash |-> h]
    BY <1>5 DEF Advances
  <2>4. ResolutionOf(s) \in DisputeStatus /\ SettledStatus(s) \in {"released", "cancelled"}
    BY DEF ResolutionOf, SettledStatus, DisputeStatus, Resolutions
  <2> HIDE DEF s, h
  <2>5. QED
    BY <2>1, <2>2, <2>3, <2>4, <1>1, <1>2, <1>5 DEF RowsStep, RowTypes, MirrorRow
<1>6. QED
  BY <1>1, <1>3, <1>4, <1>5 DEF RowsStep, Opens

LEMMA AttemptsStep ==
    ASSUME SettlementInv, [Next]_vars
    PROVE  AttemptsOK'
<1>1. /\ RowTypes /\ RowTypes' /\ AttemptsOK
      /\ RowsStep \/ CaseStep
      /\ LedgerLasts
  BY RowTypesStep, RowSteps, LedgerSteps DEF SettlementInv, Types, LedgerStep
<1>2. ASSUME NEW o \in DOMAIN attempts, attempts'[o] = attempts[o]
      PROVE  /\ attempts'[o].status = "succeeded" => attempts'[o].hash # None
             /\ attempts'[o].hash # None => tx'[attempts'[o].hash] # "unsigned"
             /\ attempts'[o].status = "failed" /\ attempts'[o].hash # None =>
                    tx'[attempts'[o].hash] \in Dead
  <2>1. attempts[o].hash \in Hash \cup {None}
    BY <1>1 DEF RowTypes, Attempt
  <2>2. QED
    BY <2>1, <1>1, <1>2 DEF AttemptsOK, LedgerLasts
<1>3. CASE UNCHANGED attempts
  BY <1>3, <1>2 DEF AttemptsOK
<1>4. ASSUME NEW op, Opens(op)
      PROVE  AttemptsOK'
  <2>1. attempts'[op].hash \in Hash \cup {None}
    BY <1>1, <1>4 DEF RowTypes, Attempt, Opens
  <2>2. /\ attempts'[op].status # "succeeded" /\ attempts'[op].status # "failed"
        /\ attempts'[op].hash # None => tx'[attempts'[op].hash] # "unsigned"
    BY <2>1, <1>1, <1>4 DEF Opens, LedgerLasts
  <2>3. QED
    BY <2>2, <1>2, <1>4 DEF AttemptsOK, Opens
<1>5. ASSUME NEW op \in DOMAIN attempts, Advances(op)
      PROVE  AttemptsOK'
  <2>1. attempts'[op].hash \in Hash \cup {None}
    BY <1>1, <1>5 DEF RowTypes, Attempt, Advances
  <2>2. /\ attempts'[op].status = "succeeded" => attempts'[op].hash # None
        /\ attempts'[op].hash # None => tx'[attempts'[op].hash] # "unsigned"
        /\ attempts'[op].status = "failed" /\ attempts'[op].hash # None =>
               tx'[attempts'[op].hash] \in Dead
    BY <2>1, <1>1, <1>5, AdminIsNotNone DEF Advances, LedgerLasts
  <2>3. QED
    BY <2>2, <1>2, <1>5 DEF AttemptsOK, Advances
<1>6. QED
  BY <1>1, <1>3, <1>4, <1>5 DEF RowsStep, CaseStep

LEMMA OneActiveStep ==
    ASSUME SettlementInv, [Next]_vars
    PROVE  OneActive'
<1>1. /\ RowTypes /\ OneActive
      /\ RowsStep \/ CaseStep
  BY RowSteps DEF SettlementInv, Types
<1>2. CASE UNCHANGED <<dispute, attempts>> \/ CaseStep
  BY <1>1, <1>2 DEF OneActive, ActiveAttempts, CaseStep
<1>3. ASSUME NEW op, Opens(op)
      PROVE  OneActive'
  <2>1. ActiveAttempts' \subseteq {op}
    BY <1>3 DEF Opens, ActiveAttempts
  <2>2. QED
    BY <2>1, <1>3 DEF OneActive, Opens
<1>4. ASSUME NEW op \in DOMAIN attempts, Advances(op)
      PROVE  OneActive'
  <2>1. op \in ActiveAttempts /\ ActiveAttempts \subseteq {op}
    BY <1>1, <1>4 DEF Advances, OneActive
  <2>2. ActiveAttempts' \subseteq {op}
    BY <2>1, <1>4 DEF Advances, ActiveAttempts
  <2>3. attempts'[op].actor = dispute.assigned /\ dispute'.assigned = dispute.assigned
    BY <2>1, <1>1, <1>4 DEF Advances, OneActive, RowTypes
  <2>4. QED
    BY <2>2, <2>3 DEF OneActive
<1>5. QED
  BY <1>1, <1>2, <1>3, <1>4 DEF RowsStep

LEMMA UnrecordedStep ==
    ASSUME SettlementInv, [Next]_vars
    PROVE  NothingUnrecordedIsSubmitted'
<1>1. /\ TabOK /\ NothingUnrecordedIsSubmitted
      /\ AttemptsLast /\ OnlySubmitted
  BY RowSteps, AttemptsStay, LedgerSteps DEF SettlementInv, LedgerStep
<1>2. \A op \in Ops : op # None
  BY Named, AdminIsNotNone
<1>3. QED
  BY <1>1, <1>2 DEF TabOK, NothingUnrecordedIsSubmitted, AttemptsLast, OnlySubmitted

\* What the contract decided is final.
LEMMA SettledStays ==
    ASSUME SettlementInv, [Next]_vars, chain.hash # None
    PROVE  /\ chain'.hash = chain.hash
           /\ chain'.share = chain.share
           /\ chain'.status = chain.status
           /\ chain.hash \in Hash
           /\ terms'[chain.hash] = terms[chain.hash]
<1>1. /\ LedgerOK /\ LedgerOK' /\ LedgerLasts
  BY LedgerSteps DEF SettlementInv, LedgerStep
<1>2. chain.status # "disputed" /\ chain.hash \in Hash /\ tx[chain.hash] = "succeeded"
  BY <1>1 DEF LedgerOK
<1>3. tx'[chain.hash] = "succeeded" /\ terms'[chain.hash] = terms[chain.hash]
  BY <1>1, <1>2 DEF LedgerLasts
<1>4. chain'.hash = chain.hash
  BY <1>1, <1>2, <1>3 DEF LedgerOK
<1>5. chain'.status # "disputed"
  BY <1>1, <1>2, <1>4, AdminIsNotNone DEF LedgerOK
<1>6. QED
  BY <1>1, <1>2, <1>3, <1>4, <1>5 DEF LedgerOK

LEMMA RecordsStep ==
    ASSUME SettlementInv, [Next]_vars
    PROVE  RecordsFollowTheChain'
<1>1. /\ RowTypes /\ RowTypes' /\ LedgerOK /\ LedgerTypes /\ LedgerLasts
      /\ (RowsStep /\ UNCHANGED unrecorded) \/ CaseStep
      /\ AttemptsLast
  BY RowSteps, RowTypesStep, AttemptsStay, LedgerSteps
     DEF SettlementInv, Types, LedgerStep
<1>2. ASSUME NEW o \in DOMAIN attempts, attempts[o].status = "succeeded"
      PROVE  /\ attempts'[o] = attempts[o]
             /\ <<attempts[o].hash, attempts[o].share>> = <<chain'.hash, chain'.share>>
             /\ attempts[o].actor = terms'[chain'.hash].actor
             /\ chain.hash # None
  <2>1. /\ <<attempts[o].hash, attempts[o].share>> = <<chain.hash, chain.share>>
        /\ attempts[o].actor = terms[chain.hash].actor
        /\ chain.hash # None
    BY <1>2 DEF SettlementInv, RecordsFollowTheChain, AttemptsOK
  <2>2. attempts'[o] = attempts[o]
    BY <1>1, <1>2 DEF AttemptsLast, Terminal
  <2>3. QED
    BY <2>1, <2>2, SettledStays
<1>3. ASSUME mirror.hash # None
      PROVE  /\ mirror.hash = chain'.hash
             /\ <<dispute.share, dispute.hash>> = <<chain'.share, chain'.hash>>
             /\ \E op \in DOMAIN attempts' :
                    /\ attempts'[op].status = "succeeded"
                    /\ attempts'[op].hash = chain'.hash
             /\ chain'.share = chain.share
  <2>1. PICK op \in DOMAIN attempts :
            /\ attempts[op].status = "succeeded"
            /\ attempts[op].hash = chain.hash
    BY <1>3 DEF SettlementInv, RecordsFollowTheChain
  <2>2. chain.hash # None /\ attempts'[op] = attempts[op] /\ op \in DOMAIN attempts'
    BY <2>1, <1>1, <1>2 DEF AttemptsLast
  <2>3. /\ mirror.hash = chain.hash
        /\ <<dispute.share, dispute.hash>> = <<chain.share, chain.hash>>
    BY <1>3 DEF SettlementInv, RecordsFollowTheChain
  <2>4. QED
    BY <2>1, <2>2, <2>3, SettledStays
<1>4. dispute.status \in Resolutions =>
          mirror.hash # None /\ dispute.status = ResolutionOf(chain'.share)
  BY <1>3 DEF SettlementInv, RecordsFollowTheChain
<1>s. /\ mirror.status \in Settled => chain'.status = mirror.status
      /\ chain.status \in Settled => chain'.status = chain.status
  <2>1. chain.status \in Settled => chain.hash # None
    BY <1>1, AdminIsNotNone DEF LedgerOK, Settled
  <2>2. chain.status \in Settled => chain'.status = chain.status
    BY <2>1, SettledStays
  <2>3. mirror.status \in Settled => mirror.status = chain.status
    BY DEF SettlementInv, RecordsFollowTheChain
  <2> QED BY <2>2, <2>3
<1>m. MirrorStep => /\ mirror'.status \in Settled => mirror'.status = chain'.status
                    /\ mirror'.status # "disputed" => mirror'.hash # None \/ IsOverwritten'
  <2>1. mirror.status # "disputed" => mirror.hash # None \/ IsOverwritten
    BY DEF SettlementInv, RecordsFollowTheChain
  <2>2. MirrorStep /\ IsOverwritten => IsOverwritten'
    BY DEF MirrorStep, IsOverwritten
  <2>3. MirrorStep /\ mirror'.status \in Settled => mirror'.status = chain'.status
    BY <1>s DEF MirrorStep
  <2> QED BY <2>1, <2>2, <2>3 DEF MirrorStep
<1>5. ASSUME MirrorStep,
             dispute'.share = dispute.share, dispute'.hash = dispute.hash,
             dispute'.status = dispute.status \/ dispute'.status \notin Resolutions,
             \A o \in DOMAIN attempts' : attempts'[o].status = "succeeded" =>
                 o \in DOMAIN attempts /\ attempts[o].status = "succeeded"
      PROVE  RecordsFollowTheChain'
  <2>1. mirror'.hash = mirror.hash
    BY <1>5 DEF MirrorStep
  <2>2. \A o \in DOMAIN attempts : attempts[o].status = "succeeded" => mirror.hash # None
    BY DEF SettlementInv, RecordsFollowTheChain
  <2> QED BY <2>1, <2>2, <1>2, <1>3, <1>4, <1>5, <1>m DEF RecordsFollowTheChain
<1>u. UNCHANGED <<mirror, unrecorded>> => MirrorStep
  BY <1>1 DEF MirrorStep, RowTypes
<1>6. CASE UNCHANGED <<dispute, mirror, attempts, unrecorded>> \/ CaseStep
  BY <1>5, <1>6, <1>u DEF CaseStep
<1>7. ASSUME NEW op, Opens(op), UNCHANGED unrecorded
      PROVE  RecordsFollowTheChain'
  BY <1>5, <1>7, <1>u DEF Opens
<1>8. ASSUME NEW op \in DOMAIN attempts, Advances(op), UNCHANGED unrecorded,
             attempts'[op].status # "succeeded"
      PROVE  RecordsFollowTheChain'
  BY <1>5, <1>8, <1>u DEF Advances
<1>9. ASSUME NEW op \in DOMAIN attempts, Advances(op), attempts'[op].status = "succeeded"
      PROVE  RecordsFollowTheChain'
  <2> DEFINE s == attempts'[op].share
             h == attempts'[op].hash
  <2>1. /\ h \in Hash /\ tx[h] = "succeeded"
        /\ terms[h].actor = attempts'[op].actor /\ terms[h].share = s
        /\ dispute' = [dispute EXCEPT !.status = ResolutionOf(s), !.share = s, !.hash = h]
        /\ mirror' = [status |-> SettledStatus(s), hash |-> h]
        /\ op \in DOMAIN attempts'
    BY <1>9 DEF Advances, HasTermsOf
  <2>2. chain.hash = h /\ chain.hash # None
    BY <2>1, <1>1, AdminIsNotNone DEF LedgerOK
  <2>3. chain.share = s /\ chain.status = SettledStatus(s)
    BY <2>1, <2>2, <1>1 DEF LedgerOK
  <2>4. /\ chain'.hash = h /\ chain'.share = s /\ chain'.status = SettledStatus(s)
        /\ terms'[chain'.hash].actor = attempts'[op].actor
    BY <2>1, <2>2, <2>3, SettledStays
  <2>5. /\ dispute'.status = ResolutionOf(s) /\ dispute'.share = s /\ dispute'.hash = h
        /\ mirror'.status = SettledStatus(s) /\ mirror'.hash = h /\ h # None
    BY <2>1, <1>1, AdminIsNotNone DEF RowTypes
  <2>6. \A o \in DOMAIN attempts' \ {op} :
            o \in DOMAIN attempts /\ attempts'[o] = attempts[o]
    BY <1>9 DEF Advances
  <2>7. \A o \in DOMAIN attempts' : attempts'[o].status = "succeeded" =>
            /\ <<attempts'[o].hash, attempts'[o].share>> = <<chain'.hash, chain'.share>>
            /\ attempts'[o].actor = terms'[chain'.hash].actor
    BY <2>4, <2>6, <1>2
  <2> HIDE DEF s
  <2>8. QED
    BY <2>1, <2>4, <2>5, <2>7, <1>9 DEF RecordsFollowTheChain
<1>10. QED
  BY <1>1, <1>6, <1>7, <1>8, <1>9 DEF RowsStep

-----------------------------------------------------------------------------
(* What a request has seen stays true. *)

LEMMA RequestLasts ==
    ASSUME LedgerTypes, RowTypes, AttemptsLast, LedgerLasts, LedgerOK,
           NEW j \in RequestType, RequestOK(j)
    PROVE  RequestOK(j)'
<1>1. j.phase = "started" => StartedOK(j)'
  BY DEF RequestOK, StartedOK, LedgerLasts
<1>2. j.phase = "signed" => SignedOK(j)'
  BY Named DEF RequestOK, SignedOK, LedgerLasts
<1>3. j.phase = "failed" => FailedOK(j)'
  BY DEF RequestOK, FailedOK
<1>4. ASSUME NEW op \in DOMAIN attempts, NEW h \in Hash, tx[h] # "unsigned",
             HasTermsOf(h, attempts[op])
      PROVE  HasTermsOf(h, attempts[op])'
  BY <1>4 DEF HasTermsOf, AttemptsLast, LedgerLasts
<1>5. ASSUME j.phase = "reconcile" PROVE ReconcileOK(j)'
  <2>1. ReconcileOK(j) /\ j.op \in DOMAIN attempts /\ j.hash \in Hash \cup {None}
    BY <1>5 DEF RequestOK, ReconcileOK, RequestType
  <2>2. j.op \in DOMAIN attempts'
    BY <2>1 DEF AttemptsLast
  <2>3. j.step \notin {"read", "fail"} => j.hash \in Hash /\ attempts'[j.op].hash = j.hash
    BY <2>1, AdminIsNotNone DEF ReconcileOK, AttemptsLast
  <2>4. j.step = "check_disputed" => tx'[j.hash] \in Dead \/ j.hash \in forgotten'
    BY <2>1 DEF ReconcileOK, LedgerLasts
  <2>5. j.step = "fail" /\ j.hash # None => tx'[j.hash] \in Dead
    BY <2>1 DEF ReconcileOK, LedgerLasts
  <2>6. j.step \in {"check_settled", "succeed"} =>
            tx'[j.hash] = "succeeded" /\ HasTermsOf(j.hash, attempts[j.op])'
    BY <2>1, <1>4 DEF ReconcileOK, LedgerLasts
  <2>7. QED
    BY <2>1, <2>2, <2>3, <2>4, <2>5, <2>6 DEF ReconcileOK
<1>6. ASSUME j.phase = "reconcile_external" PROVE ExternalOK(j)'
  <2>1. ExternalOK(j)
    BY <1>6 DEF RequestOK
  <2>2. j.step \in {"check_settled", "adopt", "succeed"} =>
            /\ j.hash \in Hash
            /\ tx'[j.hash] = "succeeded"
            /\ terms'[j.hash].actor = j.actor
    BY <2>1 DEF ExternalOK, LedgerLasts
  <2>3. j.step = "succeed" =>
            /\ j.op \in DOMAIN attempts'
            /\ attempts'[j.op].hash = j.hash
            /\ HasTermsOf(j.hash, attempts[j.op])'
    BY <2>1, <1>4, AdminIsNotNone DEF ExternalOK, AttemptsLast
  <2>4. QED
    BY <2>1, <2>2, <2>3 DEF ExternalOK
<1>7. QED
  BY <1>1, <1>2, <1>3, <1>5, <1>6 DEF RequestOK

-----------------------------------------------------------------------------
(* What a step does to the requests in flight. *)

\* A request arrives, ends, or goes on to its next step.
RequestStep ==
    \/ UNCHANGED jobs
    \/ \E k \in RequestType : RequestOK(k)' /\ Post(k)
    \/ \E job \in jobs : Finish(job)
    \/ \E job \in jobs, k \in RequestType :
           /\ RequestOK(k)'
           /\ k.actor = job.actor
           /\ jobs' = (jobs \ {job}) \cup {k}

LEMMA StepOfRequest ==
    ASSUME NEW job \in RequestType, NEW step \in RouteSteps
    PROVE  LET k == [job EXCEPT !.step = step] IN
           /\ k \in RequestType
           /\ k.step = step
           /\ k.phase = job.phase /\ k.actor = job.actor
           /\ k.op = job.op /\ k.hash = job.hash
BY DEF RequestType

LEMMA HashOfRequest ==
    ASSUME NEW job \in RequestType, NEW h \in Hash
    PROVE  LET k == [job EXCEPT !.hash = h] IN
           /\ k \in RequestType
           /\ k.step = job.step
           /\ k.phase = job.phase /\ k.actor = job.actor
           /\ k.op = job.op /\ k.hash = h
BY DEF RequestType

LEMMA OperationOfRequest ==
    ASSUME NEW job \in RequestType, NEW op \in OperationId
    PROVE  LET k == [job EXCEPT !.op = op] IN
           /\ k \in RequestType
           /\ k.step = job.step
           /\ k.phase = job.phase /\ k.actor = job.actor
           /\ k.op = op /\ k.hash = job.hash
BY DEF RequestType

\* A request that goes on unchanged but for its step: what it must have seen.
LEMMA ProceedStep ==
    ASSUME NEW job \in jobs, job \in RequestType, NEW step \in RouteSteps,
           Proceed(job, step),
           RequestOK([job EXCEPT !.step = step])
    PROVE  RequestStep
<1> DEFINE k == [job EXCEPT !.step = step]
<1>1. UNCHANGED <<convexVars, chainVars, tabVars>> /\ jobs' = (jobs \ {job}) \cup {k}
  BY DEF Proceed, Continue
<1>2. k \in RequestType /\ k.actor = job.actor
  BY StepOfRequest
<1>3. RequestOK(k)'
  BY <1>1 DEF RequestOK, StartedOK, SignedOK, FailedOK, ReconcileOK, ExternalOK,
              HasTermsOf, convexVars, chainVars, tabVars
<1>4. QED
  BY <1>1, <1>2, <1>3 DEF RequestStep

LEMMA RouteRequests ==
    ASSUME SettlementInv, NEW job \in jobs, RouteStep(job)
    PROVE  RequestStep
<1> USE DEF At
<1>1. /\ job \in RequestType /\ RequestOK(job)
      /\ RowTypes /\ LedgerTypes /\ LedgerOK /\ AttemptsOK
  BY DEF SettlementInv, Types, RequestTypes, RequestsOK
<1>r. ASSUME Refuse(job) \/ Finish(job) PROVE RequestStep
  BY <1>r DEF Refuse, RequestStep
<1>p. ASSUME NEW s \in RouteSteps, Proceed(job, s),
             \A k \in RequestType :
                 /\ k.step = s /\ k.phase = job.phase /\ k.actor = job.actor
                 /\ k.op = job.op /\ k.hash = job.hash
                 => RequestOK(k)
      PROVE  RequestStep
  BY <1>p, <1>1, StepOfRequest, ProceedStep
<1>3. CASE Preflight(job)
  <2>1. CASE At(job, "started", "preflight") /\ Proceed(job, "escrow")
    BY <2>1, <1>1, <1>p DEF RequestOK, StartedOK, RouteSteps
  <2>2. CASE At(job, "reconcile_external", "preflight") /\ Proceed(job, "search")
    BY <2>2, <1>1, <1>p DEF RequestOK, ExternalOK, RouteSteps
  <2>3. QED
    BY <2>1, <2>2, <1>3, <1>r DEF Preflight
<1>4. CASE CheckDisputed(job)
  <2>1. CASE At(job, "started", "escrow") /\ Proceed(job, "record")
    BY <2>1, <1>1, <1>p DEF RequestOK, StartedOK, RouteSteps
  <2>2. QED
    BY <2>1, <1>4, <1>r DEF CheckDisputed
<1>5. CASE RouteStarted(job) \/ RouteSigned(job) \/ RouteFailed(job)
           \/ RouteUnknown(job) \/ RouteSucceeded(job)
  BY <1>5, <1>r DEF RouteStarted, RouteSigned, RouteFailed, RouteUnknown,
                    RouteSucceeded
<1>6. CASE ReadAttempt(job)
  <2>1. /\ job.phase = "reconcile" /\ job.step = "read" /\ job.hash = None
        /\ job.op \in DOMAIN attempts
    BY <1>6, <1>1 DEF ReadAttempt, RequestOK, ReconcileOK
  <2>2. CASE Proceed(job, "fail")
    BY <2>1, <2>2, <1>1, <1>p DEF RequestOK, ReconcileOK, RouteSteps
  <2>3. CASE /\ attempts[job.op].hash # None
             /\ jobs' = (jobs \ {job}) \cup
                     {[job EXCEPT !.step = "verify", !.hash = attempts[job.op].hash]}
             /\ UNCHANGED <<convexVars, chainVars, tabVars>>
    <3>1. PICK h \in Hash : h = attempts[job.op].hash
      BY <2>1, <2>3, <1>1 DEF RowTypes, Attempt
    <3> DEFINE b == [job EXCEPT !.step = "verify"]
               k == [b EXCEPT !.hash = h]
    <3>2. /\ k \in RequestType
          /\ k.step = "verify" /\ k.phase = "reconcile" /\ k.actor = job.actor
          /\ k.op = job.op /\ k.hash = h
      <4>1. /\ b \in RequestType
            /\ b.step = "verify" /\ b.phase = "reconcile" /\ b.actor = job.actor
            /\ b.op = job.op
        BY <2>1, <1>1, StepOfRequest DEF RouteSteps
      <4> HIDE DEF b
      <4>2. QED
        BY <4>1, <3>1, HashOfRequest
    <3> HIDE DEF k
    <3>3. UNCHANGED attempts
      BY <2>3 DEF convexVars
    <3>4. RequestOK(k)'
      BY <3>1, <3>2, <3>3, <2>1 DEF RequestOK, ReconcileOK
    <3>5. jobs' = (jobs \ {job}) \cup {k}
      <4>1. [job EXCEPT !.step = "verify", !.hash = attempts[job.op].hash] = k
        BY <3>1 DEF k
      <4>2. QED
        BY <4>1, <2>3
    <3>6. QED
      BY <3>2, <3>4, <3>5 DEF RequestStep
  <2>4. QED
    BY <2>2, <2>3, <1>6, <1>r DEF ReadAttempt
<1>7. CASE Verify(job)
  <2>1. /\ job.phase = "reconcile" /\ job.step = "verify"
        /\ job.op \in DOMAIN attempts /\ job.hash \in Hash
        /\ attempts[job.op].hash = job.hash
    BY <1>7, <1>1 DEF Verify, RequestOK, ReconcileOK
  <2>2. CASE Proceed(job, "unknown")
    BY <2>1, <2>2, <1>1, <1>p DEF RequestOK, ReconcileOK, RouteSteps
  <2>3. CASE Verdict(job.hash) \in {"expired", "failed"} /\ Proceed(job, "check_disputed")
    <3>1. tx[job.hash] \in Dead \/ job.hash \in forgotten
      BY <2>3 DEF Verdict, Dead
    <3>2. QED
      BY <3>1, <2>1, <2>3, <1>p DEF RequestOK, ReconcileOK, RouteSteps
  <2>4. CASE /\ Verdict(job.hash) = "succeeded"
             /\ HasTermsOf(job.hash, attempts[job.op])
             /\ Proceed(job, "check_settled")
    <3>1. tx[job.hash] = "succeeded"
      BY <2>4 DEF Verdict
    <3>2. \A k \in RequestType :
              /\ k.step = "check_settled" /\ k.phase = job.phase
              /\ k.op = job.op /\ k.hash = job.hash
              => RequestOK(k)
      BY <3>1, <2>1, <2>4 DEF RequestOK, ReconcileOK
    <3>3. QED
      BY <3>2, <2>4, <1>p DEF RouteSteps
  <2>5. QED
    BY <2>2, <2>3, <2>4, <1>7, <1>r DEF Verify
<1>8. CASE CheckEscrow(job)
  <2>1. CASE /\ job.phase = "reconcile" /\ job.step = "check_disputed"
             /\ chain.status = "disputed"
             /\ Proceed(job, "fail")
    <3>1. /\ job.op \in DOMAIN attempts /\ job.hash \in Hash
          /\ tx[job.hash] \in Dead \/ job.hash \in forgotten
      BY <2>1, <1>1 DEF RequestOK, ReconcileOK
    <3>2. tx[job.hash] \in Dead
      BY <3>1, <2>1, <1>1, AdminIsNotNone DEF LedgerOK, Dead
    <3>3. QED
      BY <3>1, <3>2, <2>1, <1>p DEF RequestOK, ReconcileOK, RouteSteps
  <2>2. CASE /\ job.step = "check_settled" /\ job.phase = "reconcile"
             /\ Proceed(job, "succeed")
    <3>1. /\ job.op \in DOMAIN attempts /\ job.hash \in Hash
          /\ attempts[job.op].hash = job.hash
          /\ tx[job.hash] = "succeeded"
          /\ HasTermsOf(job.hash, attempts[job.op])
      BY <2>2, <1>1 DEF RequestOK, ReconcileOK
    <3>2. \A k \in RequestType :
              /\ k.step = "succeed" /\ k.phase = job.phase
              /\ k.op = job.op /\ k.hash = job.hash
              => RequestOK(k)
      BY <3>1, <2>2 DEF RequestOK, ReconcileOK
    <3>3. QED
      BY <3>2, <2>2, <1>p DEF RouteSteps
  <2>3. CASE /\ job.step = "check_settled" /\ job.phase # "reconcile"
             /\ Proceed(job, "adopt")
    <3>1. job.phase = "reconcile_external" /\ ExternalOK(job)
      BY <2>3, <1>1 DEF RequestType, Phase, RequestOK, StartedOK, SignedOK, FailedOK
    <3>2. \A k \in RequestType :
              /\ k.step = "adopt" /\ k.phase = job.phase
              /\ k.actor = job.actor /\ k.hash = job.hash
              => RequestOK(k)
      BY <3>1, <2>3 DEF RequestOK, ExternalOK
    <3>3. QED
      BY <3>2, <2>3, <1>p DEF RouteSteps
  <2>4. QED
    BY <2>1, <2>2, <2>3, <1>8, <1>r DEF CheckEscrow
<1>9. CASE Search(job)
  <2>1. SUFFICES ASSUME NEW h \in Discovered(job.actor),
                        jobs' = (jobs \ {job}) \cup
                                {[job EXCEPT !.step = "check_settled", !.hash = h]},
                        UNCHANGED <<convexVars, chainVars, tabVars>>
                 PROVE  RequestStep
    BY <1>9, <1>r DEF Search
  <2>2. h \in Hash /\ tx[h] = "succeeded" /\ terms[h].actor = job.actor
    BY DEF Discovered
  <2> DEFINE b == [job EXCEPT !.step = "check_settled"]
             k == [b EXCEPT !.hash = h]
  <2>3. /\ k \in RequestType
        /\ k.step = "check_settled" /\ k.phase = "reconcile_external"
        /\ k.actor = job.actor /\ k.hash = h
    <3>1. /\ b \in RequestType
          /\ b.step = "check_settled" /\ b.phase = "reconcile_external"
          /\ b.actor = job.actor
      BY <1>1, <1>9, StepOfRequest DEF RouteSteps, Search
    <3> HIDE DEF b
    <3>2. QED
      BY <3>1, <2>2, HashOfRequest
  <2> HIDE DEF k
  <2>4. UNCHANGED <<tx, terms>>
    BY <2>1 DEF chainVars, tabVars
  <2>5. RequestOK(k)'
    BY <2>2, <2>3, <2>4 DEF RequestOK, ExternalOK
  <2>6. jobs' = (jobs \ {job}) \cup {k}
    <3>1. [job EXCEPT !.step = "check_settled", !.hash = h] = k
      BY DEF k
    <3>2. QED
      BY <3>1, <2>1
  <2>7. QED
    BY <2>3, <2>5, <2>6 DEF RequestStep
<1>10. CASE RouteAdopt(job)
  <2>o. PICK op : op = OwnerOf(job.hash)
    OBVIOUS
  <2>1. SUFFICES ASSUME AdoptAccepted(job), RecordAdopted(job),
                        jobs' = (jobs \ {job}) \cup
                                {[job EXCEPT !.step = "succeed", !.op = op]},
                        UNCHANGED <<dispute, mirror, members, chainVars, tabVars>>,
                        job.phase = "reconcile_external", job.step = "adopt"
                 PROVE  RequestStep
    BY <2>o, <1>10, <1>r DEF RouteAdopt
  <2>2. /\ job.hash \in Hash /\ tx[job.hash] = "succeeded"
        /\ terms[job.hash].actor = job.actor
        /\ terms[job.hash] \in [actor: Admin, share: Shares]
        /\ job.actor \in Admin
    BY <2>1, <1>1 DEF RequestOK, ExternalOK, RequestType, LedgerOK
  <2>3. op \in OperationId
    BY <2>o, <2>2, <1>1, OwnerOfIsKnown DEF RowTypes
  <2> DEFINE b == [job EXCEPT !.step = "succeed"]
             k == [b EXCEPT !.op = op]
  <2>4. /\ k \in RequestType
        /\ k.step = "succeed" /\ k.phase = "reconcile_external"
        /\ k.actor = job.actor /\ k.op = op /\ k.hash = job.hash
    <3>1. /\ b \in RequestType
          /\ b.step = "succeed" /\ b.phase = "reconcile_external"
          /\ b.actor = job.actor /\ b.hash = job.hash
      BY <2>1, <1>1, StepOfRequest DEF RouteSteps
    <3> HIDE DEF b
    <3>2. QED
      BY <3>1, <2>3, OperationOfRequest
  <2> HIDE DEF k
  <2>5. UNCHANGED <<tx, terms>>
    BY <2>1 DEF chainVars, tabVars
  <2>6. /\ op \in DOMAIN attempts'
        /\ attempts'[op].hash = job.hash
        /\ attempts'[op].actor = job.actor
        /\ attempts'[op].share = terms[job.hash].share
    <3>1. CASE op \notin DOMAIN attempts
      <4> DEFINE a == [actor |-> job.actor, share |-> terms[job.hash].share,
                       hash |-> job.hash, status |-> "signed"]
      <4>1. a \in Attempt /\ Put(op, a)
        BY <2>o, <3>1, <2>1, <2>2 DEF Attempt, RecordAdopted
      <4>2. DOMAIN attempts' = DOMAIN attempts \cup {op} /\ attempts'[op] = a
        BY <4>1, <3>1, <2>3, <1>1, PutKeeps
      <4>3. QED
        BY <4>2
    <3>2. CASE op \in DOMAIN attempts /\ attempts[op].hash = None
      <4>1. /\ attempts' = [attempts EXCEPT ![op].hash = job.hash,
                                            ![op].status = "signed"]
            /\ attempts[op].actor = job.actor
            /\ attempts[op].share = terms[job.hash].share
        BY <2>o, <3>2, <2>1 DEF RecordAdopted, AdoptAccepted
      <4>2. /\ DOMAIN attempts' = DOMAIN attempts
            /\ attempts'[op] = [actor |-> attempts[op].actor, share |-> attempts[op].share,
                                hash |-> job.hash, status |-> "signed"]
        BY <4>1, <3>2, <2>2, <1>1, PatchKeeps
      <4>3. QED
        BY <4>1, <4>2, <3>2
    <3>3. CASE op \in DOMAIN attempts /\ attempts[op].hash # None
      BY <2>o, <3>3, <2>1 DEF RecordAdopted, AdoptAccepted
    <3>4. QED
      BY <3>1, <3>2, <3>3
  <2>7. RequestOK(k)'
    BY <2>2, <2>4, <2>5, <2>6 DEF RequestOK, ExternalOK, HasTermsOf
  <2>8. jobs' = (jobs \ {job}) \cup {k}
    <3>1. [job EXCEPT !.step = "succeed", !.op = op] = k
      BY DEF k
    <3>2. QED
      BY <3>1, <2>1
  <2>9. QED
    BY <2>4, <2>7, <2>8 DEF RequestStep
<1>11. QED
  BY <1>3, <1>4, <1>5, <1>6, <1>7, <1>8, <1>9, <1>10 DEF RouteStep

LEMMA RequestSteps ==
    ASSUME SettlementInv, [Next]_vars
    PROVE  RequestStep
<1> USE DEF RequestStep
<1>1. /\ RowTypes /\ LedgerTypes /\ LedgerOK /\ TabOK
      /\ Ops \subseteq OperationId /\ Ops \subseteq Hash
      /\ DOMAIN attempts \subseteq OperationId
  BY Named DEF SettlementInv, Types, RowTypes, OperationId
<1>q. ASSUME NEW phase \in Phase, NEW step \in RouteSteps, NEW w \in Admin,
             NEW op \in OperationId \cup {None}, NEW h \in Hash \cup {None}
      PROVE  /\ Request(phase, step, w, op, h) \in RequestType
             /\ Request(phase, step, w, op, h).phase = phase
             /\ Request(phase, step, w, op, h).step = step
             /\ Request(phase, step, w, op, h).actor = w
             /\ Request(phase, step, w, op, h).op = op
             /\ Request(phase, step, w, op, h).hash = h
  BY DEF Request, RequestType
<1>2. ASSUME NEW w \in Admin, ClaimDispute(w) \/ AssignDispute(w)
             \/ RevokeMembership(w) \/ RevokeOnChain(w)
      PROVE  RequestStep
  BY <1>2 DEF ClaimDispute, AssignDispute, RevokeMembership, RevokeOnChain
<1>3. CASE AssignDispute(None) \/ \E status \in DisputeStatus : ChangeDisputeStatus(status)
  BY <1>3 DEF AssignDispute, ChangeDisputeStatus
<1>4. ASSUME NEW w \in Admin, RequestReconcileExternal(w)
      PROVE  RequestStep
  <2> DEFINE k == Request("reconcile_external", "preflight", w, None, None)
  <2>1. /\ k \in RequestType /\ k.phase = "reconcile_external"
        /\ k.step = "preflight"
    BY <1>q DEF Phase, RouteSteps
  <2>2. Post(k)
    BY <1>4 DEF RequestReconcileExternal
  <2> HIDE DEF k
  <2>3. RequestOK(k)'
    BY <2>1 DEF RequestOK, ExternalOK
  <2>4. QED
    BY <2>1, <2>2, <2>3
<1>5. ASSUME NEW w \in Admin, NEW op \in OperationId, RequestReconcile(w, op)
      PROVE  RequestStep
  <2> DEFINE k == Request("reconcile", "read", w, op, None)
  <2>1. /\ k \in RequestType /\ k.phase = "reconcile"
        /\ k.step = "read" /\ k.op = op /\ k.hash = None
    BY <1>q DEF Phase, RouteSteps
  <2>2. Post(k) /\ op \in DOMAIN attempts'
    BY <1>5 DEF RequestReconcile, convexVars
  <2> HIDE DEF k
  <2>3. RequestOK(k)'
    BY <2>1, <2>2 DEF RequestOK, ReconcileOK
  <2>4. QED
    BY <2>1, <2>2, <2>3
<1>6. ASSUME NEW w \in Admin, NEW share \in Shares, NEW op \in Ops, Resolve(op, w, share)
      PROVE  RequestStep
  <2> DEFINE k == Request("started", "preflight", w, op, None)
  <2>1. /\ k \in RequestType /\ k.phase = "started"
        /\ k.step = "preflight" /\ k.op = op
    BY <1>1, <1>q DEF Phase, RouteSteps
  <2>2. Post(k) /\ tab'[op] = "starting"
    BY <1>1, <1>6 DEF Resolve, LedgerTypes
  <2> HIDE DEF k
  <2>3. RequestOK(k)'
    BY <2>1, <2>2 DEF RequestOK, StartedOK
  <2>4. QED
    BY <2>1, <2>2, <2>3
<1>7. ASSUME NEW op \in Ops, Sign(op)
      PROVE  RequestStep
  <2>1. PICK w \in Admin : w = terms[op].actor
    BY <1>1, <1>7 DEF Sign, TabOK
  <2> DEFINE k == Request("signed", "record", w, op, op)
  <2>2. /\ k \in RequestType /\ k.phase = "signed"
        /\ k.step = "record" /\ k.op = op /\ k.hash = op
    BY <1>1, <1>q DEF Phase, RouteSteps
  <2>3. Post(k) /\ tx'[op] = "signed"
    BY <2>1, <1>1, <1>7 DEF Sign, LedgerTypes
  <2> HIDE DEF k
  <2>4. RequestOK(k)'
    BY <2>2, <2>3 DEF RequestOK, SignedOK
  <2>5. QED
    BY <2>2, <2>3, <2>4
<1>8. ASSUME NEW op \in Ops, ReportFailure(op)
      PROVE  RequestStep
  <2>1. PICK w \in Admin : w = terms[op].actor
    BY <1>1, <1>8 DEF ReportFailure, TabOK
  <2> DEFINE k == Request("failed", "record", w, op, None)
  <2>2. /\ k \in RequestType /\ k.phase = "failed"
        /\ k.step = "record" /\ k.op = op /\ k.hash = None
    BY <1>1, <1>q DEF Phase, RouteSteps
  <2>3. Post(k)
    BY <2>1, <1>8 DEF ReportFailure
  <2> HIDE DEF k
  <2>4. RequestOK(k)'
    BY <2>2 DEF RequestOK, FailedOK
  <2>5. QED
    BY <2>2, <2>3, <2>4
<1>9. ASSUME NEW op \in Ops, Submit(op) \/ Abandon(op) \/ Apply(op) \/ Expire(op)
      PROVE  RequestStep
  BY <1>9 DEF Submit, Abandon, Apply, Expire
<1>10. ASSUME NEW w \in Admin, NEW share \in Shares, ResolveElsewhere(w, share)
       PROVE  RequestStep
  BY <1>10 DEF ResolveElsewhere
<1>11. ASSUME NEW h \in Hash, Forget(h)
       PROVE  RequestStep
  BY <1>11 DEF Forget
<1>12. CASE UNCHANGED vars
  BY <1>12 DEF vars
<1>14. CASE \/ \E status \in Unrecorded : RecordLate(status)
           \/ \E reading \in Readings : Sync(reading)
  BY <1>14 DEF RecordLate, Sync
<1>13. QED
  BY <1>2, <1>3, <1>4, <1>5, <1>6, <1>7, <1>8, <1>9, <1>10, <1>11, <1>12,
     <1>14, RouteRequests DEF Next

\* No admin has more requests in flight than the bound, whatever they do.
LEMMA RequestTypesStep ==
    ASSUME RequestTypes, RequestStep
    PROVE  RequestTypes'
<1> DEFINE Of(S, w) == {j \in S : j.actor = w}
<1>1. /\ jobs \subseteq RequestType /\ IsFiniteSet(jobs) /\ MaxRequests \in Nat
      /\ \A w \in Admin : Cardinality(Of(jobs, w)) <= MaxRequests
  <2>1. MaxRequests \in Nat
    BY SettlementConstants
  <2>2. QED
    BY <2>1 DEF RequestTypes
<1>2. ASSUME NEW S, S \subseteq jobs, NEW w \in Admin
      PROVE  /\ IsFiniteSet(Of(S, w)) /\ IsFiniteSet(S)
             /\ Cardinality(Of(S, w)) <= Cardinality(Of(jobs, w))
             /\ Cardinality(Of(jobs, w)) \in Nat
             /\ Cardinality(Of(S, w)) \in Nat
  <2>1. IsFiniteSet(Of(jobs, w)) /\ Of(S, w) \subseteq Of(jobs, w)
    <3>1. Of(jobs, w) \subseteq jobs
      OBVIOUS
    <3>2. QED
      BY <3>1, <1>1, <1>2, FS_Subset
  <2> HIDE DEF Of
  <2>2. QED
    BY <2>1, <1>1, <1>2, FS_Subset, FS_CardinalityType
<1>3. ASSUME NEW S, S \subseteq jobs, NEW w \in Admin
      PROVE  Cardinality(Of(S, w)) <= MaxRequests
  <2>1. /\ Cardinality(Of(S, w)) <= Cardinality(Of(jobs, w))
        /\ Cardinality(Of(jobs, w)) \in Nat
        /\ Cardinality(Of(S, w)) \in Nat
    BY <1>2, <1>3
  <2>2. Cardinality(Of(jobs, w)) <= MaxRequests /\ MaxRequests \in Nat
    BY <1>1
  <2> HIDE DEF Of
  <2>3. QED
    BY <2>1, <2>2
<1>c. CASE UNCHANGED jobs
  BY <1>c DEF RequestTypes
<1>4. ASSUME NEW job \in jobs, Finish(job)
      PROVE  RequestTypes'
  <2>1. jobs' \subseteq jobs
    BY <1>4 DEF Finish
  <2>2. \A w \in Admin : Cardinality(Of(jobs', w)) <= MaxRequests
    BY <2>1, <1>3
  <2>3. QED
    BY <2>1, <2>2, <1>1, FS_Subset DEF RequestTypes
<1>5. ASSUME NEW S, S \subseteq jobs, NEW k \in RequestType,
             jobs' = S \cup {k},
             Cardinality(Of(S, k.actor)) < MaxRequests
      PROVE  RequestTypes'
  <2>1. k.actor \in Admin
    BY DEF RequestType
  <2>2. IsFiniteSet(S)
    BY <2>1, <1>2, <1>5
  <2>3. IsFiniteSet(jobs')
    BY <2>2, <1>5, FS_AddElement
  <2>4. ASSUME NEW w \in Admin
        PROVE  Cardinality(Of(jobs', w)) <= MaxRequests
    <3>1. CASE w = k.actor
      <4>1. Of(jobs', w) = Of(S, w) \cup {k}
        BY <3>1, <1>5
      <4>2. IsFiniteSet(Of(S, w)) /\ Cardinality(Of(S, w)) \in Nat
        BY <1>2, <1>5
      <4> HIDE DEF Of
      <4>3. Cardinality(Of(jobs', w)) <= Cardinality(Of(S, w)) + 1
        BY <4>1, <4>2, FS_AddElement
      <4>4. IsFiniteSet(Of(jobs', w)) /\ Cardinality(Of(jobs', w)) \in Nat
        BY <4>1, <4>2, FS_AddElement, FS_CardinalityType
      <4>5. QED
        BY <4>2, <4>3, <4>4, <3>1, <1>1, <1>5
    <3>2. CASE w # k.actor
      <4>1. Of(jobs', w) = Of(S, w)
        BY <3>2, <1>5
      <4>2. QED
        BY <4>1, <1>3, <1>5
    <3>3. QED
      BY <3>1, <3>2
  <2>5. jobs' \subseteq RequestType
    BY <1>1, <1>5
  <2>6. QED
    BY <2>3, <2>4, <2>5 DEF RequestTypes
<1>6. ASSUME NEW k \in RequestType, Post(k)
      PROVE  RequestTypes'
  BY <1>6, <1>5 DEF Post
<1>7. ASSUME NEW job \in jobs, NEW k \in RequestType, k.actor = job.actor,
             jobs' = (jobs \ {job}) \cup {k}
      PROVE  RequestTypes'
  <2> DEFINE S == jobs \ {job}
             w == job.actor
  <2>1. w \in Admin /\ S \subseteq jobs
    BY <1>1 DEF RequestType
  <2>2. Of(jobs, w) = Of(S, w) \cup {job} /\ job \notin Of(S, w)
    OBVIOUS
  <2>3. IsFiniteSet(Of(S, w)) /\ Cardinality(Of(S, w)) \in Nat
    BY <2>1, <1>2
  <2> HIDE DEF Of, S
  <2>4. Cardinality(Of(jobs, w)) = Cardinality(Of(S, w)) + 1
    BY <2>2, <2>3, FS_AddElement
  <2>5. Cardinality(Of(jobs, w)) <= MaxRequests
    BY <2>1, <1>1 DEF Of
  <2>6. Cardinality(Of(S, k.actor)) < MaxRequests
    BY <2>3, <2>4, <2>5, <1>1, <1>7
  <2>7. QED
    BY <2>1, <2>6, <1>5, <1>7 DEF S
<1>8. QED
  BY <1>c, <1>4, <1>6, <1>7 DEF RequestStep

LEMMA RequestsOKStep ==
    ASSUME SettlementInv, [Next]_vars
    PROVE  RequestsOK'
<1>1. /\ LedgerTypes /\ RowTypes /\ LedgerOK
      /\ AttemptsLast /\ LedgerLasts
      /\ jobs \subseteq RequestType /\ RequestsOK
  BY RowSteps, AttemptsStay, LedgerSteps
     DEF SettlementInv, Types, RequestTypes, LedgerStep
<1>2. \A j \in jobs : RequestOK(j)'
  BY <1>1, RequestLasts DEF RequestsOK
<1>3. \A j \in jobs' : j \in jobs \/ RequestOK(j)'
  BY RequestSteps DEF RequestStep, Finish, Post
<1>4. QED
  BY <1>2, <1>3 DEF RequestsOK

-----------------------------------------------------------------------------
(* The invariant, and what follows from it. *)

LEMMA InitInv == Init => SettlementInv
<1> SUFFICES ASSUME Init PROVE SettlementInv
  OBVIOUS
<1> USE DEF Init
<1>1. ActiveAttempts = {} /\ DOMAIN attempts = {}
  BY DEF ActiveAttempts
<1>2. RowTypes
  BY <1>1 DEF RowTypes, DisputeStatus, MirrorRow
<1>3. LedgerTypes
  BY DEF LedgerTypes
<1>4. RequestTypes
  <2>1. \A w \in Admin : {j \in jobs : j.actor = w} = {}
    OBVIOUS
  <2>2. Cardinality({}) = 0 /\ IsFiniteSet({})
    BY FS_EmptySet
  <2>3. MaxRequests \in Nat
    BY SettlementConstants
  <2>4. QED
    BY <2>1, <2>2, <2>3 DEF RequestTypes
<1>5. LedgerOK
  BY Named DEF LedgerOK
<1>6. TabOK
  BY Named DEF TabOK
<1>7. AttemptsOK /\ OneActive /\ RequestsOK
  BY <1>1 DEF AttemptsOK, OneActive, RequestsOK
<1>8. NothingUnrecordedIsSubmitted
  BY Named DEF NothingUnrecordedIsSubmitted
<1>9. RecordsFollowTheChain
  BY <1>1 DEF RecordsFollowTheChain, Resolutions, Settled
<1>10. QED
  BY <1>2, <1>3, <1>4, <1>5, <1>6, <1>7, <1>8, <1>9 DEF SettlementInv, Types

LEMMA StepInv == SettlementInv /\ [Next]_vars => SettlementInv'
<1> SUFFICES ASSUME SettlementInv, [Next]_vars PROVE SettlementInv'
  OBVIOUS
<1>1. LedgerTypes' /\ LedgerOK' /\ TabOK'
  BY LedgerSteps DEF LedgerStep
<1>2. RequestTypes'
  BY RequestSteps, RequestTypesStep DEF SettlementInv, Types
<1>3. QED
  BY <1>1, <1>2, RowTypesStep, AttemptsStep, OneActiveStep, UnrecordedStep,
     RecordsStep, RequestsOKStep DEF SettlementInv, Types

LEMMA SettlementInvariant == Spec => []SettlementInv
BY InitInv, StepInv, PTL DEF Spec

\* The rows, the ledger, the tabs and the requests have their types, and no
\* admin has more requests in flight than the bound.
THEOREM SettlementTypes == Spec => []TypeOK
<1>1. SettlementInv => TypeOK
  BY DEF SettlementInv, Types, RowTypes, LedgerTypes, RequestTypes, TypeOK, MirrorRow
<1>2. QED
  BY <1>1, SettlementInvariant, PTL

\* The row of a recorded settlement, the resolved case and the succeeded
\* attempt name the transaction and the share that moved the money, whatever
\* was retried, came late or was done with another tool; and a row is settled
\* without that record only after a late recording overwrote the dispute.
THEOREM RecordsAreTrue == Spec => []RecordsFollowTheChain
<1>1. SettlementInv => RecordsFollowTheChain
  BY DEF SettlementInv
<1>2. QED
  BY <1>1, SettlementInvariant, PTL

\* Every transaction that can reach the ledger is known to the database.
THEOREM SubmittedIsRecorded == Spec => []NothingUnrecordedIsSubmitted
<1>1. SettlementInv => NothingUnrecordedIsSubmitted
  BY DEF SettlementInv
<1>2. QED
  BY <1>1, SettlementInvariant, PTL

\* An attempt that was given up can never settle the escrow.
THEOREM FailedIsDead == Spec => []FailedAttemptsAreDead
<1>1. ASSUME SettlementInv PROVE FailedAttemptsAreDead
  <2>1. /\ AttemptsOK /\ TabOK /\ NothingUnrecordedIsSubmitted
        /\ \A op \in Ops : op # None
    BY <1>1, Named, AdminIsNotNone DEF SettlementInv
  <2>2. ASSUME NEW op \in DOMAIN attempts, attempts[op].status = "failed"
        PROVE  /\ op \in Ops => tx[op] \notin {"pending", "succeeded"}
               /\ op \in Ops => ~(tab[op] = "submitting" /\ tx[op] = "signed")
               /\ attempts[op].hash # None =>
                      tx[attempts[op].hash] \notin {"pending", "succeeded"}
    <3>1. attempts[op].hash # None => tx[attempts[op].hash] \in {"failed", "expired"}
      BY <2>1, <2>2 DEF AttemptsOK, Dead
    <3>2. op \in Ops /\ tx[op] \in {"pending", "succeeded"} => attempts[op].hash = op
      BY <2>1 DEF NothingUnrecordedIsSubmitted
    <3>3. op \in Ops /\ tab[op] = "submitting" => attempts[op].hash = op
      BY <2>1 DEF TabOK
    <3>4. QED
      BY <2>1, <3>1, <3>2, <3>3
  <2>3. QED
    BY <2>2 DEF FailedAttemptsAreDead
<1>2. QED
  BY <1>1, SettlementInvariant, PTL

\* One attempt at a time is pending, in the hands of the admin who has the
\* case.
THEOREM PendingIsAssigned == Spec => []PendingAttemptIsUniqueAndAssigned
<1>1. ASSUME SettlementInv PROVE PendingAttemptIsUniqueAndAssigned
  <2>1. OneActive
    BY <1>1 DEF SettlementInv
  <2>2. Cardinality(ActiveAttempts) <= 1
    <3>1. CASE ActiveAttempts = {}
      BY <3>1, FS_EmptySet
    <3>2. CASE ActiveAttempts # {}
      <4>1. PICK op \in ActiveAttempts : ActiveAttempts = {op}
        BY <3>2, <2>1 DEF OneActive
      <4>2. Cardinality({op}) = 1
        BY FS_Singleton
      <4>3. QED
        BY <4>1, <4>2
    <3>3. QED
      BY <3>1, <3>2
  <2>3. QED
    BY <2>1, <2>2 DEF OneActive, PendingAttemptIsUniqueAndAssigned
<1>2. QED
  BY <1>1, SettlementInvariant, PTL

\* A closed attempt is never reopened or rewritten, and a transaction, once
\* recorded, is never exchanged for another.
THEOREM AttemptsAreKept == Spec => AttemptsAreHistory
<1>1. ASSUME SettlementInv, [Next]_vars
      PROVE  [\A op \in DOMAIN attempts :
                 /\ op \in DOMAIN attempts'
                 /\ attempts[op].status \in Terminal => attempts'[op] = attempts[op]
                 /\ attempts[op].hash # None => attempts'[op].hash = attempts[op].hash
             ]_vars
  BY <1>1, RowSteps, AttemptsStay DEF AttemptsLast
<1>2. QED
  BY <1>1, SettlementInvariant, PTL DEF Spec, AttemptsAreHistory

-----------------------------------------------------------------------------
(* The escrow as Custody sees it. *)

StageView ==
    [e \in {"escrow"} |->
        IF chain.status = "disputed" THEN "disputed" ELSE "closed"]
WorkerView == [e \in {"escrow"} |-> "freelancer"]

LEMMA SettlementCustodyStep ==
    ASSUME SettlementInv, [Next]_vars
    PROVE  [Keeping!Next]_(<<StageView, WorkerView>>)
<1> USE DEF Keeping!Move
<1>1. CASE chain.status # "disputed"
  <2>1. chain.hash # None
    BY <1>1, AdminIsNotNone DEF SettlementInv, LedgerOK
  <2>2. chain'.status = chain.status
    BY <2>1, SettledStays
  <2> QED  BY <2>2 DEF StageView, WorkerView
<1>2. CASE chain.status = "disputed" /\ chain'.status = "disputed"
  BY <1>2 DEF StageView, WorkerView
<1>3. CASE chain.status = "disputed" /\ chain'.status # "disputed"
  <2>1. Keeping!Close("escrow")
    BY <1>3 DEF Keeping!Close
  <2> QED  BY <2>1 DEF Keeping!Next
<1> QED  BY <1>1, <1>2, <1>3

\* Whichever admins send whatever they signed, with this application or
\* another, the escrow is closed once and stays closed.
THEOREM SettlementKeepsCustody == Spec => KeepsCustody
<1>1. SettlementInv /\ [Next]_vars => [Keeping!Next]_(Keeping!vars)
  BY SettlementCustodyStep DEF Keeping!vars, StageView, WorkerView
<1> QED
  BY <1>1, SettlementInvariant, PTL DEF Spec, KeepsCustody, Keeping!Kept

=============================================================================
