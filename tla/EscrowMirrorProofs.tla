------------------------- MODULE EscrowMirrorProofs -------------------------
(***************************************************************************)
(* Theorems about EscrowMirror, for any number of tabs and escrows.        *)
(*                                                                         *)
(* The inductive invariant says what a tab has learnt when it is about to  *)
(* write the copy: one that records or reviews has seen its call on the    *)
(* ledger, a sync that applies has read a status the escrow has had.  The  *)
(* copy is never ahead, then, because the ledger forgets nothing of an     *)
(* escrow's past (Grows).  For the job it says besides that nothing was    *)
(* submitted on the ledger before proof was handed in, so that work in     *)
(* review is not cancelled without the ledger, and what the job can be     *)
(* while it has no escrow.                                                 *)
(***************************************************************************)
EXTENDS EscrowMirror, FiniteSetTheorems, TLAPS

TabRecord ==
    [op : Calls \cup Creations \cup {"none", "assign", "sync", "sync_reputation"},
     step : {"idle", "sending", "recording", "updating", "reviewing",
             "reading", "applying"},
     id : EscrowIds \cup {None}, read : EscrowStatus \cup {None}]

\* The calls a tab may be sending, and the status each creation leaves.
Sent == Calls \cup Creations \cup {"assign"}
CreatedAs(op) == IF op = "post" THEN "funded" ELSE "created"

\* What a tab in state r has learnt, where ledger and copy are the contract's
\* escrows and the rows, and progress that of the work: its escrow has a row,
\* and on the ledger stands what it is about to write.
Knows(r, ledger, copy, progress) ==
    /\ r.step = "sending" => r.op \in Sent
    /\ r.op \notin Creations \cup {"none"} =>
         r.id \in EscrowIds /\ copy[r.id] # "none"
    /\ r.op \in Creations /\ r.step = "recording" =>
         r.id \in EscrowIds /\ CreatedAs(r.op) \in ledger[r.id].past
    /\ r.op = "submit" => progress \notin {"none", "draft"}
    /\ r.op \in Calls /\ r.step \in {"recording", "updating", "reviewing"} =>
         StatusAfter[r.op] \in ledger[r.id].past
    /\ r.op = "sync" /\ r.step = "applying" => r.read \in ledger[r.id].past
    /\ \/ r.op = "release" /\ r.step \in {"recording", "reviewing"}
       \/ r.op = "sync_reputation" /\ r.step = "applying"
       => ledger[r.id].completion

TabsKnow == \A t \in Tabs : Knows(tab[t], chain, rows, work)

\* An escrow that exists has its status in its past, and whatever else it has
\* been was earlier in the lifecycle.
ChainKeepsPast ==
    \A id \in EscrowIds :
        /\ \A status \in chain[id].past :
             \/ status = chain[id].status
             \/ Progress(status) < Progress(chain[id].status)
        /\ chain[id].status # "none" => chain[id].status \in chain[id].past
        /\ chain[id].status = "none" =>
             chain[id].past = {} /\ ~chain[id].completion

RowIsUnique ==
    \A a, b \in EscrowIds : rows[a] # "none" /\ rows[b] # "none" => a = b

\* The ledger and the copy, without the tabs.
DataType ==
    /\ chain \in [EscrowIds -> [status : EscrowStatus \cup {"none"},
                                past : SUBSET EscrowStatus,
                                completion : BOOLEAN,
                                worker : {"nobody", "freelancer"}]]
    /\ rows \in [EscrowIds -> EscrowStatus \cup {"none"}]
    /\ job \in JobStatus
    /\ freelancer \in [job : BOOLEAN, row : {"none", "named", "assigned"}]
    /\ work \in WorkStatus
    /\ reputation \in [EscrowIds -> 0..1]

\* Nothing was submitted on the ledger before proof was handed in.
ProofComesFirst == \A id \in EscrowIds : "submitted" \in chain[id].past => HasProof

\* What a job without an escrow can be; and it takes a freelancer to work on
\* one that has an escrow.
NoEscrowYet ==
    /\ RowIds = {} => job \in {"open", "selected", "cancelled"} /\ work = "none"
    /\ work # "none" => freelancer.row # "none"

DataInv ==
    /\ DataType /\ ChainKeepsPast /\ RowIsUnique
    /\ MirrorNeverAhead /\ JobFollowsEscrow
    /\ ProofComesFirst /\ NoEscrowYet
    /\ \A id \in EscrowIds : reputation[id] > 0 => chain[id].completion

\* A call in flight is about an escrow.
LateInv ==
    /\ late \subseteq [op : Sent, id : EscrowIds \cup {None}]
    /\ \A tx \in late :
         /\ tx.op \notin Creations => tx.id \in EscrowIds
         /\ tx.op = "submit" => HasProof

RestType ==
    /\ agreement \in {"pending", "accepted", "locked"}
    /\ dispute \in [EscrowIds -> {"none", "active", "closed"}]

TabInv == tab \in [Tabs -> TabRecord] /\ TabsKnow

MirrorInv == DataInv /\ LateInv /\ RestType /\ TabInv

\* What a step may do to what tabs have learnt.
Grows ==
    /\ HasProof => HasProof'
    /\ \A id \in EscrowIds :
         /\ rows[id] # "none" => rows'[id] # "none"
         /\ chain[id].past \subseteq chain'[id].past
         /\ chain[id].completion => chain'[id].completion

-----------------------------------------------------------------------------
(* The tabs' part of the invariant.                                         *)

\* What a tab has learnt stays true.
LEMMA KnowledgeLasts ==
    ASSUME Grows, NEW r \in TabRecord, Knows(r, chain, rows, work)
    PROVE  Knows(r, chain', rows', work')
BY DEF Grows, Knows, Calls, Creations, Sent, HasProof

\* A step of one tab keeps the tabs' part of the invariant if its new state is
\* typed and known.
LEMMA OneTabMoves ==
    ASSUME TabInv, Grows, NEW t \in Tabs, NEW r \in TabRecord,
           Knows(r, chain', rows', work'), tab' = [tab EXCEPT ![t] = r]
    PROVE  TabInv'
<1>1. tab' \in [Tabs -> TabRecord]
  BY DEF TabInv
<1>2. ASSUME NEW u \in Tabs PROVE Knows(tab'[u], chain', rows', work')
  <2>1. CASE u = t
    BY <2>1 DEF TabInv
  <2>2. CASE u # t
    <3>1. tab'[u] = tab[u] /\ tab[u] \in TabRecord
      BY <2>2 DEF TabInv
    <3>2. Knows(tab[u], chain, rows, work)
      BY DEF TabInv, TabsKnow
    <3> QED  BY <3>1, <3>2, KnowledgeLasts
  <2> QED  BY <2>1, <2>2
<1> QED  BY <1>1, <1>2 DEF TabInv, TabsKnow

\* A tab that stops has nothing to know.
LEMMA TabStops ==
    ASSUME TabInv, Grows, NEW t \in Tabs, Stop(t)
    PROVE  TabInv'
<1>1. Idle \in TabRecord
  BY DEF Idle, TabRecord
<1>2. Knows(Idle, chain', rows', work')
  BY DEF Idle, Knows, Calls, Creations
<1> QED  BY <1>1, <1>2, OneTabMoves DEF Stop

\* A tab that goes on with its action.
LEMMA TabStarts ==
    ASSUME TabInv, Grows, NEW t \in Tabs, NEW op, NEW step, NEW id,
           Start(t, op, step, id),
           op \in Sent \cup {"sync", "sync_reputation"},
           step \in {"sending", "recording", "updating", "reviewing", "reading"},
           id \in EscrowIds \cup {None},
           Knows([op |-> op, step |-> step, id |-> id, read |-> None],
                 chain', rows', work')
    PROVE  TabInv'
<1>1. [op |-> op, step |-> step, id |-> id, read |-> None] \in TabRecord
  BY DEF TabRecord, Sent
<1> QED  BY <1>1, OneTabMoves DEF Start

\* No tab moves.
LEMMA TabsStay ==
    ASSUME TabInv, Grows, tab' = tab
    PROVE  TabInv'
<1>1. ASSUME NEW u \in Tabs PROVE Knows(tab'[u], chain', rows', work')
  <2>1. tab[u] \in TabRecord /\ Knows(tab[u], chain, rows, work)
    BY DEF TabInv, TabsKnow
  <2> QED  BY <2>1, KnowledgeLasts
<1> QED  BY <1>1 DEF TabInv, TabsKnow

-----------------------------------------------------------------------------
(* The ledger and the copy.                                                 *)

\* What the step leaves of the job and its work.
WorkStays == UNCHANGED <<job, freelancer, work>>

\* A step that leaves ledger, copy and reviews alone.
LEMMA DataStay ==
    ASSUME DataInv, UNCHANGED <<chain, rows, reputation>>, WorkStays
    PROVE  Grows /\ DataInv'
BY DEF DataInv, DataType, ChainKeepsPast, RowIsUnique, MirrorNeverAhead,
       JobFollowsEscrow, JobStandsApart, ProofComesFirst, NoEscrowYet, HasProof,
       RowIds, Grows, WorkStays

\* A step of the ledger alone, whose past grows.
LEMMA LedgerMoves ==
    ASSUME DataInv, UNCHANGED <<rows, reputation>>, WorkStays,
           DataType', ChainKeepsPast', ProofComesFirst',
           \A id \in EscrowIds :
               /\ chain[id].past \subseteq chain'[id].past
               /\ chain[id].completion => chain'[id].completion
    PROVE  Grows /\ DataInv'
<1>1. Grows
  BY DEF Grows, WorkStays, HasProof
<1>2. MirrorNeverAhead' /\ RowIsUnique' /\ NoEscrowYet'
  BY DEF DataInv, MirrorNeverAhead, RowIsUnique, NoEscrowYet, RowIds, WorkStays
<1>3. JobFollowsEscrow'
  BY DEF DataInv, JobFollowsEscrow, JobStandsApart, HasProof, RowIds, WorkStays
<1>4. (\A i \in EscrowIds : reputation[i] > 0 => chain[i].completion)'
  BY DEF DataInv
<1> QED  BY <1>1, <1>2, <1>3, <1>4 DEF DataInv

\* An escrow is created on the ledger.
LEMMA AllocateLemma ==
    ASSUME DataInv, NEW id \in EscrowIds, NEW op \in Creations, Allocate(id, op),
           UNCHANGED <<rows, reputation>>, WorkStays
    PROVE  Grows /\ DataInv' /\ CreatedAs(op) \in chain'[id].past
<1>1. chain[id].status = "none" /\ chain[id].past = {} /\ ~chain[id].completion
  BY DEF Allocate, Unused, DataInv, ChainKeepsPast
<1>2. PICK someone \in {"nobody", "freelancer"} :
        chain' = [chain EXCEPT ![id] =
                    [status |-> CreatedAs(op), past |-> {CreatedAs(op)},
                     completion |-> FALSE, worker |-> someone]]
  BY DEF Allocate, CreatedAs
<1>3. CreatedAs(op) \in {"created", "funded"}
  BY DEF CreatedAs
<1>4. /\ chain'[id] = [status |-> CreatedAs(op), past |-> {CreatedAs(op)},
                       completion |-> FALSE, worker |-> someone]
      /\ \A other \in EscrowIds \ {id} : chain'[other] = chain[other]
  BY <1>2 DEF DataInv, DataType
<1>5. DataType'
  BY <1>2, <1>3 DEF DataInv, DataType, EscrowStatus, WorkStays
<1>6. ChainKeepsPast'
  BY <1>3, <1>4 DEF DataInv, ChainKeepsPast
<1>7. ProofComesFirst'
  BY <1>3, <1>4 DEF DataInv, ProofComesFirst, HasProof, WorkStays
<1>8. ASSUME NEW i \in EscrowIds
      PROVE  /\ chain[i].past \subseteq chain'[i].past
             /\ chain[i].completion => chain'[i].completion
  BY <1>1, <1>4
<1> QED  BY <1>4, <1>5, <1>6, <1>7, <1>8, LedgerMoves

\* A posted escrow gets its freelancer on the ledger.
LEMMA AssignLemma ==
    ASSUME DataInv, NEW id \in EscrowIds, Assign(id),
           UNCHANGED <<rows, reputation>>, WorkStays
    PROVE  Grows /\ DataInv'
<1>1. DataType'
  BY DEF DataInv, DataType, Assign, WorkStays
<1>2. ASSUME NEW i \in EscrowIds
      PROVE  /\ chain'[i].status = chain[i].status
             /\ chain'[i].past = chain[i].past
             /\ chain'[i].completion = chain[i].completion
  BY DEF DataInv, DataType, Assign
<1>3. ChainKeepsPast' /\ ProofComesFirst'
  BY <1>2 DEF DataInv, ChainKeepsPast, ProofComesFirst, HasProof, WorkStays
<1> QED  BY <1>1, <1>2, <1>3, LedgerMoves

\* A call moves an escrow that exists.
LEMMA ExecuteLemma ==
    ASSUME DataInv, NEW op \in Calls, NEW id \in EscrowIds,
           IsAccepted(op, id), Execute(op, id),
           op = "submit" => HasProof,
           UNCHANGED <<rows, reputation>>, WorkStays
    PROVE  /\ Grows /\ DataInv'
           /\ StatusAfter[op] \in chain'[id].past
           /\ op = "release" => chain'[id].completion
<1>1. StatusAfter[op] \in EscrowStatus
  BY DEF Calls, StatusAfter, EscrowStatus
<1>2. /\ chain'[id] = [status |-> StatusAfter[op],
                       past |-> chain[id].past \cup {StatusAfter[op]},
                       completion |-> chain[id].completion \/ op = "release",
                       worker |-> chain[id].worker]
      /\ \A other \in EscrowIds \ {id} : chain'[other] = chain[other]
  BY DEF Execute, DataInv, DataType
<1>3. chain'[id].completion <=> chain[id].completion \/ op = "release"
  <2>1. chain'[id].completion = (chain[id].completion \/ op = "release")
    BY <1>2
  <2>2. chain[id].completion \in BOOLEAN
    BY DEF DataInv, DataType
  <2> QED  BY <2>1, <2>2, Zenon
<1>4. ASSUME NEW i \in EscrowIds
      PROVE  /\ chain[i].past \subseteq chain'[i].past
             /\ chain[i].completion => chain'[i].completion
  BY <1>2, <1>3
<1>5. DataType'
  <2>1. chain[id].past \subseteq EscrowStatus
        /\ (chain[id].completion \/ op = "release") \in BOOLEAN
    BY DEF DataInv, DataType
  <2> QED  BY <1>1, <2>1 DEF Execute, DataInv, DataType, WorkStays
<1>6. ChainKeepsPast'
  <2>1. chain[id].status # "none"
        /\ Progress(chain[id].status) < Progress(StatusAfter[op])
    BY DEF IsAccepted, ContractAccepts, StatusAfter, Calls, Progress
  <2>2. \A status \in EscrowStatus : Progress(status) \in Nat
    BY DEF Progress, EscrowStatus
  <2>3. chain[id].past \subseteq EscrowStatus /\ chain[id].status \in EscrowStatus
    BY <2>1 DEF DataInv, DataType
  <2>4. \A status \in chain[id].past :
          Progress(status) < Progress(StatusAfter[op])
    BY <1>1, <2>1, <2>2, <2>3 DEF DataInv, ChainKeepsPast
  <2> QED  BY <1>1, <1>2, <2>4 DEF DataInv, ChainKeepsPast, EscrowStatus
<1>7. ProofComesFirst'
  <2>1. StatusAfter[op] = "submitted" => HasProof
    BY DEF Calls, StatusAfter
  <2> QED  BY <1>2, <2>1 DEF DataInv, ProofComesFirst, HasProof, WorkStays
<1> QED  BY <1>2, <1>3, <1>4, <1>5, <1>6, <1>7, LedgerMoves

\* A status that the escrow has had is recorded, in its row and in the job's.
LEMMA PatchLemma ==
    ASSUME DataInv, NEW id \in EscrowIds, NEW status \in EscrowStatus,
           rows[id] # "none", status \in chain[id].past,
           status # "created", Patch(id, status),
           UNCHANGED <<chain, freelancer, work, reputation>>
    PROVE  Grows /\ DataInv'
<1>1. /\ rows'[id] = status
      /\ \A other \in EscrowIds \ {id} : rows'[other] = "none"
  BY DEF Patch, DataInv, DataType, RowIsUnique
<1>2. DataType'
  BY DEF Patch, DataInv, DataType, JobStatusFromEscrowStatus, EscrowStatus,
         JobStatus
<1>3. Grows
  BY <1>1 DEF Grows, EscrowStatus, DataInv, RowIsUnique, HasProof
<1>4. ChainKeepsPast' /\ RowIsUnique' /\ ProofComesFirst'
  BY <1>1 DEF DataInv, ChainKeepsPast, RowIsUnique, ProofComesFirst, HasProof
<1>5. MirrorNeverAhead' /\ JobFollowsEscrow'
  BY <1>1 DEF MirrorNeverAhead, JobFollowsEscrow, RowIds, Patch
<1>6. NoEscrowYet'
  BY <1>1 DEF DataInv, NoEscrowYet, RowIds, EscrowStatus
<1> QED  BY <1>2, <1>3, <1>4, <1>5, <1>6 DEF DataInv

\* The first row of the job, of an escrow that waits for its money or of one
\* that has it.
LEMMA CreationLemma ==
    ASSUME DataInv, NEW id \in EscrowIds, CreationAllowed(id),
           NEW op \in Creations, CreatedAs(op) \in chain[id].past,
           rows' = [rows EXCEPT ![id] = CreatedAs(op)],
           job' = IF op = "post" THEN "funded" ELSE job,
           freelancer' \in [job : BOOLEAN, row : {"none", "named", "assigned"}],
           UNCHANGED <<chain, work, reputation>>
    PROVE  Grows /\ DataInv'
<1>1. RowIds = {} /\ \A other \in EscrowIds : rows[other] = "none"
  BY DEF CreationAllowed, RowIds
<1>2. /\ rows'[id] = CreatedAs(op)
      /\ \A other \in EscrowIds \ {id} : rows'[other] = "none"
  BY <1>1 DEF DataInv, DataType
<1>3. DataType'
  BY DEF DataInv, DataType, EscrowStatus, CreatedAs, JobStatus
<1>4. Grows /\ ChainKeepsPast' /\ RowIsUnique' /\ ProofComesFirst'
  BY <1>1, <1>2 DEF DataInv, ChainKeepsPast, RowIsUnique, ProofComesFirst,
                    Grows, HasProof
<1>5. MirrorNeverAhead' /\ NoEscrowYet'
  BY <1>1, <1>2 DEF DataInv, MirrorNeverAhead, NoEscrowYet, RowIds, CreatedAs
<1>6. JobFollowsEscrow'
  <2>1. \A i \in RowIds' : i = id
    BY <1>2 DEF RowIds
  <2>2. CASE op = "post"
    BY <1>2, <2>1, <2>2 DEF JobFollowsEscrow, JobStatusFromEscrowStatus, CreatedAs
  <2>3. CASE op = "create"
    <3>1. job' \in {"open", "selected", "cancelled"} /\ rows'[id] = "created"
      BY <1>1, <1>2, <2>3 DEF DataInv, NoEscrowYet, CreatedAs
    <3> QED  BY <2>1, <3>1 DEF JobFollowsEscrow, JobStandsApart
  <2> QED  BY <2>2, <2>3 DEF Creations
<1> QED  BY <1>3, <1>4, <1>5, <1>6 DEF DataInv

\* A review of an escrow with a completion, if there is none yet.
LEMMA ReviewLemma ==
    ASSUME DataInv, NEW id \in EscrowIds, chain[id].completion,
           reputation' = IF rows[id] = "released" /\ reputation[id] = 0
                           THEN [reputation EXCEPT ![id] = 1] ELSE reputation,
           UNCHANGED <<chain, rows>>, WorkStays
    PROVE  Grows /\ DataInv'
<1>1. DataType'
  BY DEF DataInv, DataType, WorkStays
<1>2. (\A i \in EscrowIds : reputation[i] > 0 => chain[i].completion)'
  BY DEF DataInv, DataType
<1> QED  BY <1>1, <1>2 DEF DataInv, ChainKeepsPast, RowIsUnique, Grows,
            MirrorNeverAhead, JobFollowsEscrow, JobStandsApart, ProofComesFirst,
            NoEscrowYet, HasProof, RowIds, WorkStays

\* A step that writes the job or its work alone: whatever makes the two differ
\* from the escrow is among what JobStandsApart lists.
LEMMA WorkMoves ==
    ASSUME DataInv, UNCHANGED <<chain, rows, reputation>>, HasProof => HasProof',
           job' \in JobStatus,
           freelancer' \in [job : BOOLEAN, row : {"none", "named", "assigned"}],
           work' \in WorkStatus,
           NoEscrowYet', JobFollowsEscrow'
    PROVE  Grows /\ DataInv'
<1>1. DataType'
  BY DEF DataInv, DataType
<1>2. Grows /\ ProofComesFirst'
  BY DEF DataInv, Grows, ProofComesFirst
<1> QED  BY <1>1, <1>2 DEF DataInv, ChainKeepsPast, RowIsUnique,
            MirrorNeverAhead, RowIds
-----------------------------------------------------------------------------
(* One step of each kind.                                                   *)

\* Late calls and the rest of the platform are not touched.
RestStays == UNCHANGED <<late, agreement, dispute>>

LEMMA RestLasts ==
    ASSUME LateInv, RestType, RestStays, Grows
    PROVE  LateInv' /\ RestType'
BY DEF LateInv, RestType, RestStays, Grows

\* A step that leaves alone what no tab has learnt of.
LEMMA NothingMoves ==
    ASSUME MirrorInv, UNCHANGED <<chainVars, convexVars>>
    PROVE  Grows /\ DataInv' /\ LateInv' /\ RestType'
<1>1. UNCHANGED <<chain, rows, reputation>> /\ WorkStays /\ RestStays
  BY DEF chainVars, convexVars, workVars, WorkStays, RestStays
<1> QED  BY <1>1, DataStay, RestLasts DEF MirrorInv

\* Buttons: nothing is known, but that the escrow of a call has a row.
LEMMA PressKeeps ==
    ASSUME MirrorInv, NEW t \in Tabs,
           \/ PressCreate(t)
           \/ \E id \in EscrowIds : PressAssign(t, id)
           \/ \E op \in Calls, id \in EscrowIds : Press(t, op, id)
           \/ \E op \in {"sync", "sync_reputation"}, id \in EscrowIds :
                PressSync(t, op, id)
    PROVE  MirrorInv'
<1>1. Grows /\ DataInv' /\ LateInv' /\ RestType'
  <2>1. UNCHANGED <<chainVars, convexVars>>
    BY DEF PressCreate, PressAssign, Press, PressSync
  <2> QED  BY <2>1, NothingMoves
<1>2. TabInv'
  <2>1. CASE PressCreate(t)
    <3>1. Knows([op |-> "create", step |-> "sending", id |-> None,
                 read |-> None], chain', rows', work')
      BY DEF Knows, Calls, Creations, Sent
    <3> QED  BY <2>1, <1>1, <3>1, TabStarts DEF PressCreate, MirrorInv, Sent, Creations
  <2>2. ASSUME NEW op \in Calls, NEW id \in EscrowIds, Press(t, op, id)
        PROVE  TabInv'
    <3>1. rows'[id] # "none"
          /\ op \notin {"sync", "sync_reputation", "create", "post"}
      BY <2>2 DEF Press, convexVars, ButtonShows, EscrowStatus, Calls
    <3>2. op = "submit" => work' \notin {"none", "draft"}
      BY <2>2 DEF Press, MayPress, HasProof, convexVars, workVars
    <3>3. Knows([op |-> op, step |-> "sending", id |-> id, read |-> None],
                chain', rows', work')
      BY <3>1, <3>2 DEF Knows, Sent, Creations
    <3> QED  BY <2>2, <1>1, <3>3, TabStarts DEF Press, MirrorInv, Sent
  <2>3. ASSUME NEW op \in {"sync", "sync_reputation"}, NEW id \in EscrowIds,
               PressSync(t, op, id)
        PROVE  TabInv'
    <3>1. Knows([op |-> op, step |-> "reading", id |-> id, read |-> None],
                chain', rows', work')
      BY <2>3 DEF Knows, PressSync, convexVars, Calls, Creations
    <3> QED  BY <2>3, <1>1, <3>1, TabStarts DEF PressSync, MirrorInv
  <2>4. ASSUME NEW id \in EscrowIds, PressAssign(t, id)
        PROVE  TabInv'
    <3>1. rows'[id] # "none"
      BY <2>4 DEF PressAssign, convexVars
    <3>2. Knows([op |-> "assign", step |-> "sending", id |-> id, read |-> None],
                chain', rows', work')
      BY <3>1 DEF Knows, Calls, Creations, Sent
    <3> QED  BY <2>4, <1>1, <3>2, TabStarts DEF PressAssign, MirrorInv, Sent
  <2> QED  BY <2>1, <2>2, <2>3, <2>4
<1> QED  BY <1>1, <1>2 DEF MirrorInv

\* The end of an action, and a funding that turns into a sync.
LEMMA StopKeeps ==
    ASSUME MirrorInv, NEW t \in Tabs,
           Refuse(t) \/ LoseTrack(t) \/ Close(t) \/ FailRead(t)
    PROVE  MirrorInv'
<1>1. Grows /\ DataInv' /\ RestType' /\ UNCHANGED work
  <2>1. UNCHANGED <<chain, convexVars>>
    BY DEF Refuse, LoseTrack, Close, FailRead, chainVars
  <2>2. UNCHANGED <<chain, rows, reputation, agreement, dispute, work>>
        /\ WorkStays
    BY <2>1 DEF convexVars, workVars, WorkStays
  <2> QED  BY <2>2, DataStay DEF MirrorInv, RestType
<1>2. LateInv'
  <2>1. CASE LoseTrack(t)
    <3>1. tab[t] \in TabRecord /\ Knows(tab[t], chain, rows, work)
      BY DEF MirrorInv, TabInv, TabsKnow
    <3>2. /\ tab[t].op \in Sent
          /\ tab[t].op \notin Creations => tab[t].id \in EscrowIds
          /\ tab[t].op = "submit" => HasProof
      BY <2>1, <3>1 DEF LoseTrack, Knows, Calls, Sent, Creations, HasProof
    <3>3. [op |-> tab[t].op, id |-> tab[t].id]
            \in [op : Sent, id : EscrowIds \cup {None}]
      BY <3>1, <3>2 DEF TabRecord
    <3>4. late' = late \cup {[op |-> tab[t].op, id |-> tab[t].id]}
      BY <2>1 DEF LoseTrack
    <3> QED  BY <1>1, <3>2, <3>3, <3>4 DEF MirrorInv, LateInv, HasProof
  <2>2. CASE late' = late
    BY <1>1, <2>2 DEF MirrorInv, LateInv, HasProof
  <2> QED  BY <2>1, <2>2 DEF Refuse, Close, FailRead, chainVars
<1>3. TabInv'
  <2>1. CASE Stop(t)
    BY <2>1, <1>1, TabStops DEF MirrorInv
  <2>2. CASE /\ tab[t].op = "fund"
             /\ Start(t, "sync", "reading", tab[t].id)
    <3>1. tab[t] \in TabRecord /\ Knows(tab[t], chain, rows, work)
      BY DEF MirrorInv, TabInv, TabsKnow
    <3>2. Knows(tab[t], chain', rows', work')
      BY <1>1, <3>1, KnowledgeLasts
    <3>3. Knows([op |-> "sync", step |-> "reading", id |-> tab[t].id,
                 read |-> None], chain', rows', work')
      BY <2>2, <3>2 DEF Knows, Calls, Creations
    <3> QED  BY <2>2, <1>1, <3>1, <3>3, TabStarts DEF MirrorInv, TabRecord
  <2> QED  BY <2>1, <2>2 DEF Refuse, LoseTrack, Close, FailRead
<1> QED  BY <1>1, <1>2, <1>3 DEF MirrorInv

\* The ledger takes a call in.
LEMMA TakeInLemma ==
    ASSUME DataInv, NEW op \in Sent, NEW id \in EscrowIds, TakeIn(op, id),
           op = "submit" => HasProof,
           UNCHANGED <<rows, reputation>>, WorkStays
    PROVE  /\ Grows /\ DataInv'
           /\ op \in Creations => CreatedAs(op) \in chain'[id].past
           /\ op \in Calls => StatusAfter[op] \in chain'[id].past
           /\ op = "release" => chain'[id].completion
<1>1. CASE op \in Creations /\ Allocate(id, op)
  BY <1>1, AllocateLemma DEF Creations, Calls
<1>2. CASE op \in Calls /\ IsAccepted(op, id) /\ Execute(op, id)
  BY <1>2, ExecuteLemma DEF Creations, Calls
<1>3. CASE op = "assign" /\ Assign(id)
  BY <1>3, AssignLemma DEF Creations, Calls
<1> QED  BY <1>1, <1>2, <1>3 DEF TakeIn

\* A call is taken in, and its tab has seen it.
LEMMA ConfirmKeeps ==
    ASSUME MirrorInv, NEW t \in Tabs, Confirm(t)
    PROVE  MirrorInv'
<1> DEFINE op == tab[t].op
<1>1. UNCHANGED <<rows, reputation>> /\ WorkStays /\ RestStays
  BY DEF Confirm, convexVars, workVars, WorkStays, RestStays
<1>2. tab[t] \in TabRecord /\ Knows(tab[t], chain, rows, work)
  BY DEF MirrorInv, TabInv, TabsKnow
<1>3. /\ tab[t].step = "sending" /\ op \in Sent
      /\ op = "submit" => HasProof
      /\ op \notin Creations => tab[t].id \in EscrowIds /\ rows[tab[t].id] # "none"
  BY <1>2 DEF Confirm, Knows, Sent, Calls, Creations, HasProof
<1>4. PICK id \in EscrowIds :
        /\ op \in Creations \/ id = tab[t].id
        /\ TakeIn(op, id) /\ Start(t, op, "recording", id)
  BY DEF Confirm
<1>5. /\ Grows /\ DataInv'
      /\ op \in Creations => CreatedAs(op) \in chain'[id].past
      /\ op \in Calls => StatusAfter[op] \in chain'[id].past
      /\ op = "release" => chain'[id].completion
  BY <1>1, <1>3, <1>4, TakeInLemma DEF MirrorInv
<1>6. Knows([op |-> op, step |-> "recording", id |-> id, read |-> None],
            chain', rows', work')
  BY <1>1, <1>3, <1>4, <1>5
     DEF Knows, Sent, Calls, Creations, WorkStays, HasProof
<1>7. TabInv'
  BY <1>3, <1>4, <1>5, <1>6, TabStarts DEF MirrorInv
<1> QED  BY <1>1, <1>5, <1>7, RestLasts DEF MirrorInv

\* The ledger takes a call in, and nobody has seen it; or it expires.
LEMMA LateKeeps ==
    ASSUME MirrorInv, NEW tx \in late, ConfirmLate(tx) \/ Expire(tx)
    PROVE  MirrorInv'
<1>1. /\ UNCHANGED <<rows, reputation>> /\ WorkStays /\ tab' = tab
      /\ late' = late \ {tx} /\ UNCHANGED <<agreement, dispute>>
  BY DEF ConfirmLate, Expire, convexVars, workVars, WorkStays
<1>2. Grows /\ DataInv'
  <2>1. CASE ConfirmLate(tx)
    <3>1. PICK id \in EscrowIds : TakeIn(tx.op, id)
      BY <2>1 DEF ConfirmLate
    <3>2. tx.op \in Sent /\ (tx.op = "submit" => HasProof)
      BY DEF MirrorInv, LateInv
    <3> QED  BY <1>1, <3>1, <3>2, TakeInLemma DEF MirrorInv
  <2>2. CASE Expire(tx)
    BY <1>1, <2>2, DataStay DEF MirrorInv, Expire
  <2> QED  BY <2>1, <2>2
<1>3. LateInv' /\ RestType'
  BY <1>1, <1>2 DEF MirrorInv, LateInv, RestType, Grows
<1> QED  BY <1>1, <1>2, <1>3, TabsStay DEF MirrorInv

\* A creation is recorded, of an escrow that the ledger has; an assignment,
\* whatever became of its escrow.
LEMMA RecordHiringKeeps ==
    ASSUME MirrorInv, NEW t \in Tabs,
           RecordCreation(t) \/ RecordPosting(t) \/ RecordAssignment(t)
    PROVE  MirrorInv'
<1> DEFINE op == tab[t].op
           id == tab[t].id
<1>1. tab[t] \in TabRecord /\ Knows(tab[t], chain, rows, work)
  BY DEF MirrorInv, TabInv, TabsKnow
<1>2. op \in Creations /\ tab[t].step = "recording" =>
        id \in EscrowIds /\ CreatedAs(op) \in chain[id].past
  BY <1>1 DEF Knows
<1>3. DataType
  BY DEF MirrorInv, DataInv
<1>4. CASE RecordCreation(t)
  <2>1. /\ op = "create" /\ op \in Creations /\ CreatedAs(op) = "created"
        /\ tab[t].step = "recording" /\ Stop(t)
        /\ UNCHANGED <<chain, late, job, work, agreement, dispute, reputation>>
    BY <1>4 DEF RecordCreation, Creations, CreatedAs, chainVars
  <2>2. Grows /\ DataInv'
    <3>1. CASE CreationAllowed(id) /\ freelancer.job
      <4>1. rows' = [rows EXCEPT ![id] = "created"]
            /\ freelancer' = [freelancer EXCEPT !.row = "named"]
        BY <1>4, <3>1 DEF RecordCreation
      <4>2. freelancer' \in [job : BOOLEAN, row : {"none", "named", "assigned"}]
        BY <1>3, <4>1 DEF DataType
      <4> QED  BY <1>2, <2>1, <3>1, <4>1, <4>2, CreationLemma DEF MirrorInv
    <3>2. CASE UNCHANGED <<rows, freelancer>>
      BY <2>1, <3>2, DataStay DEF MirrorInv, WorkStays
    <3> QED  BY <1>4, <3>1, <3>2 DEF RecordCreation
  <2>3. LateInv' /\ RestType'
    BY <2>1, <2>2, RestLasts DEF MirrorInv, RestStays
  <2> QED  BY <2>1, <2>2, <2>3, TabStops DEF MirrorInv
<1>5. CASE RecordPosting(t)
  <2>1. /\ op = "post" /\ op \in Creations /\ CreatedAs(op) = "funded"
        /\ tab[t].step = "recording" /\ Stop(t)
        /\ UNCHANGED <<chain, late, freelancer, work, dispute, reputation>>
    BY <1>5 DEF RecordPosting, Creations, CreatedAs, chainVars, workVars
  <2>2. Grows /\ DataInv'
    <3>1. CASE /\ CreationAllowed(id)
               /\ rows' = [rows EXCEPT ![id] = "funded"] /\ job' = "funded"
      <4>1. freelancer' \in [job : BOOLEAN, row : {"none", "named", "assigned"}]
        BY <1>3, <2>1 DEF DataType
      <4>2. /\ DataInv /\ id \in EscrowIds /\ CreatedAs(op) \in chain[id].past
            /\ rows' = [rows EXCEPT ![id] = CreatedAs(op)]
            /\ job' = IF op = "post" THEN "funded" ELSE job
        BY <1>2, <2>1, <3>1 DEF MirrorInv
      <4> QED  BY <2>1, <3>1, <4>1, <4>2, CreationLemma
    <3>2. CASE UNCHANGED <<rows, job>>
      BY <2>1, <3>2, DataStay DEF MirrorInv, WorkStays
    <3> QED  BY <1>5, <3>1, <3>2 DEF RecordPosting
  <2>3. LateInv' /\ RestType'
    <3>1. agreement' \in {"pending", "accepted", "locked"}
      BY <1>5 DEF RecordPosting, LockAccepted, MirrorInv, RestType
    <3> QED  BY <2>1, <2>2, <3>1 DEF MirrorInv, LateInv, RestType, Grows
  <2> QED  BY <2>1, <2>2, <2>3, TabStops DEF MirrorInv
<1>6. CASE RecordAssignment(t)
  <2>1. /\ op = "assign" /\ Stop(t)
        /\ UNCHANGED <<chain, late, rows, work, agreement, dispute, reputation>>
    BY <1>6 DEF RecordAssignment, chainVars
  <2>2. id \in EscrowIds /\ rows[id] # "none"
    BY <1>1, <2>1 DEF Knows, Creations
  <2>3. Grows /\ DataInv'
    <3>1. CASE freelancer.row = "none"
      <4>1. /\ freelancer' = [job |-> TRUE, row |-> "assigned"]
            /\ job' = IF rows[id] = "funded" THEN "funded" ELSE "selected"
        BY <1>6, <3>1 DEF RecordAssignment
      <4>2. JobFollowsEscrow'
        <5>1. \A i \in RowIds' : i = id
          BY <2>1, <2>2 DEF RowIds, MirrorInv, DataInv, RowIsUnique
        <5>2. freelancer'.row = "assigned"
          BY <4>1
        <5> QED  BY <2>1, <4>1, <5>1, <5>2
                 DEF JobFollowsEscrow, JobStandsApart, JobStatusFromEscrowStatus
      <4>3. NoEscrowYet'
        <5>1. freelancer'.row # "none" /\ RowIds' # {}
          BY <2>1, <2>2, <4>1 DEF RowIds
        <5> QED  BY <5>1 DEF NoEscrowYet
      <4>4. /\ job' \in JobStatus /\ (HasProof => HasProof')
            /\ freelancer' \in [job : BOOLEAN, row : {"none", "named", "assigned"}]
            /\ work' \in WorkStatus
        BY <1>3, <2>1, <4>1 DEF JobStatus, HasProof, DataType
      <4> QED  BY <2>1, <4>2, <4>3, <4>4, WorkMoves DEF MirrorInv
    <3>2. CASE UNCHANGED <<freelancer, job>>
      BY <2>1, <3>2, DataStay DEF MirrorInv, WorkStays
    <3> QED  BY <1>6, <3>1, <3>2 DEF RecordAssignment
  <2>4. LateInv' /\ RestType'
    BY <2>1, <2>3, RestLasts DEF MirrorInv, RestStays
  <2> QED  BY <2>1, <2>3, <2>4, TabStops DEF MirrorInv
<1> QED  BY <1>4, <1>5, <1>6

\* A confirmed call is recorded: what is written, the tab has seen.
LEMMA RecordKeeps ==
    ASSUME MirrorInv, NEW t \in Tabs,
           \/ RecordStatus(t) \/ RecordMark(t)
           \/ RecordCancellation(t) \/ RecordReview(t) \/ RecordSettlement(t)
    PROVE  MirrorInv'
<1> DEFINE op == tab[t].op
           id == tab[t].id
<1>1. tab[t] \in TabRecord /\ Knows(tab[t], chain, rows, work)
  BY DEF MirrorInv, TabInv, TabsKnow
<1>2. op \in Calls /\ tab[t].step \in {"recording", "updating", "reviewing"} =>
        /\ id \in EscrowIds /\ rows[id] # "none"
        /\ StatusAfter[op] \in chain[id].past
        /\ StatusAfter[op] \in EscrowStatus \ {"created"}
  BY <1>1 DEF Knows, Calls, Creations, StatusAfter, EscrowStatus
<1>4. CASE RecordStatus(t)
  <2>1. op \in Calls /\ tab[t].step \in {"recording", "updating", "reviewing"}
    BY <1>4 DEF RecordStatus, Calls
  <2>2. Grows /\ DataInv'
    <3>1. CASE Blocked(op, id)
      BY <1>4, <3>1, DataStay
         DEF RecordStatus, MirrorInv, chainVars, workVars, WorkStays
    <3>2. CASE ~Blocked(op, id)
      <4>1. /\ Patch(id, StatusAfter[op])
            /\ UNCHANGED <<chain, freelancer, work, reputation>>
        BY <1>4, <3>2 DEF RecordStatus, chainVars, workVars
      <4> QED  BY <1>2, <2>1, <4>1, PatchLemma DEF MirrorInv
    <3> QED  BY <3>1, <3>2
  <2>3. LateInv' /\ RestType'
    <3>1. late' = late /\ dispute' = dispute
      BY <1>4 DEF RecordStatus, chainVars
    <3>2. agreement' \in {"pending", "accepted", "locked"}
      BY <1>4 DEF RecordStatus, LockAccepted, MirrorInv, RestType
    <3> QED  BY <2>2, <3>1, <3>2 DEF MirrorInv, LateInv, RestType, Grows
  <2>4. TabInv'
    <3>1. CASE Stop(t)
      BY <2>2, <3>1, TabStops DEF MirrorInv
    <3>2. CASE op = "release" /\ Start(t, op, "reviewing", id)
      <4>1. tab[t].step = "recording"
        BY <1>4, <3>2 DEF RecordStatus
      <4>2. Knows(tab[t], chain', rows', work')
        BY <1>1, <2>2, KnowledgeLasts
      <4>3. Knows([op |-> op, step |-> "reviewing", id |-> id, read |-> None],
                  chain', rows', work')
        BY <3>2, <4>1, <4>2 DEF Knows, Calls, Creations
      <4> QED  BY <1>2, <2>1, <2>2, <3>2, <4>3, TabStarts DEF MirrorInv, Sent
    <3> QED  BY <1>4, <3>1, <3>2 DEF RecordStatus
  <2> QED  BY <2>2, <2>3, <2>4 DEF MirrorInv
<1>5. CASE RecordMark(t)
  <2>1. op \in Calls /\ op = "dispute" /\ tab[t].step = "recording"
    BY <1>5 DEF RecordMark, Calls
  <2>2. Grows /\ DataInv' /\ LateInv' /\ RestType'
    BY <1>5, NothingMoves DEF RecordMark
  <2>3. CASE Stop(t)
    BY <2>2, <2>3, TabStops DEF MirrorInv
  <2>4. CASE Start(t, "dispute", "updating", id)
    <3>1. Knows(tab[t], chain', rows', work')
      BY <1>1, <2>2, KnowledgeLasts
    <3>2. Knows([op |-> "dispute", step |-> "updating", id |-> id,
                 read |-> None], chain', rows', work')
      BY <2>1, <3>1 DEF Knows, Calls, Creations
    <3> QED  BY <1>2, <2>1, <2>2, <2>4, <3>2, TabStarts DEF MirrorInv, Sent
  <2> QED  BY <1>5, <2>3, <2>4 DEF RecordMark
<1>6. CASE RecordCancellation(t)
  <2>1. op \in Calls /\ StatusAfter[op] = "cancelled"
    BY <1>6 DEF RecordCancellation, Calls, StatusAfter
  <2>2. Grows /\ DataInv'
    BY <1>2, <1>6, <2>1, PatchLemma
       DEF RecordCancellation, MirrorInv, chainVars, workVars
  <2>3. LateInv' /\ RestType'
    BY <1>6, <2>2, RestLasts DEF MirrorInv, RecordCancellation, RestStays, chainVars
  <2> QED  BY <1>6, <2>2, <2>3, TabStops DEF RecordCancellation, MirrorInv
<1>7. CASE RecordReview(t)
  <2>1. id \in EscrowIds /\ chain[id].completion
    BY <1>1, <1>7 DEF RecordReview, Knows, Creations
  <2>2. Grows /\ DataInv'
    BY <1>7, <2>1, ReviewLemma
       DEF RecordReview, MirrorInv, chainVars, workVars, WorkStays
  <2>3. LateInv' /\ RestType'
    BY <1>7, <2>2, RestLasts DEF MirrorInv, RecordReview, RestStays, chainVars
  <2> QED  BY <1>7, <2>2, <2>3, TabStops DEF RecordReview, MirrorInv
<1>8. CASE RecordSettlement(t)
  <2>1. op \in Calls /\ tab[t].step = "recording"
    BY <1>8 DEF RecordSettlement, Calls
  <2>2. Grows /\ DataInv'
    <3>1. CASE UNCHANGED <<rows, job, dispute>>
      BY <1>8, <3>1, DataStay
         DEF RecordSettlement, MirrorInv, chainVars, workVars, WorkStays
    <3>2. CASE Patch(id, StatusAfter[op])
      <4>1. UNCHANGED <<chain, freelancer, work, reputation>>
        BY <1>8 DEF RecordSettlement, chainVars, workVars
      <4> QED  BY <1>2, <2>1, <3>2, <4>1, PatchLemma DEF MirrorInv
    <3> QED  BY <1>8, <3>1, <3>2 DEF RecordSettlement
  <2>3. LateInv' /\ RestType'
    BY <1>2, <1>8, <2>1, <2>2
       DEF MirrorInv, RecordSettlement, LateInv, RestType, Grows, chainVars
  <2> QED  BY <1>8, <2>2, <2>3, TabStops DEF RecordSettlement, MirrorInv
<1> QED  BY <1>4, <1>5, <1>6, <1>7, <1>8

\* A sync: what it applies, it has read on the ledger.
LEMMA SyncKeeps ==
    ASSUME MirrorInv, NEW t \in Tabs,
           \/ ReadStatus(t) \/ ReadCompletion(t)
           \/ ApplyStatus(t) \/ ApplyCompletion(t)
    PROVE  MirrorInv'
<1> DEFINE id == tab[t].id
<1>1. tab[t] \in TabRecord /\ Knows(tab[t], chain, rows, work)
  BY DEF MirrorInv, TabInv, TabsKnow
<1>2. tab[t].op \in {"sync", "sync_reputation"} =>
        id \in EscrowIds /\ rows[id] # "none" /\ rows[id] \in chain[id].past
  BY <1>1 DEF Knows, Creations, MirrorInv, DataInv, MirrorNeverAhead, RowIds
<1>3. ASSUME NEW op \in {"sync", "sync_reputation"},
             NEW value \in EscrowStatus \cup {None}, Read(t, op, value),
             op = "sync" => value \in chain[id].past,
             op = "sync_reputation" => chain[id].completion
      PROVE  MirrorInv'
  <2>1. Grows /\ DataInv' /\ LateInv' /\ RestType'
    BY <1>3, NothingMoves DEF Read
  <2> DEFINE r == [op |-> op, step |-> "applying", id |-> id, read |-> value]
  <2>2. r \in TabRecord /\ tab' = [tab EXCEPT ![t] = r]
    BY <1>1, <1>3 DEF TabRecord, Read, MirrorInv, TabInv
  <2>3. Knows(r, chain', rows', work')
    BY <1>2, <1>3 DEF Knows, Read, chainVars, convexVars, Calls, Creations
  <2> QED  BY <2>1, <2>2, <2>3, OneTabMoves DEF MirrorInv
<1>4. CASE ReadStatus(t)
  <2>1. tab[t].op = "sync" /\ id \in EscrowIds /\ chain[id].past # {}
    BY <1>2, <1>4 DEF ReadStatus, Read
  <2>2. chain[id].status # "none" /\ chain[id].status \in chain[id].past
        /\ chain[id].status \in EscrowStatus
    BY <2>1 DEF MirrorInv, DataInv, DataType, ChainKeepsPast
  <2> QED  BY <1>3, <1>4, <2>2 DEF ReadStatus
<1>5. CASE ReadCompletion(t)
  BY <1>3, <1>5 DEF ReadCompletion
<1>6. CASE ApplyStatus(t)
  <2>1. id \in EscrowIds /\ rows[id] # "none" /\ tab[t].read \in chain[id].past
    BY <1>1, <1>2, <1>6 DEF ApplyStatus, Knows
  <2>2. tab[t].read \in EscrowStatus
    BY <2>1 DEF MirrorInv, DataInv, DataType
  <2>3. Grows /\ DataInv'
    <3>1. CASE UNCHANGED <<rows, job>>
      BY <1>6, <3>1, DataStay
         DEF ApplyStatus, MirrorInv, chainVars, workVars, WorkStays
    <3>2. CASE IsSafeStatusUpdate(rows[id], tab[t].read)
               /\ Patch(id, tab[t].read)
      <4>1. tab[t].read # "created"
        BY <2>1, <3>2 DEF IsSafeStatusUpdate, StatusRank, TerminalStatus,
              MirrorInv, DataInv, DataType, EscrowStatus
      <4>2. UNCHANGED <<chain, freelancer, work, reputation>>
        BY <1>6 DEF ApplyStatus, chainVars, workVars
      <4> QED  BY <2>1, <2>2, <3>2, <4>1, <4>2, PatchLemma DEF MirrorInv
    <3> QED  BY <1>6, <3>1, <3>2 DEF ApplyStatus
  <2>4. LateInv' /\ RestType'
    BY <1>6, <2>3, RestLasts DEF MirrorInv, ApplyStatus, RestStays, chainVars
  <2> QED  BY <1>6, <2>3, <2>4, TabStops DEF ApplyStatus, MirrorInv
<1>7. CASE ApplyCompletion(t)
  <2>1. id \in EscrowIds /\ chain[id].completion
    BY <1>1, <1>2, <1>7 DEF ApplyCompletion, Knows
  <2>2. Grows /\ DataInv'
    BY <1>7, <2>1, ReviewLemma
       DEF ApplyCompletion, MirrorInv, chainVars, workVars, WorkStays
  <2>3. LateInv' /\ RestType'
    BY <1>7, <2>2, RestLasts DEF MirrorInv, ApplyCompletion, RestStays, chainVars
  <2> QED  BY <1>7, <2>2, <2>3, TabStops DEF ApplyCompletion, MirrorInv
<1> QED  BY <1>4, <1>5, <1>6, <1>7

\* Disputes move by themselves.
LEMMA DisputeKeeps ==
    ASSUME MirrorInv, NEW id \in EscrowIds, DisputeStep(id)
    PROVE  MirrorInv'
<1>1. /\ UNCHANGED <<chain, rows, reputation, late, agreement, tab>>
      /\ WorkStays /\ RestType'
  BY DEF MirrorInv, DisputeStep, OpenDispute, ChangeDisputeStatus, RestType,
         chainVars, workVars, WorkStays
<1>2. Grows /\ DataInv'
  BY <1>1, DataStay DEF MirrorInv
<1> QED  BY <1>1, <1>2, TabsStay DEF MirrorInv, LateInv, Grows

\* What a step of the hiring or of the work has to keep.
LEMMA WorkOnly ==
    ASSUME MirrorInv, UNCHANGED <<chain, rows, reputation, late, dispute, tab>>,
           agreement' \in {"pending", "accepted", "locked"}, Grows /\ DataInv'
    PROVE  MirrorInv'
BY TabsStay DEF MirrorInv, LateInv, RestType, Grows

\* The freelancer is selected, given up, or agrees.
LEMMA HiringKeeps ==
    ASSUME MirrorInv, HiringStep
    PROVE  MirrorInv'
<1>1. DataInv /\ DataType /\ RestType
  BY DEF MirrorInv, DataInv
<1>2. CASE AdvanceAgreement
  <2>1. UNCHANGED <<chain, rows, reputation, late, dispute, tab>> /\ WorkStays
        /\ agreement' \in {"pending", "accepted", "locked"}
    BY <1>2 DEF AdvanceAgreement, chainVars, workVars, WorkStays
  <2> QED  BY <1>1, <2>1, DataStay, WorkOnly
<1>3. CASE SelectFreelancer \/ AbandonAgreement
  <2>1. /\ UNCHANGED <<chain, rows, reputation, late, dispute, agreement, work, tab>>
        /\ job \in {"open", "selected"} /\ job' \in {"open", "selected"}
    BY <1>3 DEF SelectFreelancer, AbandonAgreement, chainVars
  <2>2. /\ freelancer' \in [job : BOOLEAN, row : {"none", "named", "assigned"}]
        /\ freelancer'.row = freelancer.row
    BY <1>1, <1>3 DEF SelectFreelancer, AbandonAgreement, DataType
  <2>3. JobFollowsEscrow'
    <3>1. ASSUME NEW id \in RowIds PROVE JobStandsApart(id)'
      <4>1. rows[id] \in EscrowStatus
        BY <1>1 DEF DataType, RowIds
      <4>2. JobStandsApart(id)
        BY <1>1, <2>1, <4>1 DEF DataInv, JobFollowsEscrow,
           JobStatusFromEscrowStatus, EscrowStatus
      <4> QED  BY <2>1, <2>2, <4>2 DEF JobStandsApart
    <3> QED  BY <2>1, <3>1 DEF JobFollowsEscrow, RowIds
  <2>4. NoEscrowYet'
    BY <1>1, <2>1, <2>2 DEF DataInv, NoEscrowYet, RowIds
  <2>5. job' \in JobStatus /\ (HasProof => HasProof')
        /\ work' \in WorkStatus
    BY <1>1, <2>1 DEF JobStatus, HasProof, DataType
  <2>6. Grows /\ DataInv'
    BY <1>1, <2>1, <2>2, <2>3, <2>4, <2>5, WorkMoves
  <2>7. agreement' \in {"pending", "accepted", "locked"}
    BY <1>1, <2>1 DEF RestType
  <2> QED  BY <2>1, <2>6, <2>7, WorkOnly
<1> QED  BY <1>2, <1>3 DEF HiringStep

\* The job is written beside its escrow: by a proof, by a revision, or by a
\* cancellation without the ledger, which never meets work with valid proof.
LEMMA WorkKeeps ==
    ASSUME MirrorInv, WorkStep
    PROVE  MirrorInv'
<1>1. DataInv /\ DataType /\ RestType
  BY DEF MirrorInv, DataInv
<1>2. UNCHANGED <<chain, rows, reputation, late, dispute, agreement, freelancer, tab>>
  BY DEF WorkStep, Draft, HandIn, RequestRevision, SubmitRevision, AcceptPreview,
         EndRevision, LeaveRevision, CancelOffLedger, SetWork, chainVars, workVars
<1>3. /\ job' \in JobStatus /\ (HasProof => HasProof')
      /\ work' \in WorkStatus
  BY <1>1 DEF WorkStep, Draft, HandIn, RequestRevision, SubmitRevision,
     AcceptPreview, EndRevision, LeaveRevision, CancelOffLedger, SetWork,
     JobStatus, HasProof, WorkStatus, DataType, workVars
<1>4. NoEscrowYet'
  <2>1. work # "none" => RowIds # {} /\ freelancer.row # "none"
    BY <1>1 DEF DataInv, NoEscrowYet
  <2>2. RowIds' = RowIds /\ freelancer' = freelancer
    BY <1>2 DEF RowIds
  <2>3. CASE CancelOffLedger
    BY <1>1, <2>2, <2>3 DEF CancelOffLedger, DataInv, NoEscrowYet, workVars
  <2>4. CASE Draft
    <3>1. freelancer.row # "none" /\ RowIds # {}
      BY <2>4 DEF Draft
    <3> QED  BY <2>2, <3>1 DEF NoEscrowYet
  <2>5. ASSUME ~Draft, ~CancelOffLedger
        PROVE  work # "none"
    BY <2>5 DEF WorkStep, HandIn, RequestRevision, SubmitRevision,
       AcceptPreview, EndRevision, LeaveRevision, SetWork
  <2> QED  BY <2>1, <2>2, <2>3, <2>4, <2>5 DEF NoEscrowYet
<1>5. ASSUME NEW id \in RowIds
      PROVE  (job = JobStatusFromEscrowStatus(rows[id]) \/ JobStandsApart(id))'
  <2>1. job = JobStatusFromEscrowStatus(rows[id]) \/ JobStandsApart(id)
    BY <1>1 DEF DataInv, JobFollowsEscrow
  <2>2. rows'[id] = rows[id] /\ freelancer' = freelancer
    BY <1>2
  <2>3. CASE job' = job
    BY <1>3, <2>1, <2>2, <2>3 DEF JobStandsApart
  <2>4. CASE HasProof' /\ job' = "submitted"
    BY <2>4 DEF JobStandsApart
  <2>5. CASE RequestRevision \/ SubmitRevision
    <3>1. HasProof' /\ rows[id] \notin TerminalStatus
      BY <2>5 DEF RequestRevision, SubmitRevision, LeaveRevision, WorkGoesOn,
            SetWork, HasProof
    <3>2. job' \in {"revision_requested", "revision_submitted", "submitted"}
      BY <2>5 DEF RequestRevision, SubmitRevision
    <3> QED  BY <2>2, <3>1, <3>2 DEF JobStandsApart
  <2>6. CASE CancelOffLedger
    <3>1. id \in EscrowIds /\ rows[id] \in chain[id].past
      BY <1>1 DEF RowIds, DataInv, MirrorNeverAhead
    <3>2. ASSUME rows[id] = "submitted"
          PROVE  FALSE
      <4>1. HasProof
        BY <1>1, <3>1, <3>2 DEF DataInv, ProofComesFirst
      <4>2. freelancer.row # "none"
        BY <1>1, <4>1 DEF DataInv, NoEscrowYet, HasProof
      <4> QED  BY <2>6, <3>2, <4>2 DEF CancelOffLedger, IsWorkStarted
    <3>3. rows'[id] = "disputed" /\ job' = "cancelled"
      BY <2>2, <2>6, <3>2 DEF CancelOffLedger
    <3> QED  BY <3>3 DEF JobStandsApart
  <2>7. CASE HandIn \/ AcceptPreview
    BY <2>3, <2>4, <2>7 DEF HandIn, AcceptPreview, SetWork, HasProof
  <2>8. CASE Draft \/ EndRevision
    BY <2>3, <2>8 DEF Draft, EndRevision
  <2> QED  BY <2>5, <2>6, <2>7, <2>8 DEF WorkStep
<1>6. JobFollowsEscrow'
  BY <1>2, <1>5 DEF JobFollowsEscrow, RowIds
<1>7. freelancer' \in [job : BOOLEAN, row : {"none", "named", "assigned"}]
  BY <1>1, <1>2 DEF DataType
<1>8. Grows /\ DataInv'
  BY <1>1, <1>2, <1>3, <1>4, <1>6, <1>7, WorkMoves
<1> QED  BY <1>1, <1>2, <1>8, WorkOnly DEF RestType

-----------------------------------------------------------------------------
(* The invariant, and what follows from it.                                 *)

\* The invariant holds at first.
LEMMA MirrorInvInit == Init => MirrorInv
<1> SUFFICES ASSUME Init PROVE MirrorInv
  OBVIOUS
<1>1. DataInv
  <2>1. RowIds = {}
    BY DEF Init, RowIds
  <2> QED  BY <2>1 DEF Init, DataInv, DataType, ChainKeepsPast, RowIsUnique,
              MirrorNeverAhead, JobFollowsEscrow, ProofComesFirst, NoEscrowYet,
              JobStatus, WorkStatus
<1>2. TabInv
  <2>1. PICK posting \in SUBSET ClientTabs :
          tab = [t \in Tabs |->
                   IF t \in posting
                     THEN [op |-> "post", step |-> "sending", id |-> None,
                           read |-> None]
                     ELSE Idle]
    BY DEF Init
  <2>2. Idle \in TabRecord /\ Knows(Idle, chain, rows, work)
    BY DEF Idle, TabRecord, Knows, Calls, Creations
  <2> DEFINE post == [op |-> "post", step |-> "sending", id |-> None, read |-> None]
  <2>3. post \in TabRecord /\ Knows(post, chain, rows, work)
    BY DEF TabRecord, Knows, Calls, Creations, Sent
  <2> HIDE DEF post
  <2>4. tab = [t \in Tabs |-> IF t \in posting THEN post ELSE Idle]
    BY <2>1 DEF post
  <2>5. ASSUME NEW t \in Tabs
        PROVE  tab[t] \in TabRecord /\ Knows(tab[t], chain, rows, work)
    BY <2>2, <2>3, <2>4
  <2> QED  BY <2>4, <2>5 DEF TabInv, TabsKnow
<1>3. LateInv /\ RestType
  BY DEF Init, LateInv, RestType
<1> QED  BY <1>1, <1>2, <1>3 DEF MirrorInv

\* Every step keeps it.
LEMMA MirrorInvStep == MirrorInv /\ [Next]_vars => MirrorInv'
<1> SUFFICES ASSUME MirrorInv, [Next]_vars PROVE MirrorInv'
  OBVIOUS
<1>1. ASSUME NEW t \in Tabs, TabStep(t) PROVE MirrorInv'
  BY <1>1, PressKeeps, StopKeeps, ConfirmKeeps, RecordHiringKeeps, RecordKeeps
     DEF TabStep
<1>2. ASSUME NEW t \in Tabs, SyncStep(t) PROVE MirrorInv'
  BY <1>2, PressKeeps, StopKeeps, SyncKeeps DEF SyncStep
<1>3. CASE UNCHANGED vars
  <2>1. UNCHANGED <<chainVars, convexVars>> /\ tab' = tab
    BY <1>3 DEF vars
  <2> QED  BY <2>1, NothingMoves, TabsStay DEF MirrorInv
<1> QED  BY <1>1, <1>2, <1>3, LateKeeps, DisputeKeeps, HiringKeeps, WorkKeeps
         DEF Next

\* The inductive invariant, for any number of tabs and escrows.
THEOREM MirrorInvariant == Spec => []MirrorInv
BY MirrorInvInit, MirrorInvStep, PTL DEF Spec

\* Whatever the tabs do, the rows and the job have a status of their tables.
THEOREM MirrorTypeCorrect == Spec => []TypeOK
<1>1. MirrorInv => TypeOK
  <2> SUFFICES ASSUME MirrorInv PROVE TypeOK
    OBVIOUS
  <2>1. reputation \in [EscrowIds -> 0..2]
    BY DEF MirrorInv, DataInv, DataType
  <2> QED  BY <2>1 DEF MirrorInv, DataInv, DataType, LateInv, RestType, TabInv,
              TabRecord, Sent, TypeOK
<1> QED  BY <1>1, MirrorInvariant, PTL

\* The copy never shows a status that the escrow has not had: what a mutation
\* or a sync writes, its tab has seen confirmed or read on the ledger.
THEOREM NeverAhead == Spec => []MirrorNeverAhead
<1>1. MirrorInv => MirrorNeverAhead
  BY DEF MirrorInv, DataInv
<1> QED  BY <1>1, MirrorInvariant, PTL

\* The job shows what its escrow's row shows, or one of the statuses that the
\* handlers of the hiring, the work and the cancellation give it alone, in every
\* order of all of them: never paid, never disputed, when its escrow is not.
THEOREM JobFollows == Spec => []JobFollowsEscrow
<1>1. MirrorInv => JobFollowsEscrow
  BY DEF MirrorInv, DataInv
<1> QED  BY <1>1, MirrorInvariant, PTL

\* However many tabs create escrows at once, the job gets one row.
THEOREM OneEscrow == Spec => []OneEscrowPerJob
<1>1. MirrorInv => OneEscrowPerJob
  <2> SUFFICES ASSUME MirrorInv PROVE OneEscrowPerJob
    OBVIOUS
  <2>1. CASE RowIds = {}
    BY <2>1, FS_EmptySet DEF OneEscrowPerJob
  <2>2. ASSUME NEW id \in RowIds PROVE OneEscrowPerJob
    <3>1. RowIds = {id}
      BY <2>2 DEF RowIds, MirrorInv, DataInv, RowIsUnique
    <3>2. Cardinality({id}) = 1
      BY FS_Singleton
    <3> QED  BY <3>1, <3>2 DEF OneEscrowPerJob
  <2> QED  BY <2>1, <2>2
<1> QED  BY <1>1, MirrorInvariant, PTL

\* A review is recorded once, and only for an escrow the client approved.
THEOREM ReviewsEarned == Spec => []ReviewedOnceAndEarned
<1>1. MirrorInv => ReviewedOnceAndEarned
  BY DEF MirrorInv, DataInv, DataType, ReviewedOnceAndEarned
<1> QED  BY <1>1, MirrorInvariant, PTL

-----------------------------------------------------------------------------
(* What a sync does to the copy.                                            *)

\* A tab that applies what it read makes no other step than that.
LEMMA OnlyApplies ==
    ASSUME MirrorInv, [Next]_vars, NEW t \in Tabs,
           tab[t].step = "applying", tab'[t] # tab[t]
    PROVE  ApplyStatus(t) \/ ApplyCompletion(t)
<1>1. tab \in [Tabs -> TabRecord] /\ tab[t] # Idle
  BY DEF MirrorInv, TabInv, Idle
<1>2. PICK u \in Tabs : TabStep(u) \/ SyncStep(u)
  BY DEF Next, vars, ConfirmLate, Expire, DisputeStep, OpenDispute,
         ChangeDisputeStatus, HiringStep, SelectFreelancer, AbandonAgreement,
         AdvanceAgreement, WorkStep, Draft, HandIn, RequestRevision,
         SubmitRevision, AcceptPreview, EndRevision, LeaveRevision,
         CancelOffLedger, SetWork
<1>3. u = t
  <2>1. \E r : tab' = [tab EXCEPT ![u] = r]
    BY <1>2 DEF TabStep, SyncStep, PressCreate, PressAssign, Press, PressSync,
       Confirm, Refuse, LoseTrack, RecordCreation, RecordPosting,
       RecordAssignment, RecordStatus, RecordReview,
       RecordMark, RecordCancellation, RecordSettlement, Close, Read,
       ReadStatus, ReadCompletion, FailRead, ApplyStatus, ApplyCompletion,
       Start, Stop
  <2> QED  BY <1>1, <2>1
<1>4. ~TabStep(t)
  BY <1>1 DEF TabStep, PressCreate, PressAssign, Press, Confirm, Refuse,
     LoseTrack, RecordCreation, RecordPosting, RecordAssignment, RecordStatus,
     RecordReview, RecordMark, RecordCancellation, RecordSettlement, Close
<1> QED  BY <1>1, <1>2, <1>3, <1>4 DEF SyncStep, PressSync, Read, ReadStatus,
            ReadCompletion, FailRead

\* The server's ranks agree with the order of the lifecycle wherever a sync
\* may write.
LEMMA RanksAgree ==
    ASSUME NEW current \in EscrowStatus, NEW incoming \in EscrowStatus,
           current \notin TerminalStatus
    PROVE  IsSafeStatusUpdate(current, incoming)
             <=> Progress(incoming) > Progress(current)
BY DEF EscrowStatus, TerminalStatus, IsSafeStatusUpdate, StatusRank, Progress

\* What a sync is about to apply.
LEMMA SyncReading ==
    ASSUME MirrorInv, NEW t \in Tabs,
           tab[t].op = "sync", tab[t].step = "applying"
    PROVE  LET id == tab[t].id
           IN  /\ id \in RowIds
               /\ rows[id] \in EscrowStatus /\ rows[id] \in chain[id].past
               /\ tab[t].read \in EscrowStatus
<1> DEFINE id == tab[t].id
<1>1. Knows(tab[t], chain, rows, work)
  BY DEF MirrorInv, TabInv, TabsKnow
<1>2. id \in RowIds /\ tab[t].read \in chain[id].past
  BY <1>1 DEF Knows, Creations, RowIds
<1>3. rows[id] \in chain[id].past /\ chain[id].past \subseteq EscrowStatus
  BY <1>2 DEF MirrorInv, DataInv, DataType, MirrorNeverAhead, RowIds
<1> QED  BY <1>2, <1>3

\* A sync never sets the copy back, however old its reading is.
THEOREM SyncGoesForward == Spec => SyncNeverSetsBack
<1> DEFINE Forward ==
      \A t \in Tabs : tab[t].step = "applying" /\ tab'[t] # tab[t] =>
        \A id \in RowIds : rows'[id] # rows[id] =>
           Progress(rows'[id]) > Progress(rows[id])
<1>1. MirrorInv /\ [Next]_vars => Forward
  <2> SUFFICES ASSUME MirrorInv, [Next]_vars, NEW t \in Tabs,
                      tab[t].step = "applying", tab'[t] # tab[t],
                      NEW id \in RowIds, rows'[id] # rows[id]
               PROVE  Progress(rows'[id]) > Progress(rows[id])
    OBVIOUS
  <2>1. ApplyStatus(t)
    BY OnlyApplies DEF ApplyCompletion
  <2>2. /\ rows' = [rows EXCEPT ![tab[t].id] = tab[t].read]
        /\ IsSafeStatusUpdate(rows[tab[t].id], tab[t].read)
    BY <2>1 DEF ApplyStatus, Patch
  <2>3. id = tab[t].id /\ rows'[id] = tab[t].read
    BY <2>2 DEF MirrorInv, DataInv, DataType, RowIds
  <2>4. rows[id] \in EscrowStatus /\ tab[t].read \in EscrowStatus
    BY <2>1, <2>3, SyncReading DEF ApplyStatus
  <2> QED  BY <2>2, <2>3, <2>4, RanksAgree DEF IsSafeStatusUpdate
<1> QED  BY <1>1, MirrorInvariant, PTL DEF Spec, SyncNeverSetsBack

\* One sync with a reading that still holds repairs the copy, after any number
\* of lost, refused or late recordings.
THEOREM SyncRestores == Spec => SyncRepairs
<1> DEFINE Repairs ==
      \A t \in Tabs :
        LET id == tab[t].id
        IN  /\ tab[t].op = "sync" /\ tab[t].step = "applying"
            /\ tab'[t] # tab[t]
            /\ tab[t].read = chain[id].status
            /\ rows[id] # "disputed"
            => rows'[id] = chain[id].status
<1>1. MirrorInv /\ [Next]_vars => Repairs
  <2> SUFFICES ASSUME MirrorInv, [Next]_vars, NEW t \in Tabs,
                      tab[t].op = "sync", tab[t].step = "applying",
                      tab'[t] # tab[t],
                      tab[t].read = chain[tab[t].id].status,
                      rows[tab[t].id] # "disputed"
               PROVE  rows'[tab[t].id] = chain[tab[t].id].status
    OBVIOUS
  <2> DEFINE id == tab[t].id
  <2>1. ApplyStatus(t)
    BY OnlyApplies DEF ApplyCompletion
  <2>2. /\ id \in EscrowIds /\ rows[id] \in EscrowStatus
        /\ rows[id] \in chain[id].past /\ chain[id].status \in EscrowStatus
    BY SyncReading DEF RowIds
  <2>3. rows[id] = chain[id].status
        \/ Progress(rows[id]) < Progress(chain[id].status)
    BY <2>2 DEF MirrorInv, DataInv, ChainKeepsPast
  <2>4. rows[id] = chain[id].status \/ IsSafeStatusUpdate(rows[id], tab[t].read)
    <3>1. CASE rows[id] \in TerminalStatus
      BY <2>2, <2>3, <3>1 DEF TerminalStatus, Progress, EscrowStatus
    <3>2. CASE rows[id] \notin TerminalStatus
      BY <2>2, <2>3, <3>2, RanksAgree
    <3> QED  BY <3>1, <3>2
  <2> QED  BY <2>1, <2>2, <2>4
           DEF ApplyStatus, Patch, MirrorInv, DataInv, DataType
<1> QED  BY <1>1, MirrorInvariant, PTL DEF Spec, SyncRepairs

-----------------------------------------------------------------------------
(* The ledger seen from here implements Custody.                            *)

StageOf(status) ==
    CASE status = "none"      -> "none"
      [] status = "created"   -> "open"
      [] status = "disputed"  -> "disputed"
      [] status \in {"funded", "submitted"} -> "held"
      [] OTHER -> "closed"

StageView == [id \in EscrowIds |-> StageOf(chain[id].status)]
WorkerView == [id \in EscrowIds |-> chain[id].worker]

\* An escrow that changes changes one entry of the view.
LEMMA ViewMoves ==
    ASSUME DataType, NEW id \in EscrowIds, NEW now, NEW who,
           chain'[id].status = now, chain'[id].worker = who,
           \A i \in EscrowIds \ {id} : chain'[i] = chain[i]
    PROVE  /\ StageView' = [StageView EXCEPT ![id] = StageOf(now)]
           /\ WorkerView' = [WorkerView EXCEPT ![id] = who]
           /\ chain[id].worker = who => UNCHANGED WorkerView
           /\ StageOf(chain[id].status) = StageOf(now) => UNCHANGED StageView
           /\ StageView[id] = StageOf(chain[id].status)
           /\ WorkerView[id] = chain[id].worker
BY DEF StageView, WorkerView

\* The only steps of the ledger, by a tab or by a call in flight.
LEMMA LedgerSteps ==
    ASSUME MirrorInv, [Next]_vars
    PROVE  UNCHANGED chain \/ \E op \in Sent, id \in EscrowIds : TakeIn(op, id)
<1>1. ASSUME NEW t \in Tabs, Confirm(t)
      PROVE  \E op \in Sent, id \in EscrowIds : TakeIn(op, id)
  <2>1. Knows(tab[t], chain, rows, work)
    BY DEF MirrorInv, TabInv, TabsKnow
  <2>2. tab[t].op \in Sent
    BY <1>1, <2>1 DEF Knows, Confirm
  <2> QED  BY <1>1, <2>2 DEF Confirm
<1>2. ASSUME NEW tx \in late, ConfirmLate(tx)
      PROVE  \E op \in Sent, id \in EscrowIds : TakeIn(op, id)
  <2>1. tx.op \in Sent
    BY DEF MirrorInv, LateInv
  <2> QED  BY <1>2, <2>1 DEF ConfirmLate
<1>3. ASSUME NEW t \in Tabs, TabStep(t) \/ SyncStep(t), ~Confirm(t)
      PROVE  UNCHANGED chain
  BY <1>3 DEF TabStep, SyncStep, chainVars, PressCreate, PressAssign, Press,
     PressSync, Refuse, LoseTrack, RecordCreation, RecordPosting,
     RecordAssignment, RecordStatus, RecordReview, RecordMark,
     RecordCancellation, RecordSettlement, Close, Read,
     ReadStatus, ReadCompletion, FailRead, ApplyStatus, ApplyCompletion
<1>4. ASSUME \/ \E tx \in late : Expire(tx)
             \/ \E id \in EscrowIds : DisputeStep(id)
             \/ HiringStep \/ WorkStep
      PROVE  UNCHANGED chain
  BY <1>4 DEF Expire, DisputeStep, OpenDispute, ChangeDisputeStatus,
     HiringStep, SelectFreelancer, AbandonAgreement, AdvanceAgreement,
     WorkStep, Draft, HandIn, RequestRevision, SubmitRevision, AcceptPreview,
     EndRevision, LeaveRevision, CancelOffLedger, SetWork, chainVars
<1>5. CASE UNCHANGED vars
  BY <1>5 DEF vars, chainVars
<1> QED  BY <1>1, <1>2, <1>3, <1>4, <1>5 DEF Next

LEMMA MirrorCustodyStep ==
    ASSUME MirrorInv, [Next]_vars
    PROVE  [Keeping!Next]_(<<StageView, WorkerView>>)
<1> USE DEF Keeping!Move
<1>0. DataType
  BY DEF MirrorInv, DataInv
<1>1. CASE UNCHANGED chain
  BY <1>1 DEF StageView, WorkerView
<1>2. ASSUME NEW id \in EscrowIds, NEW op \in Creations, Allocate(id, op)
      PROVE  Keeping!Next
  <2> DEFINE who == IF op = "post" THEN "nobody" ELSE "freelancer"
  <2>1. /\ chain[id].status = "none" /\ chain'[id].status = CreatedAs(op)
        /\ chain'[id].worker = who
        /\ \A i \in EscrowIds \ {id} : chain'[i] = chain[i]
    BY <1>0, <1>2 DEF Allocate, CreatedAs, Unused, DataType
  <2>2. /\ StageView' = [StageView EXCEPT ![id] = StageOf(CreatedAs(op))]
        /\ WorkerView' = [WorkerView EXCEPT ![id] = who]
        /\ StageView[id] = "none"
    BY <1>0, <2>1, ViewMoves DEF StageOf
  <2>3. /\ who \in {"freelancer", "nobody"}
        /\ StageOf(CreatedAs(op)) \in {"open", "held"}
        /\ StageOf(CreatedAs(op)) = "held" => who = "nobody"
    BY DEF StageOf, CreatedAs
  <2>4. Keeping!Create(id, StageOf(CreatedAs(op)), who)
    BY <2>2, <2>3 DEF Keeping!Create, StageView, WorkerView, StageOf
  <2> QED  BY <2>3, <2>4 DEF Keeping!Next
<1>3. ASSUME NEW id \in EscrowIds, Assign(id)
      PROVE  Keeping!Next
  <2>1. /\ chain'[id].status = chain[id].status
        /\ chain'[id].worker = "freelancer"
        /\ \A i \in EscrowIds \ {id} : chain'[i] = chain[i]
    BY <1>0, <1>3 DEF Assign, DataType
  <2>2. StageOf(chain[id].status) \in {"open", "held"}
        /\ chain[id].worker = "nobody"
    BY <1>3 DEF Assign, StageOf
  <2>3. /\ UNCHANGED StageView
        /\ WorkerView' = [WorkerView EXCEPT ![id] = "freelancer"]
        /\ StageView[id] \in {"open", "held"} /\ WorkerView[id] = "nobody"
    BY <1>0, <2>1, <2>2, ViewMoves
  <2>4. Keeping!Assign(id, "freelancer")
    BY <2>3 DEF Keeping!Assign, StageView, WorkerView, StageOf
  <2> QED  BY <2>4 DEF Keeping!Next
<1>4. ASSUME NEW op \in Calls, NEW id \in EscrowIds,
             IsAccepted(op, id), Execute(op, id)
      PROVE  [Keeping!Next]_(<<StageView, WorkerView>>)
  <2> DEFINE was == chain[id].status
             now == StatusAfter[op]
  <2>1. /\ chain'[id].status = now
        /\ chain'[id].worker = chain[id].worker
        /\ \A i \in EscrowIds \ {id} : chain'[i] = chain[i]
    BY <1>0, <1>4 DEF Execute, DataType
  <2>2. \/ StageOf(was) = "open" /\ StageOf(now) = "held"
        \/ /\ StageOf(was) = "held" /\ StageOf(now) = "disputed"
           /\ op = "dispute"
        \/ StageOf(was) = "held" /\ StageOf(now) = "held"
        \/ /\ StageOf(was) \in {"open", "held", "disputed"}
           /\ StageOf(now) = "closed"
    BY <1>4 DEF IsAccepted, ContractAccepts, StatusAfter, Calls, StageOf
  <2>3. op = "dispute" => chain[id].worker = "freelancer"
    BY <1>4 DEF IsAccepted
  <2> HIDE DEF was, now
  <2>4. /\ StageView' = [StageView EXCEPT ![id] = StageOf(now)]
        /\ UNCHANGED WorkerView
        /\ StageOf(was) = StageOf(now) => UNCHANGED StageView
        /\ StageView[id] = StageOf(was) /\ WorkerView[id] = chain[id].worker
    BY <1>0, <2>1, ViewMoves DEF was
  <2>5. CASE StageOf(was) = "open" /\ StageOf(now) = "held"
    <3>1. Keeping!Fund(id)
      BY <2>4, <2>5 DEF Keeping!Fund, StageView, WorkerView, StageOf
    <3> QED  BY <3>1 DEF Keeping!Next
  <2>6. CASE StageOf(was) = "held" /\ StageOf(now) = "disputed" /\ op = "dispute"
    <3>1. WorkerView[id] # "nobody"
      BY <2>3, <2>4, <2>6
    <3>2. Keeping!Dispute(id)
      BY <2>4, <2>6, <3>1 DEF Keeping!Dispute, StageView, WorkerView, StageOf
    <3> QED  BY <3>2 DEF Keeping!Next
  <2>7. CASE StageOf(was) \in {"open", "held", "disputed"} /\ StageOf(now) = "closed"
    <3>1. Keeping!Close(id)
      BY <2>4, <2>7 DEF Keeping!Close, StageView, WorkerView, StageOf
    <3> QED  BY <3>1 DEF Keeping!Next
  <2>8. CASE StageOf(was) = StageOf(now)
    BY <2>4, <2>8
  <2> QED  BY <2>2, <2>5, <2>6, <2>7, <2>8
<1> QED  BY <1>1, <1>2, <1>3, <1>4, LedgerSteps DEF TakeIn

\* Two tabs at once, a late call and a retry of a call whose outcome was lost
\* move the ledger only as the contract promises: the guards that this module
\* gives the contract let no escrow be paid, refunded or funded twice, and no
\* freelancer be replaced.
THEOREM MirrorKeepsCustody == Spec => KeepsCustody
<1>1. Init => Keeping!Init
  BY DEF Init, Keeping!Init
<1>2. MirrorInv /\ [Next]_vars => [Keeping!Next]_(Keeping!vars)
  BY MirrorCustodyStep DEF Keeping!vars, StageView, WorkerView, StageOf
<1> QED  BY <1>1, <1>2, MirrorInvariant, PTL
         DEF Spec, KeepsCustody, Keeping!Spec, Keeping!Kept
=============================================================================
