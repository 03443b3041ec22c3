------------------------ MODULE WorkAgreementsProofs ------------------------
(***************************************************************************)
(* The safety of WorkAgreements for any number of agreements, texts,       *)
(* freelancers and versions, and that it implements AgreedTerms.           *)
(*                                                                         *)
(* The inductive invariant adds to the properties what they rest on: whose *)
(* the version rows are, that what is sent has terms, and when the         *)
(* selection of the job may still change.  Its parts take the state as     *)
(* arguments, so that a step that changes two agreements, or an agreement  *)
(* and the selection, is two changes one after the other.                  *)
(***************************************************************************)
EXTENDS WorkAgreements, TLAPS

InPlay(ag, a) == ag[a] # None /\ ag[a].status \notin NonBlockingStatuses
Stands(ag, a) == ag[a] # None /\ ag[a].status \in AcceptedStatuses

AgreementsType(ag) == ag \in [Agreements -> AgreementRows \cup {None}]

VersionsType(vs) ==
    vs \subseteq [agreement : Agreements, number : 1..MaxVersion,
                  status : AcceptedStatuses, text : Texts, snapshot : Deals]

OneInPlay(ag) ==
    \A a, b \in Agreements : InPlay(ag, a) /\ InPlay(ag, b) => a = b

Committed(ag, selected) ==
    \A a \in Agreements : InPlay(ag, a) /\ ag[a].freelancer # None =>
        ag[a].freelancer = selected

VersionOf(a, r) == [agreement |-> a, number |-> r.version, status |-> r.status,
                    text |-> r.text, snapshot |-> r.snapshot]

\* The version rows of the agreement a in the set vs.
RowsIn(vs, ag, a) == {v \in vs : v.agreement = a /\ v.number = ag[a].version}

CopiesAgree(ag, vs) ==
    \A a \in Agreements : Stands(ag, a) =>
        /\ ag[a].snapshot = [text |-> ag[a].text, freelancer |-> ag[a].freelancer]
        /\ RowsIn(vs, ag, a) = {VersionOf(a, ag[a])}

\* Only an agreement that was accepted has version rows.
VersionsHaveOwners(ag, vs) ==
    \A v \in vs : /\ ag[v.agreement] # None
                  /\ ag[v.agreement].status \in AcceptedStatuses \cup {"cancelled"}

\* What waits for the freelancer's answer has terms.
SentIsComplete(ag) ==
    \A a \in Agreements :
        ag[a] # None /\ ag[a].status = "pending_acceptance" => ag[a].text # None

AgreementsOK(ag, vs, selected) ==
    /\ AgreementsType(ag) /\ VersionsType(vs)
    /\ OneInPlay(ag) /\ Committed(ag, selected)
    /\ CopiesAgree(ag, vs) /\ VersionsHaveOwners(ag, vs) /\ SentIsComplete(ag)

\* An open job has nobody selected, and neither has a posted escrow whose
\* assignment is not recorded yet.
SelectionOK ==
    /\ job.status = "open" => job.freelancer = None
    /\ row.status = "none" => row.freelancer = None
    /\ row.status # "none" /\ row.freelancer = None =>
         /\ ledger.status # "none" /\ job.status \notin {"open", "selected"}
         /\ ledger.freelancer # None => job.freelancer = None

EscrowType ==
    /\ job \in [status : JobStatuses, freelancer : Freelancers \cup {None}]
    /\ ledger \in [status : {"none", "created", "held", "closed"},
                   freelancer : Freelancers \cup {None}]
    /\ row \in [status : {"none", "created", "funded", "submitted",
                          "disputed", "closed"},
                freelancer : Freelancers \cup {None}]

IInv ==
    /\ EscrowType /\ SelectionOK
    /\ AgreementsOK(agreements, versions, job.freelancer)
-----------------------------------------------------------------------------
(* What a change of one agreement does to the agreements.                   *)

\* A change that accepts nothing: the new row is not accepted, and unless it
\* is cancelled the old one had no version rows.
LEMMA UpdateKeeps ==
    ASSUME NEW ag, NEW vs, NEW selected, AgreementsOK(ag, vs, selected),
           NEW a \in Agreements, NEW r \in AgreementRows,
           r.status \notin AcceptedStatuses,
           r.status = "cancelled" \/ ag[a] = None
             \/ ag[a].status \notin AcceptedStatuses \cup {"cancelled"},
           r.status \notin NonBlockingStatuses =>
             InPlay(ag, a) \/ \A b \in Agreements : ~InPlay(ag, b),
           r.status \notin NonBlockingStatuses /\ r.freelancer # None =>
             r.freelancer = selected,
           r.status = "pending_acceptance" => r.text # None
    PROVE  AgreementsOK([ag EXCEPT ![a] = r], vs, selected)
<1> DEFINE new == [ag EXCEPT ![a] = r]
<1>0. /\ AgreementsType(ag) /\ VersionsType(vs)
      /\ OneInPlay(ag) /\ Committed(ag, selected) /\ CopiesAgree(ag, vs)
      /\ VersionsHaveOwners(ag, vs) /\ SentIsComplete(ag)
  BY DEF AgreementsOK
<1>1. new[a] = r /\ \A b \in Agreements : b # a => new[b] = ag[b]
  BY <1>0 DEF AgreementsType
<1> HIDE DEF new
<1>2. AgreementsType(new)
  <2>1. new \in [Agreements -> AgreementRows \cup {None}]
    BY <1>0 DEF new, AgreementsType
  <2> QED
    BY <2>1 DEF AgreementsType
<1>3. OneInPlay(new)
  BY <1>0, <1>1 DEF OneInPlay, InPlay
<1>4. Committed(new, selected)
  BY <1>0, <1>1 DEF Committed, InPlay
<1>5. CopiesAgree(new, vs)
  <2> SUFFICES ASSUME NEW b \in Agreements, Stands(new, b)
               PROVE  /\ new[b].snapshot = [text |-> new[b].text,
                                            freelancer |-> new[b].freelancer]
                      /\ RowsIn(vs, new, b) = {VersionOf(b, new[b])}
    BY DEF CopiesAgree
  <2>1. b # a /\ new[b] = ag[b] /\ Stands(ag, b)
    BY <1>1 DEF Stands
  <2>2. RowsIn(vs, new, b) = RowsIn(vs, ag, b)
    BY <2>1 DEF RowsIn
  <2> QED
    BY <1>0, <2>1, <2>2 DEF CopiesAgree
<1>6. VersionsHaveOwners(new, vs)
  <2> SUFFICES ASSUME NEW v \in vs
               PROVE  /\ new[v.agreement] # None
                      /\ new[v.agreement].status
                           \in AcceptedStatuses \cup {"cancelled"}
    BY DEF VersionsHaveOwners
  <2>1. v.agreement \in Agreements
    BY <1>0 DEF VersionsType
  <2>2. /\ ag[v.agreement] # None
        /\ ag[v.agreement].status \in AcceptedStatuses \cup {"cancelled"}
    BY <1>0 DEF VersionsHaveOwners
  <2>3. CASE v.agreement = a
    <3>1. r # None
      BY WorkAgreementsConstants
    <3> QED
      BY <1>1, <2>2, <2>3, <3>1
  <2>4. CASE v.agreement # a
    BY <1>1, <2>1, <2>2, <2>4
  <2> QED
    BY <2>3, <2>4
<1>7. SentIsComplete(new)
  BY <1>0, <1>1 DEF SentIsComplete
<1>8. AgreementsOK(new, vs, selected)
  BY <1>0, <1>2, <1>3, <1>4, <1>5, <1>6, <1>7 DEF AgreementsOK
<1> QED
  BY <1>8 DEF new

\* The acceptance of an agreement and of its first version row.
LEMMA AcceptKeeps ==
    ASSUME NEW ag, NEW vs, NEW selected, AgreementsOK(ag, vs, selected),
           NEW a \in Agreements, NEW f \in Freelancers, NEW r,
           ag[a] # None, ag[a].status = "pending_acceptance",
           ag[a].freelancer = f,
           r = [ag[a] EXCEPT !.status = "accepted",
                             !.snapshot = [text |-> ag[a].text,
                                           freelancer |-> f]]
    PROVE  /\ RowsIn(vs, ag, a) = {}
           /\ AgreementsOK([ag EXCEPT ![a] = r], vs \cup {VersionOf(a, r)},
                           selected)
<1> DEFINE new == [ag EXCEPT ![a] = r]
           rows == vs \cup {VersionOf(a, r)}
<1>0. /\ AgreementsType(ag) /\ VersionsType(vs)
      /\ OneInPlay(ag) /\ Committed(ag, selected) /\ CopiesAgree(ag, vs)
      /\ VersionsHaveOwners(ag, vs) /\ SentIsComplete(ag)
  BY DEF AgreementsOK
<1>1. new[a] = r /\ \A b \in Agreements : b # a => new[b] = ag[b]
  BY <1>0 DEF AgreementsType
<1>2. ag[a] \in AgreementRows /\ ag[a].text \in Texts
  <2>1. ag[a] \in AgreementRows
    BY <1>0 DEF AgreementsType
  <2>2. ag[a].text # None
    BY <1>0 DEF SentIsComplete
  <2> QED
    BY <2>1, <2>2 DEF AgreementRows
<1>3. /\ r \in AgreementRows /\ r # None /\ r.status = "accepted"
      /\ r.text = ag[a].text /\ r.freelancer = f /\ r.version = ag[a].version
      /\ r.snapshot = [text |-> ag[a].text, freelancer |-> f]
  <2>1. [text |-> ag[a].text, freelancer |-> f] \in Deals
    BY <1>2 DEF Deals
  <2>2. r \in AgreementRows
    BY <1>2, <2>1 DEF AgreementRows, Statuses, AcceptedStatuses
  <2> QED
    BY <1>2, <2>2, WorkAgreementsConstants DEF AgreementRows
<1>4. \A v \in vs : v.agreement # a
  BY <1>0 DEF VersionsHaveOwners, AcceptedStatuses
<1>5. VersionOf(a, r) \in [agreement : Agreements, number : 1..MaxVersion,
                           status : AcceptedStatuses, text : Texts,
                           snapshot : Deals]
  BY <1>2, <1>3 DEF VersionOf, AgreementRows, AcceptedStatuses, Deals
<1>6. VersionOf(a, r).agreement = a /\ VersionOf(a, r).number = r.version
  BY DEF VersionOf
<1>7. RowsIn(vs, ag, a) = {}
  BY <1>4 DEF RowsIn
<1> HIDE DEF new, rows
<1>8. AgreementsType(new) /\ VersionsType(rows)
  <2>1. new \in [Agreements -> AgreementRows \cup {None}]
    BY <1>0, <1>3 DEF new, AgreementsType
  <2> QED
    BY <1>0, <1>5, <2>1 DEF rows, AgreementsType, VersionsType
<1>9. InPlay(ag, a) /\ InPlay(new, a)
  BY <1>1, <1>3 DEF InPlay, NonBlockingStatuses
<1>10. OneInPlay(new)
  BY <1>0, <1>1, <1>9 DEF OneInPlay, InPlay
<1>11. Committed(new, selected)
  <2>1. f # None
    BY WorkAgreementsConstants
  <2>2. f = selected
    BY <1>0, <1>9, <2>1 DEF Committed
  <2> QED
    BY <1>0, <1>1, <1>3, <2>2 DEF Committed, InPlay
<1>12. CopiesAgree(new, rows)
  <2> SUFFICES ASSUME NEW b \in Agreements, Stands(new, b)
               PROVE  /\ new[b].snapshot = [text |-> new[b].text,
                                            freelancer |-> new[b].freelancer]
                      /\ RowsIn(rows, new, b) = {VersionOf(b, new[b])}
    BY DEF CopiesAgree
  <2>1. CASE b = a
    <3>1. RowsIn(rows, new, a) = {VersionOf(a, r)}
      BY <1>1, <1>4, <1>6 DEF RowsIn, rows
    <3> QED
      BY <1>1, <1>3, <2>1, <3>1
  <2>2. CASE b # a
    <3>1. new[b] = ag[b] /\ Stands(ag, b)
      BY <1>1, <2>2 DEF Stands
    <3>2. RowsIn(rows, new, b) = RowsIn(vs, ag, b)
      BY <1>6, <2>2, <3>1 DEF RowsIn, rows
    <3> QED
      BY <1>0, <3>1, <3>2 DEF CopiesAgree
  <2> QED
    BY <2>1, <2>2
<1>13. VersionsHaveOwners(new, rows)
  <2>1. \A v \in vs : v.agreement \in Agreements
    BY <1>0 DEF VersionsType
  <2>2. \A v \in vs : new[v.agreement] = ag[v.agreement]
    BY <1>1, <1>4, <2>1
  <2>3. \A v \in rows : v \in vs \/ v.agreement = a
    BY <1>6 DEF rows
  <2> QED
    BY <1>0, <1>1, <1>3, <2>2, <2>3 DEF VersionsHaveOwners, AcceptedStatuses
<1>14. SentIsComplete(new)
  BY <1>0, <1>1, <1>3 DEF SentIsComplete
<1>15. AgreementsOK(new, rows, selected)
  BY <1>8, <1>10, <1>11, <1>12, <1>13, <1>14 DEF AgreementsOK
<1> QED
  BY <1>7, <1>15 DEF new, rows


\* The version rows after the lock of a.
LockedRows(vs, ag, a) ==
    {IF v \in RowsIn(vs, ag, a) THEN [v EXCEPT !.status = "locked"] ELSE v :
       v \in vs}

\* The lock of an accepted agreement and of its version row.
LEMMA LockKeeps ==
    ASSUME NEW ag, NEW vs, NEW selected, AgreementsOK(ag, vs, selected),
           NEW a \in Agreements, Stands(ag, a), NEW e \in BOOLEAN, NEW r,
           r = [ag[a] EXCEPT !.status = "locked", !.escrow = e]
    PROVE  AgreementsOK([ag EXCEPT ![a] = r], LockedRows(vs, ag, a), selected)
<1> DEFINE new == [ag EXCEPT ![a] = r]
           rows == LockedRows(vs, ag, a)
<1>0. /\ AgreementsType(ag) /\ VersionsType(vs)
      /\ OneInPlay(ag) /\ Committed(ag, selected) /\ CopiesAgree(ag, vs)
      /\ VersionsHaveOwners(ag, vs) /\ SentIsComplete(ag)
  BY DEF AgreementsOK
<1>1. new[a] = r /\ \A b \in Agreements : b # a => new[b] = ag[b]
  BY <1>0 DEF AgreementsType
<1>2. ag[a] \in AgreementRows
  BY <1>0 DEF AgreementsType, Stands
<1>3. /\ r \in AgreementRows /\ r # None /\ r.status = "locked"
      /\ r.text = ag[a].text /\ r.freelancer = ag[a].freelancer
      /\ r.version = ag[a].version /\ r.snapshot = ag[a].snapshot
  <2>1. r \in AgreementRows
    BY <1>2 DEF AgreementRows, Statuses, AcceptedStatuses
  <2> QED
    BY <1>2, <2>1, WorkAgreementsConstants DEF AgreementRows
<1>4. \A v \in vs : /\ v.agreement \in Agreements
                    /\ [v EXCEPT !.status = "locked"]
                         \in [agreement : Agreements, number : 1..MaxVersion,
                              status : AcceptedStatuses, text : Texts,
                              snapshot : Deals]
                    /\ [v EXCEPT !.status = "locked"].agreement = v.agreement
                    /\ [v EXCEPT !.status = "locked"].number = v.number
  BY <1>0 DEF VersionsType, AcceptedStatuses
<1>5. RowsIn(vs, ag, a) = {VersionOf(a, ag[a])}
  BY <1>0 DEF CopiesAgree
<1>6. /\ VersionOf(a, ag[a]) \in vs
      /\ [VersionOf(a, ag[a]) EXCEPT !.status = "locked"] = VersionOf(a, r)
  <2>1. VersionOf(a, ag[a]) \in vs
    BY <1>5 DEF RowsIn
  <2>2. [VersionOf(a, ag[a]) EXCEPT !.status = "locked"] = VersionOf(a, r)
    BY <1>3 DEF VersionOf
  <2> QED
    BY <2>1, <2>2
<1> HIDE DEF new
<1>7. \A w : w \in rows <=>
         \/ w \in vs /\ w \notin RowsIn(vs, ag, a)
         \/ w = VersionOf(a, r)
  BY <1>5, <1>6 DEF LockedRows
<1> HIDE DEF rows
<1>8. AgreementsType(new) /\ VersionsType(rows)
  <2>1. new \in [Agreements -> AgreementRows \cup {None}]
    BY <1>0, <1>3 DEF new, AgreementsType
  <2>2. VersionOf(a, r) \in [agreement : Agreements, number : 1..MaxVersion,
                             status : AcceptedStatuses, text : Texts,
                             snapshot : Deals]
    BY <1>4, <1>6
  <2>3. VersionsType(rows)
    BY <1>0, <1>7, <2>2 DEF VersionsType
  <2> QED
    BY <2>1, <2>3 DEF AgreementsType
<1>9. InPlay(ag, a) /\ InPlay(new, a)
  BY <1>1, <1>3 DEF InPlay, Stands, NonBlockingStatuses, AcceptedStatuses
<1>10. OneInPlay(new)
  BY <1>0, <1>1, <1>9 DEF OneInPlay, InPlay
<1>11. Committed(new, selected)
  BY <1>0, <1>1, <1>3, <1>9 DEF Committed, InPlay
<1>12. VersionOf(a, r).agreement = a /\ VersionOf(a, r).number = ag[a].version
  BY <1>3 DEF VersionOf
<1>13. CopiesAgree(new, rows)
  <2> SUFFICES ASSUME NEW b \in Agreements, Stands(new, b)
               PROVE  /\ new[b].snapshot = [text |-> new[b].text,
                                            freelancer |-> new[b].freelancer]
                      /\ RowsIn(rows, new, b) = {VersionOf(b, new[b])}
    BY DEF CopiesAgree
  <2>1. CASE b = a
    <3>1. RowsIn(rows, new, a) = {VersionOf(a, r)}
      BY <1>1, <1>3, <1>7, <1>12 DEF RowsIn
    <3>2. ag[a].snapshot = [text |-> ag[a].text,
                            freelancer |-> ag[a].freelancer]
      BY <1>0 DEF CopiesAgree
    <3> QED
      BY <1>1, <1>3, <2>1, <3>1, <3>2
  <2>2. CASE b # a
    <3>1. new[b] = ag[b] /\ Stands(ag, b)
      BY <1>1, <2>2 DEF Stands
    <3>2. RowsIn(rows, new, b) = RowsIn(vs, ag, b)
      BY <1>7, <1>12, <2>2, <3>1 DEF RowsIn
    <3> QED
      BY <1>0, <3>1, <3>2 DEF CopiesAgree
  <2> QED
    BY <2>1, <2>2
<1>14. VersionsHaveOwners(new, rows)
  <2> SUFFICES ASSUME NEW v \in rows
               PROVE  /\ new[v.agreement] # None
                      /\ new[v.agreement].status
                           \in AcceptedStatuses \cup {"cancelled"}
    BY DEF VersionsHaveOwners
  <2>1. CASE v.agreement = a
    BY <1>1, <1>3, <2>1 DEF AcceptedStatuses
  <2>2. CASE v.agreement # a
    <3>1. v \in vs
      BY <1>7, <1>12, <2>2
    <3> QED
      BY <1>0, <1>1, <1>4, <2>2, <3>1 DEF VersionsHaveOwners
  <2> QED
    BY <2>1, <2>2
<1>15. SentIsComplete(new)
  BY <1>0, <1>1, <1>3 DEF SentIsComplete
<1>16. AgreementsOK(new, rows, selected)
  BY <1>8, <1>10, <1>11, <1>13, <1>14, <1>15 DEF AgreementsOK
<1> QED
  BY <1>16 DEF new, rows

\* The selection may change while nobody is selected or nothing is in play.
LEMMA SelectKeeps ==
    ASSUME NEW ag, NEW vs, NEW old, NEW selected, AgreementsOK(ag, vs, old),
           old = None \/ \A a \in Agreements : ~InPlay(ag, a)
    PROVE  AgreementsOK(ag, vs, selected)
BY DEF AgreementsOK, Committed

-----------------------------------------------------------------------------
(* The deals under the agreements, as AgreedTerms sees them.                *)

Terms(r) == [text |-> r.text, freelancer |-> r.freelancer,
             status |-> r.status]

Deal(ag) == [a \in Agreements |-> IF Stands(ag, a) THEN Terms(ag[a]) ELSE None]

\* A change of one agreement changes its own deal only.
LEMMA DealOfUpdate ==
    ASSUME NEW ag, AgreementsType(ag), NEW a \in Agreements,
           NEW r \in AgreementRows
    PROVE  Deal([ag EXCEPT ![a] = r])
             = [Deal(ag) EXCEPT ![a] = IF r.status \in AcceptedStatuses
                                         THEN Terms(r) ELSE None]
<1>1. r # None
  BY WorkAgreementsConstants
<1> QED
  BY <1>1 DEF Deal, Stands, AgreementsType

\* The terms of an agreement that stands are not None.
LEMMA TermsAreTerms ==
    ASSUME NEW ag, NEW vs, NEW selected, AgreementsOK(ag, vs, selected),
           NEW a \in Agreements, Stands(ag, a)
    PROVE  /\ ag[a].text \in Texts /\ ag[a].freelancer \in Freelancers
           /\ Deal(ag)[a] = Terms(ag[a]) /\ Deal(ag)[a] # None
<1>1. RowsIn(vs, ag, a) = {VersionOf(a, ag[a])}
      /\ ag[a].snapshot = [text |-> ag[a].text,
                           freelancer |-> ag[a].freelancer]
  BY DEF AgreementsOK, CopiesAgree
<1>2. VersionOf(a, ag[a]) \in vs
  BY <1>1 DEF RowsIn
<1>3. VersionOf(a, ag[a]).snapshot \in Deals
  BY <1>2 DEF AgreementsOK, VersionsType
<1>4. ag[a].snapshot \in Deals
  BY <1>3 DEF VersionOf
<1>5. ag[a].text \in Texts /\ ag[a].freelancer \in Freelancers
  BY <1>1, <1>4 DEF Deals
<1>6. Terms(ag[a]) \in [text : Texts, freelancer : Freelancers,
                        status : AcceptedStatuses]
  BY <1>5 DEF Terms, Stands
<1> QED
  BY <1>5, <1>6, WorkAgreementsConstants DEF Deal

-----------------------------------------------------------------------------
(* The steps.  Each keeps the invariant, and does to the deals what a step  *)
(* of AgreedTerms does, or nothing.                                         *)

SameDeal == Deal(agreements') = Deal(agreements)

\* A change of one agreement that neither accepts it nor finds it accepted.
LEMMA DraftKeeps ==
    ASSUME IInv, NEW a \in Agreements, NEW r \in AgreementRows,
           agreements' = [agreements EXCEPT ![a] = r],
           UNCHANGED <<job, versions, ledger, row>>,
           r.status \notin AcceptedStatuses, ~Stands(agreements, a),
           r.status = "cancelled" \/ agreements[a] = None
             \/ agreements[a].status # "cancelled",
           r.status \notin NonBlockingStatuses =>
             InPlay(agreements, a) \/ \A b \in Agreements : ~InPlay(agreements, b),
           r.status \notin NonBlockingStatuses /\ r.freelancer # None =>
             r.freelancer = job.freelancer,
           r.status = "pending_acceptance" => r.text # None
    PROVE  IInv' /\ SameDeal
<1>1. AgreementsOK(agreements, versions, job.freelancer)
  BY DEF IInv
<1>2. AgreementsOK(agreements', versions, job.freelancer)
  BY <1>1, UpdateKeeps DEF Stands
<1>3. IInv'
  BY <1>2 DEF IInv, EscrowType, SelectionOK
<1>4. Deal(agreements') = [Deal(agreements) EXCEPT ![a] = None]
  BY <1>1, DealOfUpdate DEF AgreementsOK
<1>5. Deal(agreements)[a] = None
  BY DEF Deal
<1>6. SameDeal
  BY <1>4, <1>5 DEF SameDeal, Deal
<1> QED
  BY <1>3, <1>6

LEMMA RowTyped ==
    ASSUME IInv, NEW a \in Existing
    PROVE  a \in Agreements /\ agreements[a] # None
             /\ agreements[a] \in AgreementRows
BY DEF IInv, AgreementsOK, AgreementsType, Existing

LEMMA ActiveIsInPlay ==
    ASSUME Active = {}
    PROVE  \A b \in Agreements : ~InPlay(agreements, b)
BY DEF Active, Existing, InPlay

\* A row that buildBaseAgreementFields makes.
LEMMA NewAgreementTyped ==
    ASSUME IInv, NEW kind \in {"generated", "uploaded", "fileless"},
           NEW status \in Statuses, NEW text \in Texts \cup {None},
           NEW version \in 1..MaxVersion
    PROVE  /\ NewAgreement(kind, status, text, version) \in AgreementRows
           /\ NewAgreement(kind, status, text, version).status = status
           /\ NewAgreement(kind, status, text, version).freelancer
                = job.freelancer
BY DEF NewAgreement, AgreementRows, IInv, EscrowType

LEMMA CreateStep ==
    ASSUME IInv, NEW a \in Agreements, Create(a)
    PROVE  IInv' /\ SameDeal
<1>1. \A b \in Agreements : ~InPlay(agreements, b)
  BY ActiveIsInPlay DEF Create
<1>2. agreements[a] = None
  BY DEF Create, Existing
<1>3. PICK kind \in {"generated", "uploaded", "fileless"},
           status \in {"draft", "pending_preview"}, text \in Texts \cup {None} :
        agreements' = [agreements EXCEPT
                         ![a] = NewAgreement(kind, status, text, 1)]
  BY DEF Create
<1> DEFINE r == NewAgreement(kind, status, text, 1)
<1>4. r \in AgreementRows /\ r.status \in {"draft", "pending_preview"}
      /\ r.freelancer = job.freelancer
  <2>1. 1 \in 1..MaxVersion /\ status \in Statuses
    BY WorkAgreementsConstants DEF Statuses, EditableStatuses
  <2> QED
    BY <2>1, NewAgreementTyped
<1> HIDE DEF r
<1>5. agreements' = [agreements EXCEPT ![a] = r]
  BY <1>3 DEF r
<1>6. UNCHANGED <<job, versions, ledger, row>>
  BY DEF Create
<1> QED
  BY <1>1, <1>2, <1>4, <1>5, <1>6, DraftKeeps DEF Stands, AcceptedStatuses

\* The steps that rewrite a draft or send it, or that answer with a rejection.
LEMMA DraftSteps ==
    ASSUME IInv, NEW a \in Agreements,
           \/ \E text \in Texts :
                Regenerate(a, text) \/ UpdateDraft(a, text) \/ Send(a, text)
           \/ \E status \in {"ready_to_send", "pending_acceptance"} :
                MarkReadyToSend(a, status)
           \/ \E f \in Freelancers : Reject(a, f)
    PROVE  IInv' /\ SameDeal
<1> DEFINE old == agreements[a]
<1>1. a \in Existing /\ UNCHANGED <<job, versions, ledger, row>>
  BY DEF Regenerate, UpdateDraft, Send, MarkReadyToSend, Reject, MayEdit,
         MayAnswer
<1>2. old # None /\ old \in AgreementRows
  BY <1>1, RowTyped
<1>3. agreements \in [Agreements -> AgreementRows \cup {None}]
  BY DEF IInv, AgreementsOK, AgreementsType
<1>4. InPlay(agreements, a) /\ ~Stands(agreements, a)
      /\ old.status \in EditableStatuses \cup {"pending_acceptance"}
  BY <1>2 DEF Regenerate, UpdateDraft, Send, MarkReadyToSend, Reject, MayEdit,
         MayAnswer, InPlay, Stands, EditableStatuses, AcceptedStatuses,
         NonBlockingStatuses
<1>5. old.freelancer # None => old.freelancer = job.freelancer
  BY <1>4 DEF IInv, AgreementsOK, Committed
<1>6. ASSUME NEW r \in AgreementRows, agreements' = [agreements EXCEPT ![a] = r],
             \/ r.status = "rejected"
             \/ /\ r.status \in EditableStatuses
                /\ r.freelancer = old.freelancer
             \/ /\ r.status = "pending_acceptance" /\ r.text # None
                /\ r.freelancer \in {old.freelancer, job.freelancer}
      PROVE  IInv' /\ SameDeal
  <2>1. old.status # "cancelled"
    BY <1>4 DEF EditableStatuses
  <2>2. /\ r.status \notin AcceptedStatuses
        /\ r.status = "pending_acceptance" => r.text # None
        /\ r.status \notin NonBlockingStatuses /\ r.freelancer # None =>
             r.freelancer = job.freelancer
    BY <1>5, <1>6 DEF EditableStatuses, AcceptedStatuses, NonBlockingStatuses
  <2> QED
    BY <1>1, <1>4, <1>6, <2>1, <2>2, DraftKeeps
<1>7. CASE \E text \in Texts : Regenerate(a, text)
  <2>1. PICK text \in Texts : Regenerate(a, text)
    BY <1>7
  <2> DEFINE r == [old EXCEPT !.version = @ + 1, !.text = text]
  <2>2. agreements' = [agreements EXCEPT ![a] = r]
    BY <1>3, <2>1 DEF Regenerate
  <2>3. r \in AgreementRows /\ r.status = old.status
        /\ r.freelancer = old.freelancer
    <3>1. old.version \in 1..MaxVersion /\ old.version < MaxVersion
      BY <1>2, <2>1 DEF AgreementRows, Regenerate
    <3>2. old.version + 1 \in 1..MaxVersion
      BY <3>1, WorkAgreementsConstants
    <3> QED
      BY <1>2, <2>1, <3>2 DEF AgreementRows
  <2>4. old.status \in EditableStatuses
    BY <2>1 DEF Regenerate, MayEdit
  <2> QED
    BY <1>6, <2>2, <2>3, <2>4
<1>8. CASE \E text \in Texts : UpdateDraft(a, text)
  <2>1. PICK text \in Texts : UpdateDraft(a, text)
    BY <1>8
  <2> DEFINE r == [old EXCEPT !.text = text]
  <2>2. agreements' = [agreements EXCEPT ![a] = r]
    BY <1>3, <2>1 DEF UpdateDraft
  <2>3. r \in AgreementRows /\ r.status = old.status
        /\ r.freelancer = old.freelancer
    BY <1>2, <2>1 DEF AgreementRows
  <2>4. old.status \in EditableStatuses
    BY <2>1 DEF UpdateDraft, MayEdit
  <2> QED
    BY <1>6, <2>2, <2>3, <2>4
<1>9. CASE \E text \in Texts : Send(a, text)
  <2>1. PICK text \in Texts : Send(a, text)
    BY <1>9
  <2> DEFINE r == [old EXCEPT !.status = "pending_acceptance",
                              !.freelancer = job.freelancer, !.text = text]
  <2>2. agreements' = [agreements EXCEPT ![a] = r]
    BY <1>3, <2>1 DEF Send
  <2>3. r \in AgreementRows /\ r.status = "pending_acceptance"
        /\ r.freelancer = job.freelancer /\ r.text # None
    BY <1>2, <2>1, WorkAgreementsConstants
       DEF AgreementRows, Statuses, IInv, EscrowType
  <2> QED
    BY <1>6, <2>2, <2>3
<1>10. CASE \E status \in {"ready_to_send", "pending_acceptance"} :
              MarkReadyToSend(a, status)
  <2>1. PICK status \in {"ready_to_send", "pending_acceptance"} :
          MarkReadyToSend(a, status)
    BY <1>10
  <2> DEFINE r == [old EXCEPT !.status = status]
  <2>2. agreements' = [agreements EXCEPT ![a] = r]
    BY <1>3, <2>1 DEF MarkReadyToSend
  <2>3. r \in AgreementRows /\ r.status = status /\ r.text = old.text
        /\ r.freelancer = old.freelancer
    BY <1>2, <2>1 DEF AgreementRows, Statuses, EditableStatuses
  <2>4. old.text # None
    BY <2>1 DEF MarkReadyToSend, IsPrepared
  <2> QED
    BY <1>6, <2>2, <2>3, <2>4 DEF EditableStatuses
<1>11. CASE \E f \in Freelancers : Reject(a, f)
  <2>1. PICK f \in Freelancers : Reject(a, f)
    BY <1>11
  <2> DEFINE r == [old EXCEPT !.status = "rejected"]
  <2>2. agreements' = [agreements EXCEPT ![a] = r]
    BY <1>3, <2>1 DEF Reject
  <2>3. r \in AgreementRows /\ r.status = "rejected"
    BY <1>2 DEF AgreementRows, Statuses, NonBlockingStatuses
  <2> QED
    BY <1>6, <2>2, <2>3
<1> QED
  BY <1>7, <1>8, <1>9, <1>10, <1>11

\* A cancelled agreement is withdrawn if it was accepted.
LEMMA CancelStep ==
    ASSUME IInv, NEW a \in Agreements, Cancel(a)
    PROVE  IInv' /\ (SameDeal \/ Promise!Withdraw(a))
<1> DEFINE old == agreements[a]
           r == [old EXCEPT !.status = "cancelled"]
<1>1. old # None /\ old \in AgreementRows
  BY RowTyped DEF Cancel
<1>2. AgreementsOK(agreements, versions, job.freelancer)
  BY DEF IInv
<1>3. agreements' = [agreements EXCEPT ![a] = r]
  BY <1>2 DEF Cancel, AgreementsOK, AgreementsType
<1>4. r \in AgreementRows /\ r.status = "cancelled"
  BY <1>1 DEF AgreementRows, Statuses, NonBlockingStatuses
<1> HIDE DEF r
<1>5. UNCHANGED <<job, versions, ledger, row>>
  BY DEF Cancel
<1>6. AgreementsOK(agreements', versions, job.freelancer)
  BY <1>2, <1>3, <1>4, UpdateKeeps DEF AcceptedStatuses, NonBlockingStatuses
<1>7. IInv'
  BY <1>5, <1>6 DEF IInv, EscrowType, SelectionOK
<1>8. Deal(agreements') = [Deal(agreements) EXCEPT ![a] = None]
  BY <1>2, <1>3, <1>4, DealOfUpdate DEF AgreementsOK, AcceptedStatuses
<1>9. CASE Stands(agreements, a)
  <2>1. Deal(agreements)[a] = Terms(old) /\ Deal(agreements)[a] # None
    BY <1>2, <1>9, TermsAreTerms
  <2>2. Deal(agreements)[a].status = "accepted"
    BY <1>9, <2>1 DEF Terms, Cancel, EditableStatuses, Stands, AcceptedStatuses
  <2>3. [b \in Agreements |-> DealOf(b)] = Deal(agreements)
        /\ [b \in Agreements |-> DealOf(b)]' = Deal(agreements')
    BY DEF DealOf, Deal, Stands, Terms, Accepted, Existing
  <2>4. Promise!Withdraw(a)
    BY <1>8, <2>1, <2>2, <2>3 DEF Promise!Withdraw, Promise!Standing
  <2> QED
    BY <1>7, <2>4
<1>10. CASE ~Stands(agreements, a)
  <2>1. SameDeal
    BY <1>8, <1>10 DEF SameDeal, Deal
  <2> QED
    BY <1>7, <2>1
<1> QED
  BY <1>9, <1>10

\* An abandoned rejection reopens the job when nothing else is in play.
LEMMA AbandonStep ==
    ASSUME IInv, NEW a \in Agreements, Abandon(a)
    PROVE  IInv' /\ SameDeal
<1> DEFINE old == agreements[a]
           r == [old EXCEPT !.status = "cancelled"]
<1>1. old # None /\ old \in AgreementRows
  BY RowTyped DEF Abandon
<1>2. AgreementsOK(agreements, versions, job.freelancer)
  BY DEF IInv
<1>3. agreements' = [agreements EXCEPT ![a] = r]
  BY <1>2 DEF Abandon, AgreementsOK, AgreementsType
<1>4. r \in AgreementRows /\ r.status = "cancelled"
  BY <1>1 DEF AgreementRows, Statuses, NonBlockingStatuses
<1> HIDE DEF r
<1>5. \A b \in Agreements : ~InPlay(agreements, b)
  BY ActiveIsInPlay DEF Abandon
<1>6. AgreementsOK(agreements, versions, job'.freelancer)
  BY <1>2, <1>5, SelectKeeps
<1>7. AgreementsOK(agreements', versions, job'.freelancer)
  BY <1>3, <1>4, <1>6, UpdateKeeps DEF AcceptedStatuses, NonBlockingStatuses
<1>8. EscrowType' /\ SelectionOK'
  BY DEF IInv, Abandon, EscrowType, SelectionOK, JobStatuses
<1>9. IInv'
  BY <1>7, <1>8 DEF IInv, Abandon
<1>10. Deal(agreements') = [Deal(agreements) EXCEPT ![a] = None]
  BY <1>2, <1>3, <1>4, DealOfUpdate DEF AgreementsOK, AcceptedStatuses
<1>11. Deal(agreements)[a] = None
  BY DEF Deal, Stands, Abandon, AcceptedStatuses
<1> QED
  BY <1>9, <1>10, <1>11 DEF SameDeal, Deal

\* A revision supersedes the rejected agreement and inserts another.
LEMMA ReviseStep ==
    ASSUME IInv, NEW a \in Agreements, NEW b \in Agreements, NEW text \in Texts,
           Revise(a, b, text)
    PROVE  IInv' /\ SameDeal
<1> DEFINE old == agreements[a]
           r1 == [old EXCEPT !.status = "superseded"]
           r2 == NewAgreement(old.kind, "pending_preview", text, old.version + 1)
           middle == [agreements EXCEPT ![a] = r1]
<1>1. old # None /\ old \in AgreementRows /\ old.status = "rejected"
      /\ agreements[b] = None /\ a # b
  BY RowTyped DEF Revise, Existing
<1>2. AgreementsOK(agreements, versions, job.freelancer)
  BY DEF IInv
<1>3. agreements' = [middle EXCEPT ![b] = r2]
  BY <1>2 DEF Revise, AgreementsOK, AgreementsType
<1>4. r1 \in AgreementRows /\ r1.status = "superseded"
  BY <1>1 DEF AgreementRows, Statuses, NonBlockingStatuses
<1>5. r2 \in AgreementRows /\ r2.status = "pending_preview"
      /\ r2.freelancer = job.freelancer
  <2>1. old.version \in 1..MaxVersion /\ old.version < MaxVersion
        /\ old.kind \in {"generated", "uploaded", "fileless"}
    BY <1>1 DEF AgreementRows, Revise
  <2>2. old.version + 1 \in 1..MaxVersion
    BY <2>1, WorkAgreementsConstants
  <2>3. "pending_preview" \in Statuses
    BY DEF Statuses, EditableStatuses
  <2> QED
    BY <2>1, <2>2, <2>3, NewAgreementTyped
<1>6. \A c \in Agreements : ~InPlay(agreements, c)
  BY ActiveIsInPlay DEF Revise
<1>7. /\ \A c \in Agreements : ~InPlay(middle, c)
      /\ middle[b] = None
  BY <1>1, <1>2, <1>4, <1>6
     DEF InPlay, AgreementsOK, AgreementsType, NonBlockingStatuses
<1> HIDE DEF r1, r2
<1>8. AgreementsOK(middle, versions, job.freelancer)
  BY <1>1, <1>2, <1>4, UpdateKeeps DEF AcceptedStatuses, NonBlockingStatuses
<1>9. Deal(middle) = [Deal(agreements) EXCEPT ![a] = None]
  BY <1>2, <1>4, DealOfUpdate DEF AgreementsOK, AcceptedStatuses
<1> HIDE DEF middle
<1>10. AgreementsOK(agreements', versions, job.freelancer)
  BY <1>3, <1>5, <1>7, <1>8, UpdateKeeps
     DEF AcceptedStatuses, NonBlockingStatuses
<1>11. Deal(agreements') = [Deal(middle) EXCEPT ![b] = None]
  BY <1>3, <1>5, <1>8, DealOfUpdate DEF AgreementsOK, AcceptedStatuses
<1>12. Deal(agreements)[a] = None /\ Deal(agreements)[b] = None
  BY <1>1 DEF Deal, Stands, AcceptedStatuses
<1>13. SameDeal
  BY <1>1, <1>9, <1>11, <1>12 DEF SameDeal, Deal
<1>14. IInv'
  BY <1>10 DEF IInv, EscrowType, SelectionOK, Revise
<1> QED
  BY <1>13, <1>14

\* An acceptance makes the deal: nothing else in play can stand.
LEMMA AcceptStep ==
    ASSUME IInv, NEW a \in Agreements, NEW f \in Freelancers, Accept(a, f)
    PROVE  IInv' /\ \E text \in Texts : Promise!Accept(a, text, f)
<1> DEFINE old == agreements[a]
           r == [old EXCEPT !.status = "accepted",
                            !.snapshot = [text |-> old.text, freelancer |-> f]]
<1>1. old # None /\ old \in AgreementRows
      /\ old.status = "pending_acceptance" /\ old.freelancer = f
  BY RowTyped DEF Accept, MayAnswer
<1>2. AgreementsOK(agreements, versions, job.freelancer)
  BY DEF IInv
<1>3. agreements' = [agreements EXCEPT ![a] = r]
  BY <1>2 DEF Accept, Snapshot, AgreementsOK, AgreementsType
<1>4. /\ RowsIn(versions, agreements, a) = {}
      /\ AgreementsOK(agreements', versions \cup {VersionOf(a, r)},
                      job.freelancer)
  BY <1>1, <1>2, <1>3, AcceptKeeps
<1>5. r.status = "accepted" /\ r.text = old.text /\ r.freelancer = f
      /\ r.version = old.version
      /\ r.snapshot = [text |-> old.text, freelancer |-> f]
  BY <1>1 DEF AgreementRows
<1>6. versions' = versions \cup {VersionOf(a, r)}
  BY <1>4, <1>5 DEF Accept, EnsureVersion, RowOf, RowsIn, VersionOf, Snapshot
<1> HIDE DEF r
<1>7. IInv'
  BY <1>4, <1>6 DEF Accept, IInv, EscrowType, SelectionOK
<1>8. old.text \in Texts
  <2>1. old.text # None
    BY <1>1, <1>2 DEF AgreementsOK, SentIsComplete
  <2> QED
    BY <1>1, <2>1 DEF AgreementRows
<1>9. r \in AgreementRows
  <2>1. [text |-> old.text, freelancer |-> f] \in Deals
    BY <1>8 DEF Deals
  <2> QED
    BY <1>1, <2>1 DEF r, AgreementRows, Statuses, AcceptedStatuses
<1>10. \A b \in Agreements : ~Stands(agreements, b)
  <2> SUFFICES ASSUME NEW b \in Agreements, Stands(agreements, b)
               PROVE  FALSE
    OBVIOUS
  <2>1. InPlay(agreements, a) /\ InPlay(agreements, b)
    BY <1>1 DEF InPlay, Stands, AcceptedStatuses, NonBlockingStatuses
  <2>2. a = b
    BY <1>2, <2>1 DEF AgreementsOK, OneInPlay
  <2> QED
    BY <1>1, <2>2 DEF Stands, AcceptedStatuses
<1>11. Deal(agreements') = [Deal(agreements) EXCEPT
                              ![a] = [text |-> old.text, freelancer |-> f,
                                      status |-> "accepted"]]
  <2>1. Terms(r) = [text |-> old.text, freelancer |-> f, status |-> "accepted"]
    BY <1>5 DEF Terms
  <2>2. Deal(agreements')
          = [Deal(agreements) EXCEPT ![a] = IF r.status \in AcceptedStatuses
                                              THEN Terms(r) ELSE None]
    BY <1>2, <1>3, <1>9, DealOfUpdate DEF AgreementsOK
  <2>3. r.status \in AcceptedStatuses
    BY <1>5 DEF AcceptedStatuses
  <2> QED
    BY <2>1, <2>2, <2>3
<1>12. [b \in Agreements |-> DealOf(b)] = Deal(agreements)
       /\ [b \in Agreements |-> DealOf(b)]' = Deal(agreements')
  BY DEF DealOf, Deal, Stands, Terms, Accepted, Existing
<1>13. Promise!Accept(a, old.text, f)
  BY <1>10, <1>11, <1>12 DEF Promise!Accept, Promise!Standing, Deal
<1> QED
  BY <1>7, <1>8, <1>13

LEMMA DealIsDeal ==
    /\ [b \in Agreements |-> DealOf(b)] = Deal(agreements)
    /\ [b \in Agreements |-> DealOf(b)]' = Deal(agreements')
BY DEF DealOf, Deal, Stands, Terms, Accepted, Existing

LEMMA AcceptedStands ==
    \A a : a \in Accepted <=> a \in Agreements /\ Stands(agreements, a)
BY DEF Accepted, Existing, Stands

\* lockWorkAgreementForCommitment, of an accepted agreement.
LEMMA CommitmentStep ==
    ASSUME IInv, NEW a \in Accepted, NEW linked \in BOOLEAN,
           LockForCommitment(a, linked), agreements[a].status = "accepted"
    PROVE  /\ AgreementsOK(agreements', versions', job.freelancer)
           /\ Promise!Lock(a)
<1> DEFINE old == agreements[a]
           r == [old EXCEPT !.status = "locked", !.escrow = @ \/ linked]
<1>1. a \in Agreements /\ Stands(agreements, a)
  BY AcceptedStands
<1>2. AgreementsOK(agreements, versions, job.freelancer)
  BY DEF IInv
<1>3. agreements' = [agreements EXCEPT ![a] = r]
  BY <1>1, <1>2 DEF LockForCommitment, AgreementsOK, AgreementsType
<1>4. old \in AgreementRows
  BY <1>1, <1>2 DEF AgreementsOK, AgreementsType, Stands
<1>5. old.escrow \/ linked \in BOOLEAN
  OBVIOUS
<1>6. /\ RowOf(a) = RowsIn(versions, agreements, a)
      /\ RowOf(a) = {VersionOf(a, old)}
  BY <1>1, <1>2 DEF RowOf, RowsIn, AgreementsOK, CopiesAgree
<1>7. versions' = LockedRows(versions, agreements, a)
  BY <1>6 DEF LockForCommitment, EnsureVersion, LockedRows
<1>8. AgreementsOK(agreements', versions', job.freelancer)
  BY <1>1, <1>2, <1>3, <1>5, <1>7, LockKeeps
<1>9. /\ r \in AgreementRows /\ r.status = "locked" /\ r.text = old.text
      /\ r.freelancer = old.freelancer
  <2>1. r \in AgreementRows
    BY <1>4, <1>5 DEF AgreementRows, Statuses, AcceptedStatuses
  <2> QED
    BY <1>4, <2>1 DEF AgreementRows
<1> HIDE DEF r
<1>10. Deal(agreements)[a] = Terms(old) /\ Deal(agreements)[a] # None
  BY <1>1, <1>2, TermsAreTerms
<1>11. Deal(agreements') = [Deal(agreements) EXCEPT ![a] = Terms(r)]
  <2>1. Deal(agreements')
          = [Deal(agreements) EXCEPT ![a] = IF r.status \in AcceptedStatuses
                                              THEN Terms(r) ELSE None]
    BY <1>1, <1>2, <1>3, <1>9, DealOfUpdate DEF AgreementsOK
  <2> QED
    BY <1>9, <2>1 DEF AcceptedStatuses
<1>12. Terms(r) = [Terms(old) EXCEPT !.status = "locked"]
  BY <1>9 DEF Terms
<1>13. Terms(old).status = "accepted"
  BY DEF Terms
<1>14. Deal(agreements') = [Deal(agreements) EXCEPT ![a].status = "locked"]
  BY <1>1, <1>10, <1>11, <1>12 DEF Deal
<1>15. Promise!Lock(a)
  BY <1>1, <1>10, <1>13, <1>14, DealIsDeal
     DEF Promise!Lock, Promise!Standing
<1> QED
  BY <1>8, <1>15

\* lockAcceptedAgreementForJob
LEMMA LockOnFundingStep ==
    ASSUME IInv, LockOnFunding
    PROVE  /\ AgreementsOK(agreements', versions', job.freelancer)
           /\ SameDeal \/ \E a \in Agreements : Promise!Lock(a)
<1>1. CASE \E a \in Accepted : agreements[a].status = "accepted"
  <2>1. PICK a \in Accepted : agreements[a].status = "accepted"
    BY <1>1
  <2>2. PICK b \in Accepted : LockForCommitment(b, TRUE)
    BY <1>1 DEF LockOnFunding
  <2>3. a = b
    <3>1. /\ a \in Agreements /\ InPlay(agreements, a)
          /\ b \in Agreements /\ InPlay(agreements, b)
      BY AcceptedStands
         DEF Stands, InPlay, AcceptedStatuses, NonBlockingStatuses
    <3> QED
      BY <3>1 DEF IInv, AgreementsOK, OneInPlay
  <2>4. a \in Agreements
    BY AcceptedStands
  <2> QED
    BY <2>1, <2>2, <2>3, <2>4, CommitmentStep
<1>2. CASE ~ \E a \in Accepted : agreements[a].status = "accepted"
  <2>1. agreements' = agreements /\ versions' = versions
    BY <1>2 DEF LockOnFunding
  <2> QED
    BY <2>1 DEF SameDeal, IInv
<1> QED
  BY <1>1, <1>2

LEMMA LockStep ==
    ASSUME IInv, NEW a \in Agreements, Lock(a)
    PROVE  IInv' /\ Promise!Lock(a)
<1>1. a \in Accepted /\ agreements[a].status = "accepted"
  BY DEF Lock, Accepted, AcceptedStatuses
<1>2. /\ AgreementsOK(agreements', versions', job.freelancer)
      /\ Promise!Lock(a)
  BY <1>1, CommitmentStep DEF Lock
<1>3. IInv'
  BY <1>2 DEF Lock, IInv, EscrowType, SelectionOK
<1> QED
  BY <1>2, <1>3

LEMMA MaterializeStep ==
    ASSUME IInv, NEW a \in Agreements, Materialize(a)
    PROVE  IInv' /\ SameDeal
<1>1. RowOf(a) # {}
  BY AcceptedStands
     DEF Materialize, RowOf, RowsIn, IInv, AgreementsOK, CopiesAgree
<1>2. UNCHANGED vars
  BY <1>1 DEF Materialize, EnsureVersion, vars
<1> QED
  BY <1>2 DEF vars, IInv, EscrowType, SelectionOK, SameDeal

\* The escrow's own steps leave the agreements alone, except for the lock; the
\* selection changes only while nobody is selected.
LEMMA EscrowSteps ==
    ASSUME IInv,
           \/ \E f \in Freelancers : SelectFreelancer(f) \/ Assign(f)
           \/ EscrowStep
    PROVE  IInv' /\ (SameDeal \/ \E a \in Agreements : Promise!Lock(a))
<1>0. /\ EscrowType /\ SelectionOK
      /\ AgreementsOK(agreements, versions, job.freelancer)
  BY DEF IInv
<1>a. ASSUME UNCHANGED <<agreements, versions>>, EscrowType', SelectionOK',
             \/ job.freelancer = None
             \/ job'.freelancer = job.freelancer
      PROVE  IInv' /\ SameDeal
  <2>1. AgreementsOK(agreements, versions, job'.freelancer)
    BY <1>0, <1>a, SelectKeeps
  <2> QED
    BY <1>a, <2>1 DEF IInv, SameDeal
<1>b. ASSUME LockOnFunding, EscrowType', SelectionOK',
             job'.freelancer = job.freelancer
      PROVE  IInv' /\ (SameDeal \/ \E a \in Agreements : Promise!Lock(a))
  BY <1>b, LockOnFundingStep DEF IInv
<1>1. ASSUME NEW f \in Freelancers, SelectFreelancer(f) PROVE IInv' /\ SameDeal
  BY <1>0, <1>1, <1>a DEF SelectFreelancer, EscrowType, SelectionOK, JobStatuses
<1>2. ASSUME NEW f \in Freelancers, Assign(f) PROVE IInv' /\ SameDeal
  BY <1>0, <1>2, <1>a DEF Assign, EscrowType, SelectionOK
<1>3. CASE CreateEscrow
  BY <1>0, <1>3, <1>a DEF CreateEscrow, EscrowType, SelectionOK
<1>4. CASE RecordCreation
  BY <1>0, <1>4, <1>a DEF RecordCreation, CreationAllowed, EscrowType, SelectionOK
<1>5. CASE PostFunded
  BY <1>0, <1>5, <1>a DEF PostFunded, EscrowType, SelectionOK
<1>6. CASE RecordPosting
  BY <1>0, <1>6, <1>b DEF RecordPosting, EscrowType, SelectionOK, JobStatuses
<1>7. CASE Fund
  BY <1>0, <1>7, <1>a DEF Fund, EscrowType, SelectionOK
<1>8. CASE RecordFunding
  BY <1>0, <1>8, <1>b DEF RecordFunding, EscrowType, SelectionOK, JobStatuses
<1>9. CASE SyncFunding
  BY <1>0, <1>9, <1>a DEF SyncFunding, EscrowType, SelectionOK, JobStatuses
<1>10. CASE RecordAssignment
  BY <1>0, <1>10, <1>a DEF RecordAssignment, EscrowType, SelectionOK, JobStatuses
<1>11. CASE SubmitProof
  BY <1>0, <1>11, <1>a DEF SubmitProof, EscrowType, SelectionOK, JobStatuses
<1>12. CASE Dispute
  BY <1>0, <1>12, <1>a DEF Dispute, EscrowType, SelectionOK, JobStatuses
<1>13. ASSUME NEW status \in {"completed", "cancelled"}, Close(status)
       PROVE  IInv' /\ SameDeal
  BY <1>0, <1>13, <1>a DEF Close, EscrowType, SelectionOK, JobStatuses
<1> QED
  BY <1>1, <1>2, <1>3, <1>4, <1>5, <1>6, <1>7, <1>8, <1>9, <1>10, <1>11, <1>12,
     <1>13 DEF EscrowStep
-----------------------------------------------------------------------------
(* The invariant, and what follows from it.                                 *)

LEMMA InitOK == Init => IInv /\ Promise!Init
<1> SUFFICES ASSUME Init PROVE IInv /\ Promise!Init
  OBVIOUS
<1>1. \A a \in Agreements : agreements[a] = None
  BY DEF Init
<1>2. AgreementsOK(agreements, versions, job.freelancer)
  <2>1. AgreementsType(agreements) /\ VersionsType(versions)
    BY DEF Init, AgreementsType, VersionsType
  <2>2. OneInPlay(agreements) /\ Committed(agreements, job.freelancer)
    BY <1>1 DEF OneInPlay, Committed, InPlay
  <2>3. CopiesAgree(agreements, versions)
    BY <1>1 DEF CopiesAgree, Stands
  <2>4. VersionsHaveOwners(agreements, versions) /\ SentIsComplete(agreements)
    BY <1>1 DEF Init, VersionsHaveOwners, SentIsComplete
  <2> QED
    BY <2>1, <2>2, <2>3, <2>4 DEF AgreementsOK
<1>3. EscrowType /\ SelectionOK
  BY DEF Init, EscrowType, SelectionOK, JobStatuses
<1>4. Deal(agreements) = [a \in Agreements |-> None]
  BY <1>1 DEF Deal, Stands
<1>5. Promise!Init
  BY <1>4, DealIsDeal DEF Promise!Init
<1> QED
  BY <1>2, <1>3, <1>5 DEF IInv

\* Every step keeps the invariant and is a step of AgreedTerms or a stutter.
LEMMA NextOK ==
    ASSUME IInv, [Next]_vars
    PROVE  /\ IInv'
           /\ \/ Promise!Next
              \/ UNCHANGED [a \in Agreements |-> DealOf(a)]
<1>a. SameDeal => UNCHANGED [a \in Agreements |-> DealOf(a)]
  BY DealIsDeal DEF SameDeal
<1>1. ASSUME NEW a \in Agreements, ClientStep(a)
      PROVE  IInv' /\ (SameDeal \/ Promise!Withdraw(a) \/ Promise!Lock(a))
  <2>1. CASE Create(a)
    BY <2>1, CreateStep
  <2>2. CASE Cancel(a)
    BY <2>2, CancelStep
  <2>3. CASE Abandon(a)
    BY <2>3, AbandonStep
  <2>4. CASE Lock(a)
    BY <2>4, LockStep
  <2>5. CASE Materialize(a)
    BY <2>5, MaterializeStep
  <2>6. CASE \/ \E text \in Texts :
                  Regenerate(a, text) \/ UpdateDraft(a, text) \/ Send(a, text)
             \/ \E status \in {"ready_to_send", "pending_acceptance"} :
                  MarkReadyToSend(a, status)
    BY <2>6, DraftSteps
  <2>7. CASE \E text \in Texts : \E b \in Agreements : Revise(a, b, text)
    BY <2>7, ReviseStep
  <2> QED
    BY <1>1, <2>1, <2>2, <2>3, <2>4, <2>5, <2>6, <2>7 DEF ClientStep
<1>2. ASSUME NEW f \in Freelancers, NEW a \in Agreements, Accept(a, f)
      PROVE  IInv' /\ \E text \in Texts : Promise!Accept(a, text, f)
  BY <1>2, AcceptStep
<1>3. ASSUME NEW f \in Freelancers, NEW a \in Agreements, Reject(a, f)
      PROVE  IInv' /\ SameDeal
  BY <1>3, DraftSteps
<1>4. CASE \/ \E f \in Freelancers : SelectFreelancer(f) \/ Assign(f)
           \/ EscrowStep
  BY <1>4, <1>a, EscrowSteps DEF Promise!Next
<1>5. CASE UNCHANGED vars
  BY <1>5 DEF vars, IInv, EscrowType, SelectionOK, DealOf, Accepted, Existing
<1> QED
  BY <1>1, <1>2, <1>3, <1>4, <1>5, <1>a DEF Next, FreelancerStep, Promise!Next

THEOREM Invariance == Spec => []IInv
BY InitOK, NextOK, PTL DEF Spec

LEMMA IInvMeans ==
    IInv => /\ TypeOK /\ OneActiveAgreement /\ CommittedToTheSelected
            /\ AcceptedCopiesAgree
<1> SUFFICES ASSUME IInv PROVE /\ TypeOK /\ OneActiveAgreement
                               /\ CommittedToTheSelected /\ AcceptedCopiesAgree
  OBVIOUS
<1>1. \A a : a \in Active <=> a \in Agreements /\ InPlay(agreements, a)
  BY DEF Active, Existing, InPlay
<1>2. TypeOK
  BY DEF IInv, EscrowType, AgreementsOK, AgreementsType, VersionsType, TypeOK
<1>3. OneActiveAgreement /\ CommittedToTheSelected
  BY <1>1 DEF IInv, AgreementsOK, OneInPlay, Committed, OneActiveAgreement,
              CommittedToTheSelected
<1>4. \A a : RowOf(a) = RowsIn(versions, agreements, a)
  BY DEF RowOf, RowsIn
<1>5. AcceptedCopiesAgree
  BY <1>4, AcceptedStands
     DEF IInv, AgreementsOK, CopiesAgree, AcceptedCopiesAgree, VersionOf
<1> QED
  BY <1>2, <1>3, <1>5

\* Every row and every copy of the terms has its type, for any number of
\* agreements, freelancers and versions.
THEOREM AgreementsTypeCorrect == Spec => []TypeOK
BY Invariance, IInvMeans, PTL

\* No order of creations and revisions leaves two agreements in play.
THEOREM OneAgreement == Spec => []OneActiveAgreement
BY Invariance, IInvMeans, PTL

\* An agreement in play is with the freelancer the job has selected, although
\* the acceptance does not look at the selection.
THEOREM StaysCommitted == Spec => []CommittedToTheSelected
BY Invariance, IInvMeans, PTL

\* The row, the snapshot and the version row of what was accepted agree.
THEOREM CopiesStay == Spec => []AcceptedCopiesAgree
BY Invariance, IInvMeans, PTL

\* The handlers implement AgreedTerms.
THEOREM DealIsKept == Spec => KeepsTheDeal
<1>1. Init => Promise!Init
  BY InitOK
<1>2. IInv /\ [Next]_vars =>
        [Promise!Next]_([a \in Agreements |-> DealOf(a)])
  BY NextOK
<1> QED
  BY <1>1, <1>2, Invariance, PTL DEF Spec, KeepsTheDeal, Promise!Spec

\* A recorded proof is under a locked agreement of the one who delivers it.
THEOREM ProofIsCovered == Spec => ProofUnderOwnAgreement
<1> DEFINE A == job.status = "funded" /\ job'.status = "submitted" =>
                  \E a \in Active : /\ agreements[a].status = "locked"
                                    /\ agreements[a].freelancer = row.freelancer
<1>1. ASSUME IInv, [Next]_vars PROVE A
  <2> SUFFICES ASSUME job.status = "funded", job'.status = "submitted"
               PROVE  \E a \in Active :
                         /\ agreements[a].status = "locked"
                         /\ agreements[a].freelancer = row.freelancer
    OBVIOUS
  <2>1. SubmitProof
    <3>1. ASSUME NEW a \in Agreements, ClientStep(a) PROVE FALSE
      <4>1. job' = job \/ Abandon(a)
        <5>1. CASE Create(a)
          BY <5>1 DEF Create
        <5>2. CASE Cancel(a)
          BY <5>2 DEF Cancel
        <5>3. CASE Lock(a)
          BY <5>3 DEF Lock
        <5>4. CASE Materialize(a)
          BY <5>4 DEF Materialize
        <5>5. CASE \E text \in Texts :
                     Regenerate(a, text) \/ UpdateDraft(a, text) \/ Send(a, text)
          BY <5>5 DEF Regenerate, UpdateDraft, Send
        <5>6. CASE \E text \in Texts : \E b \in Agreements : Revise(a, b, text)
          BY <5>6 DEF Revise
        <5>7. CASE \E status \in {"ready_to_send", "pending_acceptance"} :
                     MarkReadyToSend(a, status)
          BY <5>7 DEF MarkReadyToSend
        <5> QED
          BY <3>1, <5>1, <5>2, <5>3, <5>4, <5>5, <5>6, <5>7 DEF ClientStep
      <4> QED
        BY <4>1 DEF Abandon
    <3>2. ASSUME NEW f \in Freelancers, FreelancerStep(f) PROVE FALSE
      BY <3>2 DEF FreelancerStep, Accept, Reject, SelectFreelancer, Assign
    <3>3. CASE EscrowStep
      <4>1. \A status \in {"completed", "cancelled"} : ~Close(status)
        BY <1>1 DEF Close, IInv, EscrowType
      <4>2. ~RecordPosting /\ ~RecordFunding /\ ~SyncFunding
            /\ ~RecordAssignment /\ ~Dispute
        BY <1>1 DEF RecordPosting, RecordFunding, SyncFunding, RecordAssignment,
                    Dispute, IInv, EscrowType
      <4> QED
        BY <3>3, <4>1, <4>2
           DEF EscrowStep, CreateEscrow, RecordCreation, PostFunded, Fund
    <3> QED
      BY <1>1, <3>1, <3>2, <3>3 DEF Next, vars
  <2>2. PICK a \in Active : agreements[a].status = "locked"
    BY <2>1 DEF SubmitProof, MaySubmitProof, IsLegacyAgreementExempt
  <2>3. a \in Agreements /\ Stands(agreements, a)
    BY <2>2 DEF Active, Existing, Stands, AcceptedStatuses
  <2>4. agreements[a].freelancer \in Freelancers
    BY <1>1, <2>3, TermsAreTerms DEF IInv
  <2>5. agreements[a].freelancer = job.freelancer
    BY <1>1, <2>2, <2>4, IInvMeans, WorkAgreementsConstants
       DEF CommittedToTheSelected
  <2> QED
    BY <2>1, <2>2, <2>5 DEF SubmitProof
<1>2. IInv /\ [Next]_vars => A
  BY <1>1
<1> QED
  BY <1>2, Invariance, PTL DEF Spec, ProofUnderOwnAgreement


-----------------------------------------------------------------------------
(* The ledger seen from here implements Custody.                            *)

\* A row that is open shows an escrow that is open: Close looks at the row.
OpenRowIsOpen ==
    row.status \notin {"none", "closed"} => ledger.status \in {"created", "held"}

\* Drafting and the client's other steps leave the escrow alone.
LEMMA ClientLeavesEscrow ==
    ASSUME NEW a \in Agreements, ClientStep(a)
    PROVE  UNCHANGED <<ledger, row>>
<1>0. ASSUME Create(a) PROVE UNCHANGED <<ledger, row>>
  BY <1>0, Zenon DEF Create
<1>1. ASSUME Cancel(a) \/ Lock(a) \/ Materialize(a)
      PROVE  UNCHANGED <<ledger, row>>
  BY <1>1 DEF Cancel, Lock, Materialize
<1>2. ASSUME Abandon(a) PROVE UNCHANGED <<ledger, row>>
  BY <1>2 DEF Abandon
<1>3. ASSUME NEW text \in Texts,
             Regenerate(a, text) \/ UpdateDraft(a, text) \/ Send(a, text)
      PROVE  UNCHANGED <<ledger, row>>
  BY <1>3 DEF Regenerate, UpdateDraft, Send
<1>4. ASSUME NEW text \in Texts, NEW b \in Agreements, Revise(a, b, text)
      PROVE  UNCHANGED <<ledger, row>>
  BY <1>4 DEF Revise
<1>5. ASSUME NEW status, MarkReadyToSend(a, status)
      PROVE  UNCHANGED <<ledger, row>>
  BY <1>5 DEF MarkReadyToSend
<1> QED
  BY <1>0, <1>1, <1>2, <1>3, <1>4, <1>5 DEF ClientStep

LEMMA OpenRowStep ==
    ASSUME EscrowType, OpenRowIsOpen, [Next]_vars
    PROVE  OpenRowIsOpen'
<1>1. CASE UNCHANGED <<ledger, row>>
  BY <1>1 DEF OpenRowIsOpen
<1>2. ASSUME NEW a \in Agreements, ClientStep(a) PROVE UNCHANGED <<ledger, row>>
  BY <1>2, ClientLeavesEscrow
<1>3. ASSUME NEW f \in Freelancers, FreelancerStep(f) PROVE OpenRowIsOpen'
  BY <1>3 DEF FreelancerStep, Accept, Reject, SelectFreelancer, Assign,
     OpenRowIsOpen, EscrowType
<1>4. CASE EscrowStep
  BY <1>4 DEF EscrowStep, CreateEscrow, RecordCreation, PostFunded,
     RecordPosting, Fund, RecordFunding, SyncFunding, RecordAssignment,
     SubmitProof, Dispute, Close, OpenRowIsOpen, EscrowType
<1>5. CASE UNCHANGED vars
  BY <1>5 DEF vars, OpenRowIsOpen
<1> QED
  BY <1>1, <1>2, <1>3, <1>4, <1>5 DEF Next

StageNow == IF ledger.status = "created" THEN "open" ELSE ledger.status
StageView == [e \in {"escrow"} |-> StageNow]
WorkerView == [e \in {"escrow"} |-> ledger.freelancer]

LEMMA ViewMoves ==
    /\ StageView["escrow"] = StageNow /\ WorkerView["escrow"] = ledger.freelancer
    /\ \A to : StageNow' = to => StageView' = [StageView EXCEPT !["escrow"] = to]
    /\ \A w : ledger'.freelancer = w =>
                 WorkerView' = [WorkerView EXCEPT !["escrow"] = w]
    /\ StageNow' = StageNow => UNCHANGED StageView
    /\ ledger'.freelancer = ledger.freelancer => UNCHANGED WorkerView
BY DEF StageView, WorkerView

LEMMA AgreementCustodyStep ==
    ASSUME EscrowType, OpenRowIsOpen, [Next]_vars
    PROVE  [Keeping!Next]_(<<StageView, WorkerView>>)
<1> USE DEF Keeping!Move
<1>1. CASE UNCHANGED ledger
  BY <1>1 DEF StageView, WorkerView, StageNow
<1>2. CASE CreateEscrow
  <2>1. /\ StageNow = "none" /\ StageNow' = "open"
        /\ ledger'.freelancer = job.freelancer
        /\ job.freelancer \in Freelancers \cup {None}
    BY <1>2 DEF CreateEscrow, StageNow, EscrowType
  <2>2. Keeping!Create("escrow", "open", job.freelancer)
    BY <2>1, ViewMoves DEF Keeping!Create, StageView, WorkerView, StageNow
  <2> QED
    BY <2>1, <2>2 DEF Keeping!Next
<1>3. CASE PostFunded
  <2>1. StageNow = "none" /\ StageNow' = "held" /\ ledger'.freelancer = None
    BY <1>3 DEF PostFunded, StageNow
  <2>2. Keeping!Create("escrow", "held", None)
    BY <2>1, ViewMoves DEF Keeping!Create, StageView, WorkerView, StageNow
  <2> QED
    BY <2>2 DEF Keeping!Next
<1>4. CASE Fund
  <2>1. /\ StageNow = "open" /\ StageNow' = "held"
        /\ ledger'.freelancer = ledger.freelancer
    BY <1>4 DEF Fund, StageNow, EscrowType
  <2>2. Keeping!Fund("escrow")
    BY <2>1, ViewMoves DEF Keeping!Fund, StageView, WorkerView, StageNow
  <2> QED
    BY <2>2 DEF Keeping!Next
<1>5. ASSUME NEW f \in Freelancers, Assign(f) PROVE Keeping!Next
  <2>1. /\ StageNow = "held" /\ StageNow' = "held"
        /\ ledger.freelancer = None /\ ledger'.freelancer = f
    BY <1>5 DEF Assign, StageNow
  <2>2. Keeping!Assign("escrow", f)
    BY <2>1, ViewMoves DEF Keeping!Assign, StageView, WorkerView, StageNow
  <2> QED
    BY <2>2 DEF Keeping!Next
<1>6. ASSUME NEW status, Close(status) PROVE Keeping!Next
  <2>1. /\ StageNow \in {"open", "held"} /\ StageNow' = "closed"
        /\ ledger'.freelancer = ledger.freelancer
    BY <1>6 DEF Close, StageNow, EscrowType, OpenRowIsOpen
  <2>2. Keeping!Close("escrow")
    BY <2>1, ViewMoves DEF Keeping!Close, StageView, WorkerView, StageNow
  <2> QED
    BY <2>2 DEF Keeping!Next
<1>7. ASSUME NEW a \in Agreements, ClientStep(a) PROVE UNCHANGED ledger
  BY <1>7, ClientLeavesEscrow
<1>8. ASSUME NEW f \in Freelancers, FreelancerStep(f), ~Assign(f)
      PROVE  UNCHANGED ledger
  BY <1>8 DEF FreelancerStep, Accept, Reject, SelectFreelancer
<1>9. CASE RecordCreation \/ RecordPosting \/ RecordFunding \/ SyncFunding
           \/ RecordAssignment \/ SubmitProof \/ Dispute
  BY <1>1, <1>9 DEF RecordCreation, RecordPosting, RecordFunding, SyncFunding,
     RecordAssignment, SubmitProof, Dispute
<1>10. CASE UNCHANGED vars
  BY <1>1, <1>10 DEF vars
<1> QED
  BY <1>1, <1>2, <1>3, <1>4, <1>5, <1>6, <1>7, <1>8, <1>9, <1>10
     DEF Next, EscrowStep

\* Whether the freelancer is selected first or assigned to an escrow funded
\* before, the steps that look at rows only take the ledger through the moves
\* of the contract: an escrow is not closed twice, and nobody replaces the
\* freelancer it names.
THEOREM AgreementsKeepCustody == Spec => KeepsCustody
<1>1. Init => Keeping!Init /\ OpenRowIsOpen
  BY DEF Init, Keeping!Init, OpenRowIsOpen
<1>2. IInv /\ OpenRowIsOpen /\ [Next]_vars => OpenRowIsOpen'
  BY OpenRowStep DEF IInv
<1>3. IInv /\ OpenRowIsOpen /\ [Next]_vars => [Keeping!Next]_(Keeping!vars)
  BY AgreementCustodyStep DEF IInv, Keeping!vars, StageView, WorkerView, StageNow
<1> QED
  BY <1>1, <1>2, <1>3, Invariance, PTL
     DEF Spec, KeepsCustody, Keeping!Spec, Keeping!Kept
=============================================================================
