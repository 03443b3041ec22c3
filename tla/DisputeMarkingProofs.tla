------------------------ MODULE DisputeMarkingProofs ------------------------
(***************************************************************************)
(* The safety of DisputeMarking for any number of pages, admins, disputes  *)
(* and transactions.                                                       *)
(*                                                                         *)
(* The inductive invariant says whose the transaction of a page is, that a *)
(* page records only what the ledger has, and, of a dispute that is run by *)
(* one party's page at a time, that its mark tells whether such a run is   *)
(* on and that nothing was sent before the page signs.                     *)
(***************************************************************************)
EXTENDS DisputeMarking, TLAPS

Running(p) == page[p].step \notin {"idle", "starting"}

PageOK ==
    \A p \in Pages :
        /\ page[p].step # "idle" => page[p].dispute \in Disputes
        /\ page[p].step # "idle" =>
             IF p \in Admins THEN page[p].via = "admin"
                             ELSE page[p].via \in {"dialog", "panel"}
        /\ page[p].step \in {"signed", "waiting", "recording", "updating",
                             "confirmed", "failing_known"} =>
             page[p].tx \in Txs /\ sentFor[page[p].tx] = page[p].dispute
        /\ page[p].step \in {"recording", "updating", "confirmed"} =>
             ledger.by = page[p].tx
        /\ page[p].step = "failing_known" => p \in Admins

LedgerOK == ledger.by # None => ledger.status # "held"

\* A run of d by one party's page at a time.
OfParties(d) ==
    \A p \in Pages : page[p].step # "idle" /\ page[p].dispute = d => p \in Parties

MarkTells(d) ==
    \A p \in Pages : Running(p) /\ page[p].dispute = d =>
        disputes[d].mark \in {"marking", "marked"}

OneRun(d) ==
    \A p, q \in Pages :
        Running(p) /\ Running(q) /\ page[p].dispute = d /\ page[q].dispute = d
          => p = q

NotYetSent(d) ==
    /\ disputes[d].mark \in {"not_marked", "mark_failed"} => NothingSent(d)
    /\ \A p \in Pages :
         page[p].step \in {"signing", "failing"} /\ page[p].dispute = d =>
           NothingSent(d)

AloneOK ==
    \A d \in Disputes \ shared :
        OfParties(d) /\ MarkTells(d) /\ OneRun(d) /\ NotYetSent(d)

IInv == TypeOK /\ PageOK /\ LedgerOK /\ MarkIsProven /\ AloneOK
-----------------------------------------------------------------------------
PageType == [step : Steps, via : {"none", "dialog", "panel", "admin"},
             dispute : Disputes \cup {None}, tx : Txs \cup {None}]

LEMMA NoneIsNoTx == None \notin Txs
BY MarkingConstants DEF Txs

\* What a page is after it goes on to a step, or stops.
LEMMA PageGoes ==
    ASSUME TypeOK, NEW p \in Pages, NEW step \in Steps, Goto(p, step)
    PROVE  /\ page' \in [Pages -> PageType]
           /\ page'[p].step = step /\ page'[p].via = page[p].via
           /\ page'[p].dispute = page[p].dispute /\ page'[p].tx = page[p].tx
           /\ \A q \in Pages \ {p} : page'[q] = page[q]
BY DEF TypeOK, PageType, Goto

LEMMA PageStops ==
    ASSUME TypeOK, NEW p \in Pages, Stop(p)
    PROVE  /\ page' \in [Pages -> PageType]
           /\ page'[p].step = "idle"
           /\ \A q \in Pages \ {p} : page'[q] = page[q]
<1>1. Idle \in PageType /\ Idle.step = "idle"
  BY DEF Idle, PageType, Steps
<1> HIDE DEF Idle
<1> QED
  BY <1>1 DEF TypeOK, PageType, Stop

\* A run may end at any point without a word.
LEMMA StopKeeps ==
    ASSUME IInv, NEW p \in Pages, Stop(p),
           UNCHANGED <<ledgerVars, convexVars, sentFor, shared>>
    PROVE  IInv'
<1>1. /\ page' \in [Pages -> PageType] /\ page'[p].step = "idle"
      /\ \A q \in Pages \ {p} : page'[q] = page[q]
  BY PageStops DEF IInv
<1>2. TypeOK'
  BY <1>1 DEF IInv, TypeOK, PageType, ledgerVars, convexVars
<1>3. PageOK'
  BY <1>1 DEF IInv, PageOK, ledgerVars, convexVars
<1>4. LedgerOK' /\ MarkIsProven'
  BY DEF IInv, LedgerOK, MarkIsProven, ledgerVars, convexVars
<1>5. AloneOK'
  <2> SUFFICES ASSUME NEW d \in Disputes \ shared,
                      OfParties(d), MarkTells(d), OneRun(d), NotYetSent(d)
               PROVE  (OfParties(d) /\ MarkTells(d) /\ OneRun(d) /\ NotYetSent(d))'
    BY DEF IInv, AloneOK
  <2>1. \A q \in Pages : page'[q].step # "idle" => page'[q] = page[q]
    BY <1>1
  <2>2. NothingSent(d)' <=> NothingSent(d)
    BY DEF NothingSent, ledgerVars
  <2>3. OfParties(d)' /\ MarkTells(d)' /\ OneRun(d)'
    BY <2>1 DEF OfParties, MarkTells, OneRun, Running, convexVars
  <2>4. NotYetSent(d)'
    BY <2>1, <2>2 DEF NotYetSent, convexVars
  <2> QED
    BY <2>3, <2>4
<1> QED
  BY <1>2, <1>3, <1>4, <1>5 DEF IInv

\* So may it go on to a step of which nothing is claimed, or of which no more
\* is claimed than of the step before.
LEMMA GotoKeeps ==
    ASSUME IInv, NEW p \in Pages, NEW step \in Steps \ {"idle"}, Goto(p, step),
           page[p].step # "idle",
           UNCHANGED <<ledgerVars, convexVars, sentFor, shared>>,
           page[p].step = "starting" => p \in Admins,
           step \in {"signed", "waiting", "recording", "updating",
                    "confirmed", "failing_known"} =>
             page[p].step \in {"signed", "waiting", "recording", "updating",
                              "confirmed", "failing_known"},
           step \in {"recording", "updating", "confirmed"} =>
             ledger.by = page[p].tx,
           step = "failing_known" => p \in Admins,
           step \in {"signing", "failing"} =>
             p \in Admins \/ page[p].step \in {"signing", "failing"}
    PROVE  IInv'
<1>1. /\ page' \in [Pages -> PageType]
      /\ page'[p].step = step /\ page'[p].via = page[p].via
      /\ page'[p].dispute = page[p].dispute /\ page'[p].tx = page[p].tx
      /\ \A q \in Pages \ {p} : page'[q] = page[q]
  BY PageGoes DEF IInv
<1>2. TypeOK'
  BY <1>1 DEF IInv, TypeOK, PageType, ledgerVars, convexVars
<1>3. PageOK'
  BY <1>1 DEF IInv, PageOK, ledgerVars, convexVars
<1>4. LedgerOK' /\ MarkIsProven'
  BY DEF IInv, LedgerOK, MarkIsProven, ledgerVars, convexVars
<1>5. AloneOK'
  <2> SUFFICES ASSUME NEW d \in Disputes \ shared,
                      OfParties(d), MarkTells(d), OneRun(d), NotYetSent(d)
               PROVE  (OfParties(d) /\ MarkTells(d) /\ OneRun(d) /\ NotYetSent(d))'
    BY DEF IInv, AloneOK
  <2>1. \A q \in Pages : page'[q].dispute = page[q].dispute
    BY <1>1
  <2>2. \A q \in Pages : page'[q].step # "idle" => page[q].step # "idle"
    BY <1>1
  <2>3. NothingSent(d)' <=> NothingSent(d)
    BY DEF NothingSent, ledgerVars
  <2>4. OfParties(d)'
    BY <2>1, <2>2 DEF OfParties
  <2>5. page[p].dispute = d => p \notin Admins
    BY MarkingConstants DEF OfParties
  <2>6. \A q \in Pages : Running(q)' /\ page[q].dispute = d => Running(q)
    BY <1>1, <2>5 DEF Running
  <2>7. MarkTells(d)' /\ OneRun(d)'
    BY <2>1, <2>6 DEF MarkTells, OneRun, convexVars
  <2>8. \A q \in Pages :
          page'[q].step \in {"signing", "failing"} /\ page[q].dispute = d =>
            page[q].step \in {"signing", "failing"}
    BY <1>1, <2>5
  <2>9. NotYetSent(d)'
    BY <2>1, <2>3, <2>8 DEF NotYetSent, convexVars
  <2> QED
    BY <2>4, <2>7, <2>9
<1> QED
  BY <1>2, <1>3, <1>4, <1>5 DEF IInv

LEMMA OpenKeeps ==
    ASSUME IInv, NEW p \in Pages, NEW d \in Disputes, Open(p, d)
    PROVE  IInv'
<1>1. TypeOK'
  BY MarkingConstants
  DEF IInv, TypeOK, PageOK, Pages, Steps, Marks, Status, Open, Begin,
      ledgerVars, convexVars, IsActive, Idle
<1>2. PageOK'
  BY MarkingConstants, NoneIsNoTx
  DEF IInv, TypeOK, PageOK, LedgerOK, Pages, Open, Begin, ledgerVars,
      convexVars, IsActive, Idle
<1>3. LedgerOK'
  BY MarkingConstants
  DEF IInv, TypeOK, LedgerOK, Open, Begin, ledgerVars, convexVars, IsActive,
      Idle
<1>4. MarkIsProven'
  BY MarkingConstants, NoneIsNoTx
  DEF IInv, TypeOK, PageOK, LedgerOK, MarkIsProven, Pages, Open, Begin,
      ledgerVars, convexVars, IsActive, Idle
<1>5. AloneOK'
  BY MarkingConstants
  DEF IInv, TypeOK, PageOK, AloneOK, OfParties, MarkTells, OneRun, NotYetSent,
      Running, NothingSent, Pages, Open, Begin, ledgerVars, convexVars,
      IsActive, Idle
<1> QED
  BY <1>1, <1>2, <1>3, <1>4, <1>5 DEF IInv

LEMMA RetryKeeps ==
    ASSUME IInv, NEW p \in Pages, NEW d \in Disputes, Retry(p, d)
    PROVE  IInv'
<1>1. TypeOK'
  BY MarkingConstants
  DEF IInv, TypeOK, PageOK, Pages, Steps, Marks, Status, Retry, Begin, Offered,
      ledgerVars, convexVars, IsActive, Idle
<1>2. PageOK'
  BY MarkingConstants, NoneIsNoTx
  DEF IInv, TypeOK, PageOK, LedgerOK, Pages, Retry, Begin, Offered, ledgerVars,
      convexVars, IsActive, Idle
<1>3. LedgerOK'
  BY MarkingConstants
  DEF IInv, TypeOK, LedgerOK, Retry, Begin, Offered, ledgerVars, convexVars,
      IsActive, Idle
<1>4. MarkIsProven'
  BY MarkingConstants, NoneIsNoTx
  DEF IInv, TypeOK, PageOK, LedgerOK, MarkIsProven, Pages, Retry, Begin,
      Offered, ledgerVars, convexVars, IsActive, Idle
<1>5. AloneOK'
  BY MarkingConstants
  DEF IInv, TypeOK, PageOK, AloneOK, OfParties, MarkTells, OneRun, NotYetSent,
      Running, NothingSent, Pages, Retry, Begin, Offered, ledgerVars,
      convexVars, IsActive, Idle
<1> QED
  BY <1>1, <1>2, <1>3, <1>4, <1>5 DEF IInv

LEMMA RetryByAdminKeeps ==
    ASSUME IInv, NEW p \in Pages, NEW d \in Disputes, RetryByAdmin(p, d)
    PROVE  IInv'
<1>1. TypeOK'
  BY MarkingConstants
  DEF IInv, TypeOK, PageOK, Pages, Steps, Marks, Status, RetryByAdmin, Begin,
      ledgerVars, convexVars, IsActive, Idle
<1>2. PageOK'
  BY MarkingConstants, NoneIsNoTx
  DEF IInv, TypeOK, PageOK, LedgerOK, Pages, RetryByAdmin, Begin, ledgerVars,
      convexVars, IsActive, Idle
<1>3. LedgerOK'
  BY MarkingConstants
  DEF IInv, TypeOK, LedgerOK, RetryByAdmin, Begin, ledgerVars, convexVars,
      IsActive, Idle
<1>4. MarkIsProven'
  BY MarkingConstants, NoneIsNoTx
  DEF IInv, TypeOK, PageOK, LedgerOK, MarkIsProven, Pages, RetryByAdmin, Begin,
      ledgerVars, convexVars, IsActive, Idle
<1>5. AloneOK'
  BY MarkingConstants
  DEF IInv, TypeOK, PageOK, AloneOK, OfParties, MarkTells, OneRun, NotYetSent,
      Running, NothingSent, Pages, RetryByAdmin, Begin, ledgerVars, convexVars,
      IsActive, Idle
<1> QED
  BY <1>1, <1>2, <1>3, <1>4, <1>5 DEF IInv

LEMMA StartMarkingKeeps ==
    ASSUME IInv, NEW p \in Pages, StartMarking(p)
    PROVE  IInv'
<1> DEFINE d == page[p].dispute
<1>0. /\ d \in Disputes /\ page[p].step = "starting" /\ MayStart(d)
      /\ disputes' \in [Disputes ->
           [status : {"none", "active", "cancelled", "resolved"},
            mark : Marks, hash : Txs \cup {None}]]
      /\ disputes'[d].mark = "marking" /\ disputes'[d].hash = disputes[d].hash
      /\ disputes[d].mark # "marked"
      /\ \A e \in Disputes \ {d} : disputes'[e] = disputes[e]
  BY DEF StartMarking, MayStart, IInv, TypeOK, PageOK, Marks
<1>1. /\ page' \in [Pages -> PageType]
      /\ page'[p].step = "signing" /\ page'[p].via = page[p].via
      /\ page'[p].dispute = d /\ page'[p].tx = page[p].tx
      /\ \A q \in Pages \ {p} : page'[q] = page[q]
  BY PageGoes DEF IInv, StartMarking, Steps
<1>2. /\ UNCHANGED <<ledger, flight, row, sentFor>>
      /\ shared' = IF disputes[d].mark = "marking"
                     THEN shared \cup {d} ELSE shared
  BY DEF StartMarking, ledgerVars
<1>3. TypeOK'
  BY <1>0, <1>1, <1>2 DEF IInv, TypeOK, PageType
<1>4. PageOK' /\ LedgerOK'
  BY <1>0, <1>1, <1>2 DEF IInv, PageOK, LedgerOK
<1>5. MarkIsProven'
  BY <1>0, <1>2 DEF IInv, MarkIsProven
<1>6. AloneOK'
  <2> SUFFICES ASSUME NEW e \in Disputes \ shared',
                      OfParties(e), MarkTells(e), OneRun(e), NotYetSent(e)
               PROVE  (OfParties(e) /\ MarkTells(e) /\ OneRun(e) /\ NotYetSent(e))'
    BY <1>2 DEF IInv, AloneOK
  <2>1. \A q \in Pages : page'[q].dispute = page[q].dispute
    BY <1>1
  <2>2. NothingSent(e)' <=> NothingSent(e)
    BY <1>2 DEF NothingSent
  <2>3. OfParties(e)'
    BY <1>0, <1>1, <2>1 DEF OfParties
  <2>4. CASE e = d
    <3>1. disputes[d].mark \in {"not_marked", "mark_failed"}
      BY <1>0, <1>2, <2>4 DEF MayStart
    <3>2. NothingSent(d)
      BY <2>4, <3>1 DEF NotYetSent
    <3>3. \A q \in Pages : Running(q) => page[q].dispute # d
      BY <2>4, <3>1 DEF MarkTells
    <3>4. \A q \in Pages : Running(q)' /\ page'[q].dispute = d => q = p
      BY <1>1, <3>3 DEF Running
    <3> QED
      BY <1>0, <2>2, <2>3, <2>4, <3>2, <3>4 DEF MarkTells, OneRun, NotYetSent
  <2>5. CASE e # d
    <3>1. \A q \in Pages : page[q].dispute = e => page'[q] = page[q]
      BY <1>1, <2>5
    <3>2. disputes'[e] = disputes[e]
      BY <1>0, <2>5
    <3> QED
      BY <2>1, <2>2, <2>3, <3>1, <3>2
      DEF MarkTells, OneRun, NotYetSent, Running
  <2> QED
    BY <2>4, <2>5
<1> QED
  BY <1>3, <1>4, <1>5, <1>6 DEF IInv

LEMMA FailStartKeeps ==
    ASSUME IInv, NEW p \in Pages, FailStart(p)
    PROVE  IInv'
<1>1. CASE p \in Admins
  BY <1>1, GotoKeeps DEF FailStart, Steps
<1>2. CASE p \notin Admins
  BY <1>2, StopKeeps DEF FailStart
<1> QED
  BY <1>1, <1>2

LEMMA SignKeeps ==
    ASSUME IInv, NEW p \in Pages, NEW t \in Txs, Sign(p, t)
    PROVE  IInv'
<1>1. TypeOK'
  BY MarkingConstants
  DEF IInv, TypeOK, PageOK, Pages, Steps, Marks, Status, Sign, IsNext,
      Unsigned, ledgerVars, convexVars, IsActive, Idle
<1>2. PageOK'
  BY MarkingConstants, NoneIsNoTx
  DEF IInv, TypeOK, PageOK, LedgerOK, Pages, Sign, IsNext, Unsigned,
      ledgerVars, convexVars, IsActive, Idle
<1>3. LedgerOK'
  BY MarkingConstants
  DEF IInv, TypeOK, LedgerOK, Sign, IsNext, Unsigned, ledgerVars, convexVars,
      IsActive, Idle
<1>4. MarkIsProven'
  BY MarkingConstants, NoneIsNoTx
  DEF IInv, TypeOK, PageOK, LedgerOK, MarkIsProven, Pages, Sign, IsNext,
      Unsigned, ledgerVars, convexVars, IsActive, Idle
<1>5. AloneOK'
  BY MarkingConstants
  DEF IInv, TypeOK, PageOK, AloneOK, OfParties, MarkTells, OneRun, NotYetSent,
      Running, NothingSent, Pages, Sign, IsNext, Unsigned, ledgerVars,
      convexVars, IsActive, Idle
<1> QED
  BY <1>1, <1>2, <1>3, <1>4, <1>5 DEF IInv

LEMMA DeclineKeeps ==
    ASSUME IInv, NEW p \in Pages, Decline(p)
    PROVE  IInv'
BY GotoKeeps DEF Decline, Steps

LEMMA SubmitKeeps ==
    ASSUME IInv, NEW p \in Pages, Submit(p)
    PROVE  IInv'
<1>1. TypeOK'
  BY MarkingConstants
  DEF IInv, TypeOK, PageOK, Pages, Steps, Marks, Status, Submit, Goto,
      ledgerVars, convexVars, IsActive, Idle
<1>2. PageOK'
  BY MarkingConstants, NoneIsNoTx
  DEF IInv, TypeOK, PageOK, LedgerOK, Pages, Submit, Goto, ledgerVars,
      convexVars, IsActive, Idle
<1>3. LedgerOK'
  BY MarkingConstants
  DEF IInv, TypeOK, LedgerOK, Submit, Goto, ledgerVars, convexVars, IsActive,
      Idle
<1>4. MarkIsProven'
  BY MarkingConstants, NoneIsNoTx
  DEF IInv, TypeOK, PageOK, LedgerOK, MarkIsProven, Pages, Submit, Goto,
      ledgerVars, convexVars, IsActive, Idle
<1>5. AloneOK'
  BY MarkingConstants
  DEF IInv, TypeOK, PageOK, AloneOK, OfParties, MarkTells, OneRun, NotYetSent,
      Running, NothingSent, Pages, Submit, Goto, ledgerVars, convexVars,
      IsActive, Idle
<1> QED
  BY <1>1, <1>2, <1>3, <1>4, <1>5 DEF IInv

LEMMA LandKeeps ==
    ASSUME IInv, NEW t \in flight, Land(t)
    PROVE  IInv'
<1>1. TypeOK'
  BY MarkingConstants
  DEF IInv, TypeOK, PageOK, Pages, Steps, Marks, Status, Land, ledgerVars,
      convexVars, IsActive, Idle
<1>2. PageOK'
  BY MarkingConstants, NoneIsNoTx
  DEF IInv, TypeOK, PageOK, LedgerOK, Pages, Land, ledgerVars, convexVars,
      IsActive, Idle
<1>3. LedgerOK'
  BY MarkingConstants
  DEF IInv, TypeOK, LedgerOK, Land, ledgerVars, convexVars, IsActive, Idle
<1>4. MarkIsProven'
  BY MarkingConstants, NoneIsNoTx
  DEF IInv, TypeOK, PageOK, LedgerOK, MarkIsProven, Pages, Land, ledgerVars,
      convexVars, IsActive, Idle
<1>5. AloneOK'
  BY MarkingConstants
  DEF IInv, TypeOK, PageOK, AloneOK, OfParties, MarkTells, OneRun, NotYetSent,
      Running, NothingSent, Pages, Land, ledgerVars, convexVars, IsActive, Idle
<1> QED
  BY <1>1, <1>2, <1>3, <1>4, <1>5 DEF IInv

LEMMA DropKeeps ==
    ASSUME IInv, NEW t \in flight, Drop(t)
    PROVE  IInv'
<1>1. TypeOK'
  BY MarkingConstants
  DEF IInv, TypeOK, PageOK, Pages, Steps, Marks, Status, Drop, ledgerVars,
      convexVars, IsActive, Idle
<1>2. PageOK'
  BY MarkingConstants, NoneIsNoTx
  DEF IInv, TypeOK, PageOK, LedgerOK, Pages, Drop, ledgerVars, convexVars,
      IsActive, Idle
<1>3. LedgerOK'
  BY MarkingConstants
  DEF IInv, TypeOK, LedgerOK, Drop, ledgerVars, convexVars, IsActive, Idle
<1>4. MarkIsProven'
  BY MarkingConstants, NoneIsNoTx
  DEF IInv, TypeOK, PageOK, LedgerOK, MarkIsProven, Pages, Drop, ledgerVars,
      convexVars, IsActive, Idle
<1>5. AloneOK'
  BY MarkingConstants
  DEF IInv, TypeOK, PageOK, AloneOK, OfParties, MarkTells, OneRun, NotYetSent,
      Running, NothingSent, Pages, Drop, ledgerVars, convexVars, IsActive, Idle
<1> QED
  BY <1>1, <1>2, <1>3, <1>4, <1>5 DEF IInv

LEMMA ConfirmKeeps ==
    ASSUME IInv, NEW p \in Pages, Confirm(p)
    PROVE  IInv'
<1>1. CASE p \in Admins
  BY <1>1, GotoKeeps DEF Confirm, Steps
<1>2. CASE p \notin Admins
  BY <1>2, GotoKeeps DEF Confirm, Steps
<1> QED
  BY <1>1, <1>2

LEMMA LoseTrackKeeps ==
    ASSUME IInv, NEW p \in Pages, LoseTrack(p)
    PROVE  IInv'
<1>0. /\ page[p].step \in {"signed", "waiting"}
      /\ IF p \in Admins THEN page[p].via = "admin"
                         ELSE page[p].via \in {"dialog", "panel"}
  BY DEF LoseTrack, IInv, PageOK
<1>1. CASE page[p].via = "admin"
  BY <1>0, <1>1, GotoKeeps DEF LoseTrack, Steps
<1>2. CASE page[p].via = "panel"
  BY <1>0, <1>2, GotoKeeps DEF LoseTrack, Steps
<1>3. CASE page[p].via = "dialog"
  BY <1>0, <1>3, StopKeeps DEF LoseTrack
<1> QED
  BY <1>0, <1>1, <1>2, <1>3

LEMMA RecordMarkKeeps ==
    ASSUME IInv, NEW p \in Pages, RecordMark(p)
    PROVE  IInv'
<1> DEFINE d == page[p].dispute
           t == page[p].tx
<1>0. /\ d \in Disputes /\ t \in Txs /\ page[p].step = "recording"
      /\ ledger.by = t /\ sentFor[t] = d /\ MayRecord(d, t)
  BY DEF RecordMark, IInv, PageOK
<1>1. /\ disputes' \in [Disputes ->
           [status : {"none", "active", "cancelled", "resolved"},
            mark : Marks, hash : Txs \cup {None}]]
      /\ disputes'[d].mark = "marked" /\ disputes'[d].hash = t
      /\ \A e \in Disputes \ {d} : disputes'[e] = disputes[e]
  <2> DEFINE Row == [status : {"none", "active", "cancelled", "resolved"},
                     mark : Marks, hash : Txs \cup {None}]
             new == [disputes[d] EXCEPT !.mark = "marked",
                                        !.hash = IF @ = None THEN t ELSE @]
  <2>1. disputes \in [Disputes -> Row]
    BY DEF IInv, TypeOK
  <2>2. disputes' = [disputes EXCEPT ![d] = new]
    BY DEF RecordMark
  <2>3. new \in Row /\ new.mark = "marked"
    BY <1>0, <2>1 DEF Marks
  <2>4. new.hash = t
    BY <1>0, <2>1, NoneIsNoTx DEF MayRecord, Agrees
  <2> HIDE DEF Row, new, d, t
  <2>5. /\ disputes' \in [Disputes -> Row] /\ disputes'[d] = new
        /\ \A e \in Disputes \ {d} : disputes'[e] = disputes[e]
    BY <1>0, <2>1, <2>2, <2>3
  <2> QED
    BY <2>3, <2>4, <2>5 DEF Row
<1>2. /\ page' \in [Pages -> PageType]
      /\ page'[p].step \in {"idle", "updating"}
      /\ page'[p].step = "updating" =>
           page'[p].via = page[p].via /\ page'[p].dispute = d /\ page'[p].tx = t
      /\ \A q \in Pages \ {p} : page'[q] = page[q]
  <2>1. CASE p \in Admins
    BY <2>1, PageStops DEF IInv, RecordMark
  <2>2. CASE p \notin Admins
    BY <2>2, PageGoes DEF IInv, RecordMark, Steps
  <2> QED
    BY <2>1, <2>2
<1>3. UNCHANGED <<ledger, flight, row, sentFor, shared>>
  BY DEF RecordMark, ledgerVars
<1>4. TypeOK'
  BY <1>1, <1>2, <1>3 DEF IInv, TypeOK, PageType
<1>5. PageOK' /\ LedgerOK'
  BY <1>0, <1>2, <1>3 DEF IInv, PageOK, LedgerOK
<1>6. MarkIsProven'
  BY <1>0, <1>1, <1>3 DEF IInv, MarkIsProven
<1>7. AloneOK'
  <2> SUFFICES ASSUME NEW e \in Disputes \ shared,
                      OfParties(e), MarkTells(e), OneRun(e), NotYetSent(e)
               PROVE  (OfParties(e) /\ MarkTells(e) /\ OneRun(e) /\ NotYetSent(e))'
    BY <1>3 DEF IInv, AloneOK
  <2>1. \A q \in Pages : page'[q].step # "idle" =>
          /\ page'[q].dispute = page[q].dispute /\ Running(q) = Running(q)'
          /\ page[q].step # "idle"
          /\ page'[q].step \in {"signing", "failing"} => page'[q] = page[q]
    BY <1>0, <1>2 DEF Running
  <2>2. NothingSent(e)' <=> NothingSent(e)
    BY <1>3 DEF NothingSent
  <2>3. OfParties(e)' /\ OneRun(e)'
    BY <2>1 DEF OfParties, OneRun, Running
  <2>4. disputes'[e].mark \in {disputes[e].mark, "marked"}
    BY <1>1
  <2>5. MarkTells(e)'
    BY <2>1, <2>4 DEF MarkTells, Running
  <2>6. NotYetSent(e)'
    BY <2>1, <2>2, <2>4 DEF NotYetSent
  <2> QED
    BY <2>3, <2>5, <2>6
<1> QED
  BY <1>4, <1>5, <1>6, <1>7 DEF IInv

LEMMA RecordRowKeeps ==
    ASSUME IInv, NEW p \in Pages, RecordRow(p)
    PROVE  IInv'
<1>0. page[p].step = "updating" /\ page[p].dispute \in Disputes
      /\ ledger.by = page[p].tx /\ page[p].tx \in Txs
      /\ sentFor[page[p].tx] = page[p].dispute
  BY DEF RecordRow, IInv, PageOK
<1>1. /\ page' \in [Pages -> PageType]
      /\ page'[p].step \in {"idle", "recording"}
      /\ page'[p].step = "recording" =>
           /\ page'[p].via = page[p].via /\ page'[p].tx = page[p].tx
           /\ page'[p].dispute = page[p].dispute
      /\ \A q \in Pages \ {p} : page'[q] = page[q]
  <2>1. CASE p \in Admins
    BY <2>1, PageGoes DEF IInv, RecordRow, Steps
  <2>2. CASE p \notin Admins
    BY <2>2, PageStops DEF IInv, RecordRow
  <2> QED
    BY <2>1, <2>2
<1>2. row' = "disputed" /\ UNCHANGED <<ledger, flight, disputes, sentFor, shared>>
  BY DEF RecordRow, ledgerVars
<1>3. TypeOK'
  BY <1>1, <1>2 DEF IInv, TypeOK, PageType, Status
<1>4. PageOK' /\ LedgerOK' /\ MarkIsProven'
  BY <1>0, <1>1, <1>2 DEF IInv, PageOK, LedgerOK, MarkIsProven
<1>5. AloneOK'
  <2> SUFFICES ASSUME NEW e \in Disputes \ shared,
                      OfParties(e), MarkTells(e), OneRun(e), NotYetSent(e)
               PROVE  (OfParties(e) /\ MarkTells(e) /\ OneRun(e) /\ NotYetSent(e))'
    BY <1>2 DEF IInv, AloneOK
  <2>1. \A q \in Pages : page'[q].step # "idle" =>
          /\ page'[q].dispute = page[q].dispute /\ Running(q) = Running(q)'
          /\ page[q].step # "idle"
          /\ page'[q].step \in {"signing", "failing"} => page'[q] = page[q]
    BY <1>0, <1>1 DEF Running
  <2>2. NothingSent(e)' <=> NothingSent(e)
    BY <1>2 DEF NothingSent
  <2>3. OfParties(e)' /\ OneRun(e)' /\ MarkTells(e)'
    BY <1>2, <2>1 DEF OfParties, OneRun, MarkTells, Running
  <2>4. NotYetSent(e)'
    BY <1>2, <2>1, <2>2 DEF NotYetSent
  <2> QED
    BY <2>3, <2>4
<1> QED
  BY <1>3, <1>4, <1>5 DEF IInv

LEMMA FailRecordingKeeps ==
    ASSUME IInv, NEW p \in Pages, FailRecording(p)
    PROVE  IInv'
<1>0. /\ page[p].step \in {"recording", "updating"}
      /\ ledger.by = page[p].tx
      /\ IF p \in Admins THEN page[p].via = "admin"
                         ELSE page[p].via \in {"dialog", "panel"}
  BY DEF FailRecording, IInv, PageOK
<1>1. CASE page[p].via = "admin"
  BY <1>0, <1>1, GotoKeeps DEF FailRecording, Steps
<1>2. CASE page[p].via = "panel"
  BY <1>0, <1>2, GotoKeeps DEF FailRecording, Steps
<1>3. CASE page[p].via = "dialog"
  BY <1>0, <1>3, StopKeeps DEF FailRecording
<1> QED
  BY <1>0, <1>1, <1>2, <1>3

LEMMA RetryRecordingKeeps ==
    ASSUME IInv, NEW p \in Pages, RetryRecording(p)
    PROVE  IInv'
BY GotoKeeps DEF RetryRecording, Steps, IInv, PageOK

LEMMA ReportFailureKeeps ==
    ASSUME IInv, NEW p \in Pages, ReportFailure(p)
    PROVE  IInv'
<1> DEFINE d == page[p].dispute
           hash == IF page[p].step = "failing_known" THEN page[p].tx ELSE None
           new == AfterFailure(d, hash)
<1>0. /\ d \in Disputes /\ page[p].step \in {"failing", "failing_known"}
      /\ hash \in Txs \cup {None}
      /\ disputes' = [disputes EXCEPT ![d] = new]
  BY DEF ReportFailure, IInv, PageOK
<1>1. /\ new \in [status : {"none", "active", "cancelled", "resolved"},
                  mark : Marks, hash : Txs \cup {None}]
      /\ disputes[d].mark = "marked" => new = disputes[d]
      /\ new.mark \in {disputes[d].mark, "mark_failed"}
      /\ disputes[d].mark = "not_marked" => new.mark = "not_marked"
      /\ new.mark = "marked" => disputes[d].mark = "marked"
  <2>1. disputes[d] \in [status : {"none", "active", "cancelled", "resolved"},
                         mark : Marks, hash : Txs \cup {None}]
    BY <1>0 DEF IInv, TypeOK
  <2>2. CASE /\ IsActive(d) /\ Agrees(d, hash)
             /\ disputes[d].mark \in {"marking", "mark_failed"}
    <3>1. new = [disputes[d] EXCEPT !.mark = "mark_failed",
                     !.hash = IF disputes[d].hash = None
                                THEN hash ELSE disputes[d].hash]
      BY <2>1, <2>2 DEF AfterFailure
    <3> HIDE DEF new, hash
    <3> QED
      BY <1>0, <2>1, <2>2, <3>1 DEF Marks
  <2>3. CASE ~(/\ IsActive(d) /\ Agrees(d, hash)
               /\ disputes[d].mark \in {"marking", "mark_failed"})
    <3>1. new = disputes[d]
      BY <2>3 DEF AfterFailure
    <3> HIDE DEF new, hash
    <3> QED
      BY <2>1, <3>1
  <2> QED
    BY <2>2, <2>3
<1> HIDE DEF new, hash
<1>2. /\ page' \in [Pages -> PageType] /\ page'[p].step = "idle"
      /\ \A q \in Pages \ {p} : page'[q] = page[q]
  BY PageStops DEF IInv, ReportFailure
<1>3. UNCHANGED <<ledger, flight, row, sentFor, shared>>
  BY DEF ReportFailure, ledgerVars
<1>4. disputes'[d] = new /\ \A e \in Disputes \ {d} : disputes'[e] = disputes[e]
  BY <1>0 DEF IInv, TypeOK
<1>5. TypeOK'
  BY <1>0, <1>1, <1>2, <1>3 DEF IInv, TypeOK, PageType
<1>6. PageOK' /\ LedgerOK'
  BY <1>2, <1>3 DEF IInv, PageOK, LedgerOK
<1>7. MarkIsProven'
  BY <1>1, <1>3, <1>4 DEF IInv, MarkIsProven
<1>8. d \notin shared => page[p].step = "failing" /\ NothingSent(d)
  BY <1>0, MarkingConstants DEF IInv, PageOK, AloneOK, OfParties, NotYetSent
<1>9. AloneOK'
  <2> SUFFICES ASSUME NEW e \in Disputes \ shared,
                      OfParties(e), MarkTells(e), OneRun(e), NotYetSent(e)
               PROVE  (OfParties(e) /\ MarkTells(e) /\ OneRun(e) /\ NotYetSent(e))'
    BY <1>3 DEF IInv, AloneOK
  <2>1. \A q \in Pages : page'[q].step # "idle" => q # p /\ page'[q] = page[q]
    BY <1>2
  <2>2. NothingSent(e)' <=> NothingSent(e)
    BY <1>3 DEF NothingSent
  <2>3. OfParties(e)' /\ OneRun(e)'
    BY <2>1 DEF OfParties, OneRun, Running
  <2>4. \A q \in Pages : q # p /\ Running(q) => page[q].dispute # d \/ d # e
    BY <1>0 DEF OneRun, Running
  <2>5. MarkTells(e)'
    BY <1>4, <2>1, <2>4 DEF MarkTells, Running
  <2>6. disputes'[e].mark \in {"not_marked", "mark_failed"} => NothingSent(e)
    BY <1>1, <1>4, <1>8 DEF NotYetSent
  <2>7. NotYetSent(e)'
    BY <2>1, <2>2, <2>6 DEF NotYetSent
  <2> QED
    BY <2>3, <2>5, <2>7
<1> QED
  BY <1>5, <1>6, <1>7, <1>9 DEF IInv

LEMMA CloseKeeps ==
    ASSUME IInv, NEW p \in Pages, Close(p)
    PROVE  IInv'
BY StopKeeps DEF Close

LEMMA ChangeDisputeStatusKeeps ==
    ASSUME IInv, NEW d \in Disputes, NEW s \in {"active", "cancelled"}, ChangeDisputeStatus(d, s)
    PROVE  IInv'
<1>1. TypeOK'
  BY MarkingConstants
  DEF IInv, TypeOK, PageOK, Pages, Steps, Marks, Status, ChangeDisputeStatus,
      ledgerVars, convexVars, IsActive, Idle
<1>2. PageOK'
  BY MarkingConstants, NoneIsNoTx
  DEF IInv, TypeOK, PageOK, LedgerOK, Pages, ChangeDisputeStatus, ledgerVars,
      convexVars, IsActive, Idle
<1>3. LedgerOK'
  BY MarkingConstants
  DEF IInv, TypeOK, LedgerOK, ChangeDisputeStatus, ledgerVars, convexVars,
      IsActive, Idle
<1>4. MarkIsProven'
  BY MarkingConstants, NoneIsNoTx
  DEF IInv, TypeOK, PageOK, LedgerOK, MarkIsProven, Pages, ChangeDisputeStatus,
      ledgerVars, convexVars, IsActive, Idle
<1>5. AloneOK'
  BY MarkingConstants
  DEF IInv, TypeOK, PageOK, AloneOK, OfParties, MarkTells, OneRun, NotYetSent,
      Running, NothingSent, Pages, ChangeDisputeStatus, ledgerVars, convexVars,
      IsActive, Idle
<1> QED
  BY <1>1, <1>2, <1>3, <1>4, <1>5 DEF IInv

LEMMA CloseEscrowKeeps ==
    ASSUME IInv, CloseEscrow
    PROVE  IInv'
<1>1. TypeOK'
  BY MarkingConstants
  DEF IInv, TypeOK, PageOK, Pages, Steps, Marks, Status, CloseEscrow,
      ledgerVars, convexVars, IsActive, Idle
<1>2. PageOK'
  BY MarkingConstants, NoneIsNoTx
  DEF IInv, TypeOK, PageOK, LedgerOK, Pages, CloseEscrow, ledgerVars,
      convexVars, IsActive, Idle
<1>3. LedgerOK'
  BY MarkingConstants
  DEF IInv, TypeOK, LedgerOK, CloseEscrow, ledgerVars, convexVars, IsActive,
      Idle
<1>4. MarkIsProven'
  BY MarkingConstants, NoneIsNoTx
  DEF IInv, TypeOK, PageOK, LedgerOK, MarkIsProven, Pages, CloseEscrow,
      ledgerVars, convexVars, IsActive, Idle
<1>5. AloneOK'
  BY MarkingConstants
  DEF IInv, TypeOK, PageOK, AloneOK, OfParties, MarkTells, OneRun, NotYetSent,
      Running, NothingSent, Pages, CloseEscrow, ledgerVars, convexVars,
      IsActive, Idle
<1> QED
  BY <1>1, <1>2, <1>3, <1>4, <1>5 DEF IInv

LEMMA SyncKeeps ==
    ASSUME IInv, Sync
    PROVE  IInv'
<1>1. TypeOK'
  BY MarkingConstants
  DEF IInv, TypeOK, PageOK, Pages, Steps, Marks, Status, Sync, ledgerVars,
      convexVars, IsActive, Idle
<1>2. PageOK'
  BY MarkingConstants, NoneIsNoTx
  DEF IInv, TypeOK, PageOK, LedgerOK, Pages, Sync, ledgerVars, convexVars,
      IsActive, Idle
<1>3. LedgerOK'
  BY MarkingConstants
  DEF IInv, TypeOK, LedgerOK, Sync, ledgerVars, convexVars, IsActive, Idle
<1>4. MarkIsProven'
  BY MarkingConstants, NoneIsNoTx
  DEF IInv, TypeOK, PageOK, LedgerOK, MarkIsProven, Pages, Sync, ledgerVars,
      convexVars, IsActive, Idle
<1>5. AloneOK'
  BY MarkingConstants
  DEF IInv, TypeOK, PageOK, AloneOK, OfParties, MarkTells, OneRun, NotYetSent,
      Running, NothingSent, Pages, Sync, ledgerVars, convexVars, IsActive, Idle
<1> QED
  BY <1>1, <1>2, <1>3, <1>4, <1>5 DEF IInv

LEMMA RecordSettlementKeeps ==
    ASSUME IInv, NEW d \in Disputes, RecordSettlement(d)
    PROVE  IInv'
<1>1. TypeOK'
  BY MarkingConstants
  DEF IInv, TypeOK, PageOK, Pages, Steps, Marks, Status, RecordSettlement,
      ledgerVars, convexVars, IsActive, Idle
<1>2. PageOK'
  BY MarkingConstants, NoneIsNoTx
  DEF IInv, TypeOK, PageOK, LedgerOK, Pages, RecordSettlement, ledgerVars,
      convexVars, IsActive, Idle
<1>3. LedgerOK'
  BY MarkingConstants
  DEF IInv, TypeOK, LedgerOK, RecordSettlement, ledgerVars, convexVars,
      IsActive, Idle
<1>4. MarkIsProven'
  BY MarkingConstants, NoneIsNoTx
  DEF IInv, TypeOK, PageOK, LedgerOK, MarkIsProven, Pages, RecordSettlement,
      ledgerVars, convexVars, IsActive, Idle
<1>5. AloneOK'
  BY MarkingConstants
  DEF IInv, TypeOK, PageOK, AloneOK, OfParties, MarkTells, OneRun, NotYetSent,
      Running, NothingSent, Pages, RecordSettlement, ledgerVars, convexVars,
      IsActive, Idle
<1> QED
  BY <1>1, <1>2, <1>3, <1>4, <1>5 DEF IInv

-----------------------------------------------------------------------------
LEMMA InitIsSafe == Init => IInv
<1> SUFFICES ASSUME Init PROVE IInv
  OBVIOUS
<1>1. TypeOK
  BY MarkingConstants DEF Init, TypeOK, Absent, Idle, Status, Marks, Steps
<1>2. PageOK /\ LedgerOK /\ MarkIsProven
  BY DEF Init, PageOK, LedgerOK, MarkIsProven, Absent, Idle
<1>3. AloneOK
  <2> SUFFICES ASSUME NEW d \in Disputes
               PROVE  OfParties(d) /\ MarkTells(d) /\ OneRun(d) /\ NotYetSent(d)
    BY DEF AloneOK
  <2>1. \A p \in Pages : page[p].step = "idle"
    BY DEF Init, Idle
  <2>2. NothingSent(d)
    BY MarkingConstants DEF Init, NothingSent
  <2> QED
    BY <2>1, <2>2 DEF OfParties, MarkTells, OneRun, NotYetSent, Running
<1> QED
  BY <1>1, <1>2, <1>3 DEF IInv

LEMMA NextIsSafe == IInv /\ [Next]_vars => IInv'
<1> SUFFICES ASSUME IInv, [Next]_vars PROVE IInv'
  OBVIOUS
<1>1. CASE UNCHANGED vars
  BY <1>1
  DEF IInv, TypeOK, PageOK, LedgerOK, MarkIsProven, AloneOK, OfParties,
      MarkTells,
              OneRun, NotYetSent, Running, NothingSent, IsActive, vars, ledgerVars, convexVars
<1>2. ASSUME NEW p \in Pages, PageStep(p) PROVE IInv'
  BY <1>2, OpenKeeps, RetryKeeps, RetryByAdminKeeps, StartMarkingKeeps,
     FailStartKeeps, SignKeeps, DeclineKeeps, SubmitKeeps, ConfirmKeeps,
     LoseTrackKeeps, RecordMarkKeeps, RecordRowKeeps, FailRecordingKeeps,
     RetryRecordingKeeps, ReportFailureKeeps, CloseKeeps
  DEF PageStep
<1>3. ASSUME NEW t \in flight, Land(t) \/ Drop(t) PROVE IInv'
  BY <1>3, LandKeeps, DropKeeps
<1>4. ASSUME NEW d \in Disputes, DisputeStep(d) PROVE IInv'
  BY <1>4, RecordSettlementKeeps, ChangeDisputeStatusKeeps DEF DisputeStep
<1>5. CASE CloseEscrow \/ Sync
  BY <1>5, CloseEscrowKeeps, SyncKeeps
<1> QED
  BY <1>1, <1>2, <1>3, <1>4, <1>5 DEF Next

LEMMA AlwaysSafe == Spec => []IInv
BY InitIsSafe, NextIsSafe, PTL DEF Spec

\* Every row, page and transaction has a value of its kind, for any number of
\* them.
THEOREM MarkingTypeCorrect == Spec => []TypeOK
<1>1. IInv => TypeOK
  BY DEF IInv
<1> QED
  BY <1>1, AlwaysSafe, PTL

\* A dispute shows as marked only on the evidence of the transaction that
\* marked the escrow (markDisputeOnChainSucceeded and its callers).
THEOREM MarkProven == Spec => []MarkIsProven
<1>1. IInv => MarkIsProven
  BY DEF IInv
<1> QED
  BY <1>1, AlwaysSafe, PTL

\* While a dispute is run by one party's page at a time, the panel's offer to
\* mark it again is safe (isParticipantOutcomeUncertain).
THEOREM RetrySafeAlone == Spec => []RetryIsSafeAlone
<1>1. IInv => RetryIsSafeAlone
  BY DEF IInv, AloneOK, NotYetSent, RetryIsSafeAlone, Offered
<1> QED
  BY <1>1, AlwaysSafe, PTL

\* No callback changes a confirmed mark or its hash.
THEOREM MarkFinal == Spec => MarkIsFinal
<1> DEFINE Stays == \A d \in Disputes : disputes[d].mark = "marked" =>
                      /\ disputes'[d].mark = "marked"
                      /\ disputes'[d].hash = disputes[d].hash
<1>1. IInv /\ [Next]_vars => Stays
  <2> SUFFICES ASSUME IInv, [Next]_vars, NEW d \in Disputes,
                      disputes[d].mark = "marked"
               PROVE  /\ disputes'[d].mark = "marked"
                      /\ disputes'[d].hash = disputes[d].hash
    OBVIOUS
  <2>0. /\ disputes \in [Disputes ->
              [status : {"none", "active", "cancelled", "resolved"},
               mark : Marks, hash : Txs \cup {None}]]
        /\ disputes[d].hash # None
    BY NoneIsNoTx DEF IInv, TypeOK, MarkIsProven
  <2>1. ASSUME NEW p \in Pages, NEW e \in Disputes, Open(p, e)
        PROVE  disputes'[d].mark = "marked" /\ disputes'[d].hash = disputes[d].hash
    BY <2>0, <2>1 DEF Open
  <2>2. ASSUME NEW p \in Pages, StartMarking(p)
        PROVE  disputes'[d].mark = "marked" /\ disputes'[d].hash = disputes[d].hash
    BY <2>0, <2>2 DEF StartMarking, MayStart
  <2>3. ASSUME NEW p \in Pages, RecordMark(p)
        PROVE  disputes'[d].mark = "marked" /\ disputes'[d].hash = disputes[d].hash
    BY <2>0, <2>3 DEF RecordMark, MayRecord, Agrees
  <2>4. ASSUME NEW p \in Pages, ReportFailure(p)
        PROVE  disputes'[d].mark = "marked" /\ disputes'[d].hash = disputes[d].hash
    BY <2>0, <2>4 DEF ReportFailure, AfterFailure
  <2>5. ASSUME NEW e \in Disputes, DisputeStep(e)
        PROVE  disputes'[d].mark = "marked" /\ disputes'[d].hash = disputes[d].hash
    BY <2>0, <2>5 DEF DisputeStep, RecordSettlement, ChangeDisputeStatus
  <2>6. CASE UNCHANGED disputes
    BY <2>6
  <2> QED
    BY <2>1, <2>2, <2>3, <2>4, <2>5, <2>6
    DEF Next, PageStep, Retry, RetryByAdmin, FailStart, Sign, Decline, Submit,
        Confirm, LoseTrack, RecordRow, FailRecording, RetryRecording, Close,
        Land, Drop, CloseEscrow, Sync, vars, convexVars
<1> QED
  BY <1>1, AlwaysSafe, PTL DEF Spec, MarkIsFinal

-----------------------------------------------------------------------------
(* The ledger as Custody sees it. *)

StageView == [e \in {"escrow"} |-> ledger.status]
WorkerView == [e \in {"escrow"} |-> "freelancer"]

LEMMA MarkingCustodyStep ==
    ASSUME IInv, [Next]_vars
    PROVE  [Keeping!Next]_(<<StageView, WorkerView>>)
<1> USE DEF Keeping!Move
<1>0. ledger \in [status : Status, by : Txs \cup {None}]
  BY DEF IInv, TypeOK
<1>1. CASE UNCHANGED ledger
  BY <1>1 DEF StageView, WorkerView
<1>2. ASSUME NEW t \in flight, Land(t)
      PROVE  Keeping!Next
  <2>1. Keeping!Dispute("escrow")
    BY <1>2 DEF Land, Keeping!Dispute
  <2> QED  BY <2>1 DEF Keeping!Next
<1>3. CASE CloseEscrow
  <2>1. ledger.status \in {"held", "disputed"} /\ ledger'.status = "closed"
    BY <1>0, <1>3 DEF CloseEscrow
  <2>2. Keeping!Close("escrow")
    BY <2>1 DEF Keeping!Close
  <2> QED  BY <2>2 DEF Keeping!Next
<1>4. ASSUME NEW p \in Pages, PageStep(p)
      PROVE  UNCHANGED ledger
  BY <1>4
  DEF PageStep, Open, Retry, RetryByAdmin, StartMarking, FailStart, Sign,
      Decline, Submit, Confirm, LoseTrack, RecordMark, RecordRow,
      FailRecording, RetryRecording, ReportFailure, Close, ledgerVars
<1>5. ASSUME \/ \E t \in flight : Drop(t)
             \/ \E d \in Disputes : DisputeStep(d)
             \/ Sync \/ UNCHANGED vars
      PROVE  UNCHANGED ledger
  BY <1>5 DEF Drop, DisputeStep, RecordSettlement, ChangeDisputeStatus, Sync,
              vars, ledgerVars
<1> QED  BY <1>1, <1>2, <1>3, <1>4, <1>5 DEF Next

\* Pages, admins and late transactions move the ledger only as the contract
\* promises: of the marks that were signed one is taken in, and none once the
\* escrow is closed.
THEOREM MarkingKeepsCustody == Spec => KeepsCustody
<1>1. IInv /\ [Next]_vars => [Keeping!Next]_(Keeping!vars)
  BY MarkingCustodyStep DEF Keeping!vars, StageView, WorkerView
<1> QED
  BY <1>1, AlwaysSafe, PTL DEF Spec, KeepsCustody, Keeping!Kept

=============================================================================
