--------------------------- MODULE MCEscrowMirror ---------------------------
(* A small instance of EscrowMirror. *)
EXTENDS EscrowMirror, TLC

CONSTANTS c1, c2, f1, a1

\* The client's tabs are interchangeable, and no temporal property is checked
\* beyond single steps.
TabSymmetry == Permutations(ClientTabs)

Busy(t) == tab[t] # Idle

\* Bounds: what goes wrong does so in one place at a time.  The second client
\* tab, which may create a second escrow, is used until there is any work, and
\* neither beside an admin nor beside a late transaction; no admin works, and
\* nobody revises, beside a late transaction.  A posted escrow has no late
\* transaction once it is recorded, no second tab once it is assigned, and no
\* revisions.
SecondTab == chain[2].status # "none" \/ \A t \in ClientTabs : Busy(t)
AdminAtWork == \E t \in AdminTabs : Busy(t)
Revising ==
    \/ work \in {"sent_back", "returned", "in_revision"}
    \/ job \in {"revision_requested", "revision_submitted"}
Posted ==
    \/ \E op \in {"post", "assign"} :
         op \in {tab[t].op : t \in Tabs} \cup {tx.op : tx \in late}
    \/ freelancer.row = "assigned"
    \/ freelancer.row = "none" /\ RowIds # {}

OneTrouble ==
    /\ SecondTab => late = {} /\ ~AdminAtWork /\ work = "none"
    /\ AdminAtWork => late = {}
    /\ Posted /\ RowIds # {} =>
         late = {} /\ (SecondTab => freelancer.row = "none")
    /\ Revising => late = {} /\ ~Posted
=============================================================================
