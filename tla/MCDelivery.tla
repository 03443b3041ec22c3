----------------------------- MODULE MCDelivery -----------------------------
(* Two pages of the freelancer and up to two submissions, for TLC.          *)
EXTENDS Delivery, TLC

PageSymmetry == Permutations(Pages)

\* Bound: both pages are at work only while the escrow is neither closed nor
\* in a dispute.
OneTrouble ==
    (\A p \in Pages : page[p] # Idle) => dispute = "none" /\ ledger.status # "closed"
=============================================================================
