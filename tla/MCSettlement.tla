---------------------------- MODULE MCSettlement ----------------------------
(* Settlement with the owner, one dispute admin and the operations of a cfg. *)
EXTENDS Settlement, TLC

CONSTANTS owner, admin, op1, op2

MCOtherAdmin == {admin}
MCOps == {op1, op2}

\* Bound: a recording comes late in cases with one press of Resolve, where
\* nobody is dismissed and the RPC server still knows every transaction.
OneThingAtATime ==
    unrecorded # Unrecorded =>
        /\ Cardinality({op \in Ops : tab[op] # "idle"}) <= 1
        /\ members = OtherAdmin
        /\ forgotten = {}

MCSymmetry == Permutations(MCOps)
=============================================================================
