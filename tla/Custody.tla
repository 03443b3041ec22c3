------------------------------- MODULE Custody -------------------------------
(***************************************************************************)
(* What the escrow contract promises about each escrow, without tokens,    *)
(* wallets and calls: its money is put in once and leaves once, nobody who *)
(* works for it is replaced, a dispute is between two parties, and what is *)
(* closed stays closed.  Every other module sees the contract through a    *)
(* view of its own; each of these views is shown to keep this promise, as  *)
(* the contract does.                                                      *)
(***************************************************************************)
CONSTANTS Escrows, Workers, Nobody

VARIABLES
    stage,    \* of each escrow: "none", "open" without money, "held",
              \* "disputed", or "closed" with the money paid out or returned
    worker    \* the freelancer of each escrow, or Nobody

vars == <<stage, worker>>

Init ==
    /\ stage = [e \in Escrows |-> "none"]
    /\ worker = [e \in Escrows |-> Nobody]

Move(e, from, to) ==
    /\ stage[e] \in from
    /\ stage' = [stage EXCEPT ![e] = to]

\* Only an escrow that names no freelancer may be created with its money.
Create(e, to, w) ==
    /\ Move(e, {"none"}, to)
    /\ to = "held" => w = Nobody
    /\ worker' = [worker EXCEPT ![e] = w]

Fund(e) == Move(e, {"open"}, "held") /\ UNCHANGED worker

Assign(e, w) ==
    /\ stage[e] \in {"open", "held"} /\ worker[e] = Nobody
    /\ worker' = [worker EXCEPT ![e] = w]
    /\ UNCHANGED stage

Dispute(e) ==
    /\ worker[e] # Nobody
    /\ Move(e, {"held"}, "disputed")
    /\ UNCHANGED worker

Close(e) == Move(e, {"open", "held", "disputed"}, "closed") /\ UNCHANGED worker

Next ==
    \E e \in Escrows :
        \/ \E to \in {"open", "held"}, w \in Workers \cup {Nobody} : Create(e, to, w)
        \/ Fund(e) \/ Dispute(e) \/ Close(e)
        \/ \E w \in Workers : Assign(e, w)

\* Some modules begin when their escrow is held or disputed already: they keep
\* the promise from there on.
Kept == [][Next]_vars

Spec == Init /\ Kept

=============================================================================
