----------------------------- MODULE AgreedTerms -----------------------------
(***************************************************************************)
(* What a work agreement promises to the two parties of a job, without the *)
(* drafts, the sending and the storage of it: at most one agreement stands *)
(* at a time; from the acceptance on, its terms and the freelancer who     *)
(* accepted them never change; it may be withdrawn until it is locked, and *)
(* a locked agreement stands for good.                                     *)
(***************************************************************************)
CONSTANTS Agreements, Texts, Freelancers, None

VARIABLE deal   \* the deal made under each agreement, or None

Standing == {a \in Agreements : deal[a] # None}

Init == deal = [a \in Agreements |-> None]

Accept(a, text, f) ==
    /\ Standing = {}
    /\ deal' = [deal EXCEPT ![a] =
                  [text |-> text, freelancer |-> f, status |-> "accepted"]]

Withdraw(a) ==
    /\ a \in Standing /\ deal[a].status = "accepted"
    /\ deal' = [deal EXCEPT ![a] = None]

Lock(a) ==
    /\ a \in Standing /\ deal[a].status = "accepted"
    /\ deal' = [deal EXCEPT ![a].status = "locked"]

Next ==
    \E a \in Agreements :
        \/ \E text \in Texts, f \in Freelancers : Accept(a, text, f)
        \/ Withdraw(a)
        \/ Lock(a)

Spec == Init /\ [][Next]_deal

=============================================================================
