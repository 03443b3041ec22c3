-------------------------- MODULE MCWorkAgreements --------------------------
(* A small instance of WorkAgreements. *)
EXTENDS WorkAgreements, TLC

CONSTANTS a1, a2, t1, t2, f1, f2

MCSymmetry == Permutations(Agreements) \cup Permutations(Texts)
                \cup Permutations(Freelancers)
=============================================================================
