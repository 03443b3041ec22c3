-------------------------- MODULE MCDisputeMarking --------------------------
(* The pages, the disputes and the transactions of a cfg, for TLC.          *)
EXTENDS DisputeMarking, TLC

PageSymmetry == Permutations(Parties) \cup Permutations(Disputes)
=============================================================================
