-------------------------- MODULE MCCancellations --------------------------
(* The requests and the client's pages of the cfg, for TLC.                *)
EXTENDS Cancellations, TLC

PageSymmetry == Permutations(Pages)
=============================================================================
