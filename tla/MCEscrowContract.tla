-------------------------- MODULE MCEscrowContract --------------------------
(* EscrowContract on three wallets, two tokens and two escrows. *)
EXTENDS EscrowContract, TLC

CONSTANTS w1, w2, w3, escrowContract, xlm, usdc

MCAccount == {w1, w2, w3}
MCAddress == {w1, w2, w3, escrowContract}
MCAsset == {xlm, usdc}
MCAmounts == {0, 20003}
MCRatings == {0, 4, 5}
MCShares == {0, 5000, 10000, 10001}

\* What a wallet makes up: a job that no escrow of the contract can be about.
MCClaims ==
    [client: {escrowContract}, freelancer: {escrowContract}, asset: MCAsset,
     amount: {20003}, rating: {5}]

\* Bounds: one dispute admin besides the platform admin, appointed where there
\* is no allow-list; and where the reputation contract obeys a wallet, one
\* completion the wallet made up, with one escrow beside it.
OneThingAtATime ==
    /\ Cardinality(disputeAdmins) <= 1
    /\ disputeAdmins = {} \/ allowedAssets = {}
    /\ authorized \in MCAccount /\ completions # << >> =>
           nextEscrowId <= 2 /\ Cardinality(DOMAIN completions) = 1

MCSymmetry == Permutations(MCAccount) \cup Permutations(MCAsset)
=============================================================================
