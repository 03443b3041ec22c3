--------------------------- MODULE EscrowContract ---------------------------
(***************************************************************************)
(* The escrow contract, contracts/escrow/src/lib.rs, with the reputation   *)
(* contract it invokes and the token contracts it moves money in.          *)
(*                                                                         *)
(* One action per entry point.  require_auth is modelled by the caller     *)
(* being the wallet the action is about: anyone may call anything with     *)
(* their own signature.  Soroban executes one call at a time and reverts   *)
(* all of it, the calls to other contracts included, when any part fails;  *)
(* so every error path is the negation of a guard.                         *)
(***************************************************************************)
EXTENDS Reputation, FiniteSets

CONSTANTS
    Account,         \* the wallets: Address without the contract itself
    EscrowAddress,   \* env.current_contract_address()
    Shares,          \* freelancer shares, in bps, a resolver may pass
    Claims,          \* what a wallet may pass to record_completion by itself
    InitialBalance   \* tokens each wallet starts with, per asset

ASSUME EscrowConstants ==
    /\ EscrowAddress \notin Account
    /\ Address = Account \cup {EscrowAddress}
    /\ Shares \subseteq Nat
    /\ Claims \subseteq [client: Address, freelancer: Address, asset: Asset,
                         amount: Amounts, rating: Ratings]
    /\ InitialBalance \in Nat

VARIABLES
    platformAdmin,   \* PlatformAdmin, NoAddress until initialize
    nextEscrowId,    \* NextEscrowId
    escrow,          \* the Escrow(id) entries, a function on 1..nextEscrowId-1
    allowedAssets,   \* the AllowedAsset(asset) entries
    allowedCount,    \* AllowedAssetCount
    disputeAdmins,   \* the DisputeAdmin(address) entries
    balance,         \* the token contracts: balance[address][asset]
    resolved         \* the DisputeResolvedEvent log

chainVars == <<platformAdmin, nextEscrowId, escrow, allowedAssets,
               allowedCount, disputeAdmins, balance, resolved>>

vars == <<repVars, chainVars>>

Status == {"Created", "Funded", "Submitted", "Released", "Cancelled",
           "Disputed"}

\* TEscrow.  Hashes are not interpreted by the contract; the times only say
\* whether the step happened, which the status and the ledger say already.
\* Nothing but the client's own address is refused as a freelancer: it can be
\* the contract itself, which never signs for work but can be paid.
Escrow == [client: Account, freelancer: Address \cup {NoAddress},
           asset: Asset, amount: {a \in Amounts : validate_amount(a)},
           status: Status]

ResolvedEvent ==
    [escrow_id: 1..MaxEscrows, actor: Account, share: 0..10000, status: Status,
     freelancer_amount: Nat, client_amount: Nat]

Ids == DOMAIN escrow

is_initialized == platformAdmin # NoAddress

is_dispute_admin(w) == w = platformAdmin \/ w \in disputeAdmins

\* The bound MaxEscrows stands for the u64 counter.
create_escrow_internal(client, freelancer, asset, amount, status) ==
    /\ validate_amount(amount)
    /\ allowedCount > 0 => asset \in allowedAssets
    /\ nextEscrowId <= MaxEscrows
    /\ escrow' = [i \in 1..nextEscrowId |->
           IF i = nextEscrowId
           THEN [client |-> client, freelancer |-> freelancer,
                 asset |-> asset, amount |-> amount, status |-> status]
           ELSE escrow[i]]
    /\ nextEscrowId' = nextEscrowId + 1

\* The balances b after `amount` is added to one of them.
Credit(b, to, asset, amount) == [b EXCEPT ![to][asset] = @ + amount]

\* A token transfer out of `from`; the call fails, and with it the whole
\* transaction, when the balance is short.
Transfer(from, to, asset, amount) ==
    /\ balance[from][asset] >= amount
    /\ balance' = Credit(Credit(balance, from, asset, -amount),
                         to, asset, amount)

\* A mutant: the share of the last part below 10000 is forgotten.
FreelancerAmountOfWhole(amount, share) == (amount \div 10000) * share

\* resolve_dispute's split, written so that no product exceeds an i128.
FreelancerAmount(amount, share) ==
    (amount \div 10000) * share + ((amount % 10000) * share) \div 10000

SetStatus(id, status) ==
    escrow' = [escrow EXCEPT ![id].status = status]

-----------------------------------------------------------------------------
Init ==
    /\ RepInit
    /\ platformAdmin = NoAddress
    /\ nextEscrowId = 1
    /\ escrow = [i \in {} |-> NoAddress]
    /\ allowedAssets = {}
    /\ allowedCount = 0
    /\ disputeAdmins = {}
    /\ balance = [w \in Address |-> [a \in Asset |->
                     IF w = EscrowAddress THEN 0 ELSE InitialBalance]]
    /\ resolved = {}

\* initialize: the proposed admin signs.
Initialize(admin) ==
    /\ ~is_initialized
    /\ platformAdmin' = admin
    /\ UNCHANGED <<repVars, nextEscrowId, escrow, allowedAssets, allowedCount,
                   disputeAdmins, balance, resolved>>

CreateEscrow(client, freelancer, asset, amount) ==
    /\ is_initialized
    /\ client # freelancer
    /\ create_escrow_internal(client, freelancer, asset, amount, "Created")
    /\ UNCHANGED <<repVars, platformAdmin, allowedAssets, allowedCount,
                   disputeAdmins, balance, resolved>>

CreateOpenEscrow(client, asset, amount) ==
    /\ is_initialized
    /\ create_escrow_internal(client, NoAddress, asset, amount, "Created")
    /\ UNCHANGED <<repVars, platformAdmin, allowedAssets, allowedCount,
                   disputeAdmins, balance, resolved>>

CreateAndFundOpenEscrow(client, asset, amount) ==
    /\ is_initialized
    /\ create_escrow_internal(client, NoAddress, asset, amount, "Funded")
    /\ Transfer(client, EscrowAddress, asset, amount)
    /\ UNCHANGED <<repVars, platformAdmin, allowedAssets, allowedCount,
                   disputeAdmins, resolved>>

\* A mutant: an asset can be added twice.
AddAllowedAssetAgain(asset) ==
    /\ is_initialized
    /\ allowedAssets' = allowedAssets \cup {asset}
    /\ allowedCount' = allowedCount + 1
    /\ UNCHANGED <<repVars, platformAdmin, nextEscrowId, escrow,
                   disputeAdmins, balance, resolved>>

AddAllowedAsset(asset) ==
    /\ is_initialized
    /\ asset \notin allowedAssets
    /\ allowedAssets' = allowedAssets \cup {asset}
    /\ allowedCount' = allowedCount + 1
    /\ UNCHANGED <<repVars, platformAdmin, nextEscrowId, escrow,
                   disputeAdmins, balance, resolved>>

RemoveAllowedAsset(asset) ==
    /\ is_initialized
    /\ asset \in allowedAssets
    /\ allowedAssets' = allowedAssets \ {asset}
    /\ allowedCount' = IF allowedCount = 0 THEN 0 ELSE allowedCount - 1
    /\ UNCHANGED <<repVars, platformAdmin, nextEscrowId, escrow,
                   disputeAdmins, balance, resolved>>

MayAddDisputeAdmin(w) == is_initialized /\ w # platformAdmin

AddDisputeAdmin(w) ==
    /\ MayAddDisputeAdmin(w)
    /\ disputeAdmins' = disputeAdmins \cup {w}
    /\ UNCHANGED <<repVars, platformAdmin, nextEscrowId, escrow,
                   allowedAssets, allowedCount, balance, resolved>>

RemoveDisputeAdmin(w) ==
    /\ is_initialized
    /\ w # platformAdmin
    /\ disputeAdmins' = disputeAdmins \ {w}
    /\ UNCHANGED <<repVars, platformAdmin, nextEscrowId, escrow,
                   allowedAssets, allowedCount, balance, resolved>>

FundEscrow(client, id) ==
    /\ escrow[id].status = "Created"
    /\ escrow[id].client = client
    /\ Transfer(client, EscrowAddress, escrow[id].asset, escrow[id].amount)
    /\ SetStatus(id, "Funded")
    /\ UNCHANGED <<repVars, platformAdmin, nextEscrowId, allowedAssets,
                   allowedCount, disputeAdmins, resolved>>

\* A mutant: a freelancer is replaced.
AssignAgain(client, id, freelancer) ==
    /\ escrow[id].client = client
    /\ client # freelancer
    /\ escrow[id].status \in {"Created", "Funded"}
    /\ escrow' = [escrow EXCEPT ![id].freelancer = freelancer]
    /\ UNCHANGED <<repVars, platformAdmin, nextEscrowId, allowedAssets,
                   allowedCount, disputeAdmins, balance, resolved>>

AssignFreelancer(client, id, freelancer) ==
    /\ escrow[id].client = client
    /\ client # freelancer
    /\ escrow[id].freelancer = NoAddress
    /\ escrow[id].status \in {"Created", "Funded"}
    /\ escrow' = [escrow EXCEPT ![id].freelancer = freelancer]
    /\ UNCHANGED <<repVars, platformAdmin, nextEscrowId, allowedAssets,
                   allowedCount, disputeAdmins, balance, resolved>>

SubmitWork(freelancer, id) ==
    /\ escrow[id].status = "Funded"
    /\ escrow[id].freelancer = freelancer
    /\ SetStatus(id, "Submitted")
    /\ UNCHANGED <<repVars, platformAdmin, nextEscrowId, allowedAssets,
                   allowedCount, disputeAdmins, balance, resolved>>

\* A mutant: the contract pays although the reputation contract refused.
ApproveWithoutRecord(client, id, rating) ==
    LET e == escrow[id] IN
    /\ validate_rating(rating)
    /\ e.status = "Submitted"
    /\ e.client = client
    /\ e.freelancer # NoAddress
    /\ Transfer(EscrowAddress, e.freelancer, e.asset, e.amount)
    /\ SetStatus(id, "Released")
    /\ UNCHANGED <<repVars, platformAdmin, nextEscrowId, allowedAssets,
                   allowedCount, disputeAdmins, resolved>>

\* The payout, the call to record_completion and the status are one
\* transaction: when the reputation contract refuses, nothing is paid.
ApproveAndRelease(client, id, rating) ==
    LET e == escrow[id] IN
    /\ validate_rating(rating)
    /\ e.status = "Submitted"
    /\ e.client = client
    /\ e.freelancer # NoAddress
    /\ Transfer(EscrowAddress, e.freelancer, e.asset, e.amount)
    /\ RecordCompletion(EscrowAddress, id, e.client, e.freelancer, e.asset,
                        e.amount, rating)
    /\ SetStatus(id, "Released")
    /\ UNCHANGED <<platformAdmin, nextEscrowId, allowedAssets, allowedCount,
                   disputeAdmins, resolved>>

\* A mutant: a funded escrow is cancelled without its refund.
CancelWithoutRefund(client, id) ==
    /\ escrow[id].client = client
    /\ escrow[id].status \in {"Created", "Funded"}
    /\ SetStatus(id, "Cancelled")
    /\ UNCHANGED <<repVars, platformAdmin, nextEscrowId, allowedAssets,
                   allowedCount, disputeAdmins, balance, resolved>>

\* The contract owns what it is to pay back.
Covered(id) == balance[EscrowAddress][escrow[id].asset] >= escrow[id].amount

MayCancel(client, id) ==
    /\ escrow[id].client = client
    /\ escrow[id].status \in {"Created", "Funded"}
    /\ escrow[id].status = "Funded" => Covered(id)

CancelEscrow(client, id) ==
    /\ MayCancel(client, id)
    /\ IF escrow[id].status = "Funded"
       THEN Transfer(EscrowAddress, client, escrow[id].asset, escrow[id].amount)
       ELSE UNCHANGED balance
    /\ SetStatus(id, "Cancelled")
    /\ UNCHANGED <<repVars, platformAdmin, nextEscrowId, allowedAssets,
                   allowedCount, disputeAdmins, resolved>>

\* A mutant: submitted work cannot be disputed.
MayMarkDisputedEarly(caller, id) ==
    /\ escrow[id].freelancer # NoAddress
    /\ caller \in {escrow[id].client, escrow[id].freelancer, platformAdmin}
    /\ escrow[id].status = "Funded"

\* A party or the platform admin; the other dispute admins may not.
MayMarkDisputed(caller, id) ==
    /\ escrow[id].freelancer # NoAddress
    /\ caller \in {escrow[id].client, escrow[id].freelancer, platformAdmin}
    /\ escrow[id].status \in {"Funded", "Submitted"}

MarkDisputed(caller, id) ==
    /\ MayMarkDisputed(caller, id)
    /\ SetStatus(id, "Disputed")
    /\ UNCHANGED <<repVars, platformAdmin, nextEscrowId, allowedAssets,
                   allowedCount, disputeAdmins, balance, resolved>>

\* What resolve_dispute asks besides that the caller is a dispute admin.
Resolvable(admin, id, share) ==
    LET e      == escrow[id]
        toFree == FreelancerAmount(e.amount, share)
        toCl   == e.amount - toFree
    IN
    /\ share <= 10000
    /\ e.status = "Disputed"
    /\ admin \notin {e.client, e.freelancer}
    /\ e.freelancer # NoAddress
    /\ balance[EscrowAddress][e.asset] >= toFree + toCl

\* Both transfers leave the same balance: their order does not matter, and
\* the second cannot fail once the first succeeded unless the sum is short.
\* Paid to the contract itself, the freelancer's part stays where it was.
ResolveDispute(admin, id, share) ==
    LET e      == escrow[id]
        toFree == FreelancerAmount(e.amount, share)
        toCl   == e.amount - toFree
        final  == IF share = 0 THEN "Cancelled" ELSE "Released"
    IN
    /\ is_dispute_admin(admin)
    /\ Resolvable(admin, id, share)
    /\ balance' =
           Credit(Credit(Credit(balance, EscrowAddress, e.asset,
                                -(toFree + toCl)),
                         e.freelancer, e.asset, toFree),
                  e.client, e.asset, toCl)
    /\ SetStatus(id, final)
    /\ resolved' = resolved \cup
           {[escrow_id |-> id, actor |-> admin, share |-> share,
             status |-> final, freelancer_amount |-> toFree,
             client_amount |-> toCl]}
    /\ UNCHANGED <<repVars, platformAdmin, nextEscrowId, allowedAssets,
                   allowedCount, disputeAdmins>>

\* The wallet the reputation contract was initialized with, if it is one,
\* needs no escrow to record a completion: only its own signature.
RecordDirectly(w, id, c) ==
    /\ RecordCompletion(w, id, c.client, c.freelancer, c.asset, c.amount,
                        c.rating)
    /\ UNCHANGED chainVars

Next ==
    \/ \E addr \in Address : InitializeReputation(addr) /\ UNCHANGED chainVars
    \/ \E w \in Account, id \in 1..MaxEscrows, c \in Claims :
           RecordDirectly(w, id, c)
    \/ \E w \in Account : Initialize(w)
    \/ \E w \in Account, f \in Address, asset \in Asset, amount \in Amounts :
           CreateEscrow(w, f, asset, amount)
    \/ \E w \in Account, asset \in Asset, amount \in Amounts :
           \/ CreateOpenEscrow(w, asset, amount)
           \/ CreateAndFundOpenEscrow(w, asset, amount)
    \/ \E asset \in Asset : AddAllowedAsset(asset) \/ RemoveAllowedAsset(asset)
    \/ \E w \in Account : AddDisputeAdmin(w) \/ RemoveDisputeAdmin(w)
    \/ \E w \in Account, id \in Ids :
           \/ FundEscrow(w, id)
           \/ SubmitWork(w, id)
           \/ CancelEscrow(w, id)
           \/ MarkDisputed(w, id)
           \/ \E f \in Address : AssignFreelancer(w, id, f)
           \/ \E rating \in Ratings : ApproveAndRelease(w, id, rating)
           \/ \E share \in Shares : ResolveDispute(w, id, share)

Spec == Init /\ [][Next]_vars

-----------------------------------------------------------------------------
Final == {"Released", "Cancelled"}

\* The statuses in which the contract holds the amount of the escrow.
Holding == {"Funded", "Submitted", "Disputed"}

ChainTypeOK ==
    /\ platformAdmin \in Account \cup {NoAddress}
    /\ nextEscrowId \in 1..(MaxEscrows + 1)
    /\ escrow \in [1..(nextEscrowId - 1) -> Escrow]
    /\ allowedAssets \subseteq Asset
    /\ allowedCount \in Nat
    /\ disputeAdmins \subseteq Account
    /\ balance \in [Address -> [Asset -> Nat]]
    /\ resolved \subseteq ResolvedEvent

TypeOK == RepTypeOK /\ ChainTypeOK

\* The completion of an escrow that its approval recorded.  A reputation
\* contract that obeys a wallet holds the completions the wallet made up.
Approved(id) == authorized = EscrowAddress /\ has_completion(id)

\* What the freelancer of an escrow got out of it; its client is out of pocket
\* by that and by what the contract still holds.
Earned(id) ==
    CASE \E r \in resolved : r.escrow_id = id ->
             (CHOOSE r \in resolved : r.escrow_id = id).freelancer_amount
      [] Approved(id) -> completions[id].amount
      [] OTHER -> 0

HeldFor(id) == IF escrow[id].status \in Holding THEN escrow[id].amount ELSE 0

\* What an escrow did to the balance of an address.  When the contract itself
\* is the freelancer, what a resolution awards it stays in the contract: no
\* call pays that out again.
Gain(w, id) ==
    IF w = escrow[id].client
    THEN -(HeldFor(id) + Earned(id))
    ELSE (IF w = EscrowAddress THEN HeldFor(id) ELSE 0)
         + (IF w = escrow[id].freelancer THEN Earned(id) ELSE 0)

Gains(w, asset) ==
    [id \in 1..(nextEscrowId - 1) |->
        IF escrow[id].asset = asset THEN Gain(w, id) ELSE 0]

Start(w) == IF w = EscrowAddress THEN 0 ELSE InitialBalance

BalancesAddUp ==
    \A w \in Address, asset \in Asset :
        balance[w][asset] = Start(w) + SumTo(Gains(w, asset), nextEscrowId - 1)

\* What the contract holds of `asset` for each escrow.
Held(asset) ==
    [id \in 1..(nextEscrowId - 1) |->
        IF escrow[id].asset = asset THEN HeldFor(id) ELSE 0]

\* Solvency: of each token the contract owns at least the amounts of the
\* escrows it holds, through every order of funding, cancelling, releasing
\* and splitting of several escrows in one token: none is paid out of
\* another's money.  Nor does any remainder of a split stay behind: it owns
\* exactly that, unless an escrow in the token names the contract itself as
\* its freelancer.
Solvency ==
    \A asset \in Asset : LET held == SumTo(Held(asset), nextEscrowId - 1) IN
        /\ balance[EscrowAddress][asset] >= held
        /\ (\A id \in Ids : escrow[id].asset = asset =>
                               escrow[id].freelancer # EscrowAddress)
               => balance[EscrowAddress][asset] = held

\* Every token is where the records say: each address, the contract included,
\* has lost or gained exactly what the escrows it is a party of cost or earned
\* it, and the contract owns besides what it holds for its escrows - so every
\* payment and refund went to the right party, in the right token, once.
EveryTokenIsAccountedFor == Solvency /\ BalancesAddUp

\* An escrow is Released for exactly one reason, the client's approval or an
\* admin's resolution, and leaves exactly one trace of it: a completion that
\* repeats the escrow's own parties and amount, or a resolution event with
\* the same final status.  No other escrow has either.  This is about the
\* completions that approvals record: when the reputation contract was
\* initialized for a wallet, its completions say nothing of any escrow - and
\* then nothing can be approved, so that every release is a resolution.
ReleasedForOneReason ==
    /\ \A id \in Ids : escrow[id].status = "Released" =>
           (Approved(id) <=> ~ \E r \in resolved : r.escrow_id = id)
    /\ \A r \in resolved :
           /\ r.escrow_id \in Ids
           /\ escrow[r.escrow_id].status = r.status
           /\ \A q \in resolved : q.escrow_id = r.escrow_id => q = r
    /\ \A id \in DOMAIN completions : Approved(id) =>
           /\ id \in Ids
           /\ LET e == escrow[id]
                  c == completions[id]
              IN /\ e.status = "Released"
                 /\ <<e.client, e.freelancer, e.asset, e.amount>> =
                        <<c.client, c.freelancer, c.asset, c.amount>>

\* The share of an amount, rounded down.
FloorShare(amount, share) == (amount * share) \div 10000

\* A resolution pays out the whole escrow, to its parties only, and was made
\* by someone who is neither of them - for the parties the escrow has now,
\* whoever was assigned when.
ResolutionIsFairAndComplete ==
    \A r \in resolved : LET e == escrow[r.escrow_id] IN
        /\ r.freelancer_amount + r.client_amount = e.amount
        /\ r.freelancer_amount = FloorShare(e.amount, r.share)
        /\ r.actor \notin {e.client, e.freelancer}

\* No escrow reaches a status in which the money has two owners or none:
\* work, disputes and payouts happen only with an assigned freelancer other
\* than the client.
PartiesAreDistinct ==
    \A id \in Ids :
        /\ escrow[id].client # escrow[id].freelancer
        /\ escrow[id].status \in {"Submitted", "Released", "Disputed"} =>
               escrow[id].freelancer # NoAddress

\* The count that switches the allow-list on is the number of entries.
AllowlistCountIsExact == allowedCount = Cardinality(allowedAssets)

\* Money held by the contract can always leave it, whatever the reputation
\* contract answers: the client of a funded escrow can take it back; as soon as
\* there is a freelancer, either party and the platform admin can open a
\* dispute without the others; and every wallet that is no party can resolve a
\* dispute, with any share, if it is a dispute admin or appointed to be one.
\* (Each of these calls is its condition and one value for each variable, so
\* it can be made whenever the condition holds.  A freelancer that is the
\* contract itself can call nothing: then the client and the admin remain.)
HeldFundsHaveAnExit ==
    \A id \in Ids : LET e == escrow[id] IN
        /\ e.status = "Funded" => MayCancel(e.client, id)
        /\ e.status \in {"Funded", "Submitted"} =>
               \/ e.status = "Funded" /\ e.freelancer = NoAddress
               \/ \A w \in Account \cap {e.client, e.freelancer, platformAdmin} :
                      MayMarkDisputed(w, id)
        /\ e.status = "Disputed" =>
               \A w \in Account \ {e.client, e.freelancer}, s \in Shares :
                   s <= 10000 =>
                       /\ Resolvable(w, id, s)
                       /\ is_dispute_admin(w) \/ MayAddDisputeAdmin(w)

StatusSteps ==
    {<<"Created", "Funded">>, <<"Created", "Cancelled">>,
     <<"Funded", "Submitted">>, <<"Funded", "Cancelled">>,
     <<"Funded", "Disputed">>, <<"Submitted", "Released">>,
     <<"Submitted", "Disputed">>, <<"Disputed", "Released">>,
     <<"Disputed", "Cancelled">>}

KeepsToLifecycle(id) ==
    LET e == escrow[id]
        f == escrow'[id]
    IN /\ id \in DOMAIN escrow'
       /\ <<e.client, e.asset, e.amount>> = <<f.client, f.asset, f.amount>>
       /\ e.freelancer \in {NoAddress, f.freelancer}
       /\ e.status = f.status \/ <<e.status, f.status>> \in StatusSteps

\* A step never removes an escrow, never changes its client, token or amount,
\* never replaces a freelancer once assigned, and moves the status only along
\* the lifecycle: a released or cancelled escrow is final.
Lifecycle == [][\A id \in Ids : KeepsToLifecycle(id)]_vars

StageOf(status) ==
    CASE status = "Created" -> "open"
      [] status \in {"Funded", "Submitted"} -> "held"
      [] status = "Disputed" -> "disputed"
      [] OTHER -> "closed"

Keeping == INSTANCE Custody WITH
    Escrows <- 1..MaxEscrows, Workers <- Address, Nobody <- NoAddress,
    stage  <- [id \in 1..MaxEscrows |->
                  IF id \in Ids THEN StageOf(escrow[id].status) ELSE "none"],
    worker <- [id \in 1..MaxEscrows |->
                  IF id \in Ids THEN escrow[id].freelancer ELSE NoAddress]

\* The contract implements Custody: no call of any wallet moves the money of
\* more than one escrow, skips a stage, replaces a freelancer, opens a dispute
\* of nobody's work or reopens what is closed.
KeepsCustody == Keeping!Spec

=============================================================================
