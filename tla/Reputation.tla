----------------------------- MODULE Reputation -----------------------------
(***************************************************************************)
(* The reputation contract, contracts/reputation/src/lib.rs.               *)
(*                                                                         *)
(* It is initialized once with the address of the escrow contract, and     *)
(* from then on only that contract can record a completed job.  Each       *)
(* record is kept for ever under its escrow id and is added to running     *)
(* totals of the freelancer.  A failed call (Err or a panic) reverts the   *)
(* whole transaction, so it is a step that does not happen: every error    *)
(* path is the negation of a guard.                                        *)
(***************************************************************************)
EXTENDS Integers, Sums

CONSTANTS
    Address,      \* accounts and contracts
    NoAddress,    \* Option::None for an address
    Asset,        \* token contracts
    Amounts,      \* amounts a caller may pass, the invalid ones included
    Ratings,      \* ratings a caller may pass, the invalid ones included
    MaxEscrows,   \* bound: escrow ids are 1..MaxEscrows (u64 in the code)
    CounterMax,   \* u32::MAX, scaled down
    EarnedMax     \* i128::MAX, scaled down

ASSUME ReputationConstants ==
    /\ NoAddress \notin Address
    /\ Amounts \subseteq Int
    /\ Ratings \subseteq Int
    /\ MaxEscrows \in Nat
    /\ CounterMax \in Nat
    /\ EarnedMax \in Nat

VARIABLES
    authorized,   \* AuthorizedEscrowContract, NoAddress until initialize
    completions,  \* the Completion(escrow_id) entries, a function on the ids
    stats         \* FreelancerStats(address); the default when never written

repVars == <<authorized, completions, stats>>

Completion ==
    [client: Address, freelancer: Address, asset: Asset, amount: Nat \ {0},
     rating: 1..5]

Stats == [completed_jobs_count: 0..CounterMax, total_earned: 0..EarnedMax,
          total_rating: 0..CounterMax]

default_freelancer_stats ==
    [completed_jobs_count |-> 0, total_earned |-> 0, total_rating |-> 0]

validate_rating(rating) == rating \in 1..5

validate_amount(amount) == amount > 0

has_completion(id) == id \in DOMAIN completions

\* The three checked_add calls: a sum beyond the type's width is an error.
checked_stats(s, amount, rating) ==
    /\ s.completed_jobs_count + 1 <= CounterMax
    /\ s.total_earned + amount <= EarnedMax
    /\ s.total_rating + rating <= CounterMax

\* The integer division of get_freelancer_stats.
average_rating(s) ==
    IF s.completed_jobs_count = 0
    THEN 0
    ELSE s.total_rating \div s.completed_jobs_count

RepInit ==
    /\ authorized = NoAddress
    /\ completions = [i \in {} |-> NoAddress]
    /\ stats = [f \in Address |-> default_freelancer_stats]

\* A mutant: the contract can be pointed at another escrow contract.
InitializeReputationAgain(addr) ==
    /\ authorized' = addr
    /\ UNCHANGED <<completions, stats>>

\* initialize: no signature is required, the first call decides.
InitializeReputation(addr) ==
    /\ authorized = NoAddress
    /\ authorized' = addr
    /\ UNCHANGED <<completions, stats>>

\* A mutant: the totals are those of the last job.
AddToStatsLast(s, amount, rating) ==
    [completed_jobs_count |-> s.completed_jobs_count + 1,
     total_earned |-> amount,
     total_rating |-> rating]

AddToStats(s, amount, rating) ==
    [completed_jobs_count |-> s.completed_jobs_count + 1,
     total_earned |-> s.total_earned + amount,
     total_rating |-> s.total_rating + rating]

\* record_completion, invoked by the contract `caller`.
RecordCompletion(caller, id, client, freelancer, asset, amount, rating) ==
    /\ authorized = caller
    /\ validate_amount(amount)
    /\ validate_rating(rating)
    /\ ~has_completion(id)
    /\ checked_stats(stats[freelancer], amount, rating)
    /\ completions' = [i \in DOMAIN completions \cup {id} |->
           IF i = id
           THEN [client |-> client, freelancer |-> freelancer,
                 asset |-> asset, amount |-> amount, rating |-> rating]
           ELSE completions[i]]
    /\ stats' = [stats EXCEPT ![freelancer] = AddToStats(@, amount, rating)]
    /\ UNCHANGED authorized

\* The contract by itself, called by anyone with anything.
RepNext ==
    \/ \E addr \in Address : InitializeReputation(addr)
    \/ \E caller, client, freelancer \in Address, id \in 1..MaxEscrows,
          asset \in Asset, amount \in Amounts, rating \in Ratings :
           RecordCompletion(caller, id, client, freelancer, asset, amount,
                            rating)

RepSpec == RepInit /\ [][RepNext]_repVars

-----------------------------------------------------------------------------
(***************************************************************************)
(* What the contract promises of its own state, whichever contract calls   *)
(* it and with whichever arguments.                                        *)
(***************************************************************************)

\* The type invariant: totals stay within their widths.
RepTypeOK ==
    /\ authorized \in Address \cup {NoAddress}
    /\ DOMAIN completions \subseteq 1..MaxEscrows
    /\ completions \in [DOMAIN completions -> Completion]
    /\ stats \in [Address -> Stats]

CompletedBy(f, id) == has_completion(id) /\ completions[id].freelancer = f

JobsOf(f) ==
    [id \in 1..MaxEscrows |-> IF CompletedBy(f, id) THEN 1 ELSE 0]

EarnedOf(f) ==
    [id \in 1..MaxEscrows |->
        IF CompletedBy(f, id) THEN completions[id].amount ELSE 0]

RatingsOf(f) ==
    [id \in 1..MaxEscrows |->
        IF CompletedBy(f, id) THEN completions[id].rating ELSE 0]

\* The running totals kept by checked_add are exactly the count and the sums
\* over the records: no record is missed, counted twice or credited to
\* another freelancer.
StatsMatchCompletions ==
    \A f \in Address :
        /\ stats[f].completed_jobs_count = SumTo(JobsOf(f), MaxEscrows)
        /\ stats[f].total_earned = SumTo(EarnedOf(f), MaxEscrows)
        /\ stats[f].total_rating = SumTo(RatingsOf(f), MaxEscrows)

\* get_freelancer_stats divides two stored totals: for a freelancer with at
\* least one completed job the average is a rating, 1 to 5.
AverageIsARating ==
    \A f \in Address :
        stats[f].completed_jobs_count > 0 => average_rating(stats[f]) \in 1..5

\* A completion, once recorded, is never changed or removed, and the contract
\* allowed to record them never changes: repeating a call adds nothing.
RecordsArePermanent ==
    [][/\ \A id \in DOMAIN completions :
              has_completion(id)' /\ completions'[id] = completions[id]
       /\ authorized \in {NoAddress, authorized'}]_repVars
=============================================================================
